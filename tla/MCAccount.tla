------------------------------ MODULE MCAccount ------------------------------
(***************************************************************************)
(* What belongs to one user's account, in one run: the wallet, and the     *)
(* live connection with its offline queue.  The models have no variable in *)
(* common, so a behaviour moves the component in `focus`, chosen at the    *)
(* start, and the other rests.                                             *)
(***************************************************************************)
EXTENDS MCWallet, Mailbox

VARIABLE focus

accountVars == <<focus, vars, mailVars>>

AccountInit ==
  /\ focus \in {"wallet", "mail"}
  /\ Init /\ MailInit

\* Connections and deliveries may come to an end; a wallet never does.
MailRests == (~ENABLED MailNext) /\ UNCHANGED mailVars

AccountNext ==
  /\ UNCHANGED focus
  /\ \/ focus = "wallet" /\ Next /\ UNCHANGED mailVars
     \/ focus = "mail" /\ (MailNext \/ MailRests) /\ UNCHANGED vars

AccountSpec == AccountInit /\ [][AccountNext]_accountVars

AccountLiveSpec == AccountSpec /\ WalletFairness /\ MailFairness
=============================================================================
