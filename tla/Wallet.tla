------------------------------- MODULE Wallet -------------------------------
(***************************************************************************)
(* The wallets of backend/app/modules/payments (service.py, crud.py): rows *)
(* of `wallets`, the transactions logged beside them, and the requests     *)
(* that move money.  A request is not one database transaction but several *)
(* commits: it logs a PENDING transaction, changes the balance under a row *)
(* lock (crud.update_wallet_balance), then records the outcome             *)
(* (crud.update_transaction_status).  Any statement may fail, and the      *)
(* process may stop between any two commits.                               *)
(***************************************************************************)
EXTENDS Integers, FiniteSets

CONSTANTS
  Users,            \* owners of wallets
  TxnIds,           \* primary keys of `transactions`: bounds the requests
  Sessions,         \* requests served at the same time, one AsyncSession each
  Amounts,          \* amounts a request may name
  Ops,              \* the operations the requests perform, a subset of AllOps
  WebhookOutcomes,  \* statuses a provider's callback may ask for
  None              \* no transaction, no owner of a lock

Credits == {"topup", "propTopup"}
Debits  == {"deduct", "propPayout"}
AllOps  == Credits \cup Debits \cup {"open"}

\* The operations that create a missing wallet, and those that answer an
\* exception by marking their transaction FAILED; `deduct` has no handler.
Ensuring == {"propTopup", "propPayout"}
Handling == {"topup", "propTopup", "propPayout"}

ASSUME AmountsAssumption == Amounts \subseteq Nat \ {0}
ASSUME OpsAssumption     == Ops \subseteq AllOps
ASSUME WebhookAssumption == WebhookOutcomes \subseteq {"processing", "completed", "failed"}
ASSUME NoneAssumption    == None \notin TxnIds \cup Sessions

VARIABLES
  hasWallet,  \* users with a row in `wallets`
  balance,    \* wallets.balance, 0 for a user without a row
  txn,        \* rows of `transactions`
  applied,    \* history: the transactions whose amount reached a balance
  lock,       \* holder of the row lock of each wallet
  pc,         \* next statement of each request
  call        \* arguments of the request and what it has read

tables == <<hasWallet, balance, txn, applied>>
vars   == <<hasWallet, balance, txn, applied, lock, pc, call>>

TransactionStatus == {"pending", "processing", "completed", "failed"}
Txns == [status : TransactionStatus \cup {"unused"},
         user   : Users \cup {None},
         amount : Int]
NoTxn == [status |-> "unused", user |-> None, amount |-> 0]

Steps == {"idle", "load", "log", "provider", "lock", "apply", "complete", "markFailed"}
Calls == [op : AllOps \cup {None}, user : Users \cup {None}, amount : Nat,
          txn : TxnIds \cup {None}, seen : Int]
NoCall == [op |-> None, user |-> None, amount |-> 0, txn |-> None, seen |-> 0]

\* What a request does to the balance: deductions are logged as negative amounts.
Signed(c) == IF c.op \in Debits THEN 0 - c.amount ELSE c.amount

\* `wallet.balance < request.amount`, of an operation that debits.
TooPoor(c, funds) == c.op \in Debits /\ funds < c.amount

-----------------------------------------------------------------------------
Init ==
  /\ hasWallet = {}
  /\ balance = [u \in Users |-> 0]
  /\ txn = [t \in TxnIds |-> NoTxn]
  /\ applied = {}
  /\ lock = [u \in Users |-> None]
  /\ pc = [s \in Sessions |-> "idle"]
  /\ call = [s \in Sessions |-> NoCall]

Goto(s, step) == pc' = [pc EXCEPT ![s] = step]

\* The request is answered, or dropped; its local variables are gone.
Return(s) == Goto(s, "idle") /\ call' = [call EXCEPT ![s] = NoCall]

\* COMMIT or ROLLBACK: the row locks of the session are released.
ReleaseLocks(s) == lock' = [u \in Users |-> IF lock[u] = s THEN None ELSE lock[u]]

\* A request arrives; ids left in TxnIds bound how many can still log.
Begin(s) ==
  /\ pc[s] = "idle"
  /\ \E op \in Ops, u \in Users, a \in Amounts :
       call' = [call EXCEPT ![s] = [op |-> op, user |-> u, amount |-> a,
                                    txn |-> None, seen |-> 0]]
  /\ Goto(s, "load")
  /\ UNCHANGED <<tables, lock>>

\* crud.create_wallet, and the insert of service._ensure_wallet_for_user: the
\* unique user_id makes a second insert an error or a no-op.
InsertWallet(u) == hasWallet' = hasWallet \cup {u}

OpenWallet(s) ==
  /\ pc[s] = "load" /\ call[s].op = "open"
  /\ InsertWallet(call[s].user)
  /\ Return(s)
  /\ UNCHANGED <<balance, txn, applied, lock>>

EnsureWallet(s) ==
  /\ pc[s] = "load" /\ call[s].op \in Ensuring
  /\ call[s].user \notin hasWallet
  /\ InsertWallet(call[s].user)
  /\ UNCHANGED <<balance, txn, applied, lock, pc, call>>

\* The unlocked read: 404 without a wallet, 400 when the balance is too small.
LoadWallet(s) ==
  LET c == call[s] IN
  /\ pc[s] = "load" /\ c.op # "open"
  /\ c.op \in Ensuring => c.user \in hasWallet
  /\ IF c.user \in hasWallet /\ ~TooPoor(c, balance[c.user])
       THEN Goto(s, "log") /\ UNCHANGED call
       ELSE Return(s)
  /\ UNCHANGED <<tables, lock>>

\* Variant: the row is logged as already COMPLETED.
LogCompleted(s) ==
  /\ pc[s] = "log"
  /\ \E t \in TxnIds :
       /\ txn[t].status = "unused"
       /\ txn' = [txn EXCEPT ![t] = [status |-> "completed", user |-> call[s].user,
                                     amount |-> Signed(call[s])]]
       /\ call' = [call EXCEPT ![s].txn = t]
  /\ Goto(s, IF call[s].op = "topup" THEN "provider" ELSE "lock")
  /\ UNCHANGED <<hasWallet, balance, applied, lock>>

\* crud.log_transaction commits the PENDING row before any money moves.
LogTransaction(s) ==
  /\ pc[s] = "log"
  /\ \E t \in TxnIds :
       /\ txn[t].status = "unused"
       /\ txn' = [txn EXCEPT ![t] = [status |-> "pending", user |-> call[s].user,
                                     amount |-> Signed(call[s])]]
       /\ call' = [call EXCEPT ![s].txn = t]
  /\ Goto(s, IF call[s].op = "topup" THEN "provider" ELSE "lock")
  /\ UNCHANGED <<hasWallet, balance, applied, lock>>

\* utils.mock_payment_process sleeps some seconds and, called with
\* simulate_success=True, always succeeds.
ProviderAnswers(s) ==
  /\ pc[s] = "provider"
  /\ Goto(s, "lock")
  /\ UNCHANGED <<tables, lock, call>>

\* An exception raised after the transaction was logged: the session is rolled
\* back and the handler, if the operation has one, goes on to mark the
\* transaction FAILED.  (After a rollback the prop handlers read an expired ORM
\* row, which SQLAlchemy may refuse: StatementFails covers a handler cut short.)
Handle(s) ==
  IF call[s].op \in Handling THEN Goto(s, "markFailed") /\ UNCHANGED call
                             ELSE Return(s)

\* Variant: the unlocked check of the service is trusted.
LockUnchecked(s) ==
  LET c == call[s] IN
  /\ pc[s] = "lock" /\ lock[c.user] = None
  /\ lock' = [lock EXCEPT ![c.user] = s]
  /\ call' = [call EXCEPT ![s].seen = balance[c.user]]
  /\ Goto(s, "apply")
  /\ UNCHANGED tables

\* Variant: SELECT without FOR UPDATE.
ReadUnlocked(s) ==
  LET c == call[s] IN
  /\ pc[s] = "lock" /\ lock[c.user] = None
  /\ ~TooPoor(c, balance[c.user])
  /\ call' = [call EXCEPT ![s].seen = balance[c.user]]
  /\ Goto(s, "apply")
  /\ UNCHANGED <<tables, lock>>

\* SELECT ... FOR UPDATE, then the second look at the balance.
LockWallet(s) ==
  LET c == call[s] IN
  /\ pc[s] = "lock" /\ lock[c.user] = None
  /\ ~TooPoor(c, balance[c.user])
  /\ lock' = [lock EXCEPT ![c.user] = s]
  /\ call' = [call EXCEPT ![s].seen = balance[c.user]]
  /\ Goto(s, "apply")
  /\ UNCHANGED tables

RefuseDebit(s) ==
  LET c == call[s] IN
  /\ pc[s] = "lock" /\ lock[c.user] = None
  /\ TooPoor(c, balance[c.user])
  /\ Handle(s)
  /\ UNCHANGED <<tables, lock>>

\* UPDATE wallets SET balance = (the value computed from the read); COMMIT.
ApplyBalance(s) ==
  LET c == call[s] IN
  /\ pc[s] = "apply"
  /\ balance' = [balance EXCEPT ![c.user] = c.seen + Signed(c)]
  /\ applied' = applied \cup {c.txn}
  /\ ReleaseLocks(s)
  /\ Goto(s, "complete")
  /\ UNCHANGED <<hasWallet, txn, call>>

\* crud.update_transaction_status.
UpdateStatus(t, status) == txn' = [txn EXCEPT ![t].status = status]

CompleteTransaction(s) ==
  /\ pc[s] = "complete"
  /\ UpdateStatus(call[s].txn, "completed")
  /\ Return(s)
  /\ UNCHANGED <<hasWallet, balance, applied, lock>>

MarkFailed(s) ==
  /\ pc[s] = "markFailed"
  /\ UpdateStatus(call[s].txn, "failed")
  /\ Return(s)
  /\ UNCHANGED <<hasWallet, balance, applied, lock>>

\* Variant: the exception is answered without a rollback.
FailsUnreleased(s) ==
  /\ pc[s] \in {"load", "log", "lock", "apply", "complete", "markFailed"}
  /\ IF pc[s] \in {"lock", "apply", "complete"} THEN Handle(s) ELSE Return(s)
  /\ UNCHANGED <<tables, lock>>

\* A statement raises (connection lost, deadlock, timeout): what the session
\* has not committed is undone.  The try blocks begin after log_transaction.
StatementFails(s) ==
  /\ pc[s] \in {"load", "log", "lock", "apply", "complete", "markFailed"}
  /\ ReleaseLocks(s)
  /\ IF pc[s] \in {"lock", "apply", "complete"} THEN Handle(s) ELSE Return(s)
  /\ UNCHANGED tables

\* The process stops and the server drops its connection: no handler runs.
Crash(s) ==
  /\ pc[s] # "idle"
  /\ ReleaseLocks(s)
  /\ Return(s)
  /\ UNCHANGED tables

\* Variant: the provider's word is stored as it came.
WebhookVerbatim(t) ==
  /\ txn[t].status # "unused"
  /\ \E outcome \in WebhookOutcomes : UpdateStatus(t, "declined")
  /\ UNCHANGED <<hasWallet, balance, applied, lock, pc, call>>

\* service.verify_payment_webhook_service, for a correctly signed callback: it
\* writes the status the provider names, whatever the row's status is, and
\* leaves the wallet alone.
Webhook(t) ==
  /\ txn[t].status # "unused"
  /\ \E outcome \in WebhookOutcomes : UpdateStatus(t, outcome)
  /\ UNCHANGED <<hasWallet, balance, applied, lock, pc, call>>

\* The statements of a request once it has begun.
Proceed(s) ==
  \/ OpenWallet(s) \/ EnsureWallet(s) \/ LoadWallet(s) \/ LogTransaction(s)
  \/ ProviderAnswers(s) \/ LockWallet(s) \/ RefuseDebit(s) \/ ApplyBalance(s)
  \/ CompleteTransaction(s) \/ MarkFailed(s)

Next ==
  \/ \E s \in Sessions : Begin(s) \/ Proceed(s) \/ StatementFails(s) \/ Crash(s)
  \/ \E t \in TxnIds : Webhook(t)

Spec == Init /\ [][Next]_vars

\* The event loop resumes every request whose statement can run.
WalletFairness == \A s \in Sessions : WF_vars(Proceed(s))
LiveSpec == Spec /\ WalletFairness

-----------------------------------------------------------------------------
TypeOK ==
  /\ hasWallet \subseteq Users
  /\ balance \in [Users -> Int]
  /\ txn \in [TxnIds -> Txns]
  /\ applied \subseteq TxnIds
  /\ lock \in [Users -> Sessions \cup {None}]
  /\ pc \in [Sessions -> Steps]
  /\ call \in [Sessions -> Calls]

\* No interleaving of debits overdraws a wallet, although every request decides
\* on a balance it read without a lock several commits earlier.
Solvent == \A u \in Users : balance[u] >= 0

\* The units of money that the transactions of S paid in, and out, each unit
\* of each transaction counted once.
PaidIn(S)  == UNION {{t} \X (1 .. txn[t].amount) : t \in S}
PaidOut(S) == UNION {{t} \X (1 .. 0 - txn[t].amount) : t \in S}

\* A balance is exactly the sum of the logged amounts that reached it: no
\* concurrent change is lost and none is counted twice, whichever requests
\* failed or stopped half way.
BalanceIsLedger ==
  \A u \in Users :
    LET posted == {t \in applied : txn[t].user = u}
    IN balance[u] = Cardinality(PaidIn(posted)) - Cardinality(PaidOut(posted))

\* A transaction shown as COMPLETED has changed the balance: a statement of
\* account never lists money that did not move.
CompletedWasApplied ==
  \A t \in TxnIds : txn[t].status = "completed" => t \in applied

\* When nobody works on a transaction any more and it is COMPLETED, the money
\* has arrived.  With callbacks this is what routers.py:527 promises of the
\* webhook ("Update wallet balance if needed"): a request that died after its
\* log_transaction is confirmed by the provider.
ConfirmedIsCredited ==
  \A t \in TxnIds :
    txn[t].status = "completed" /\ (\A s \in Sessions : call[s].txn # t)
      => t \in applied

\* A debit refused for want of money is recorded as FAILED, which is what
\* models.py:59 says of that status ("insufficient funds, provider error").  It
\* is refused after its transaction is logged only when another debit was
\* applied since the unlocked look at the balance.
RefusalRecorded ==
  [][\A s \in Sessions : RefuseDebit(s) =>
       pc'[s] = "markFailed" \/ txn'[call[s].txn].status = "failed"]_vars

\* A refused or broken request never blocks the wallet for the others: every
\* request that begins is answered, unless no transaction id is left.
IdsLeft == \E t \in TxnIds : txn[t].status = "unused"
EveryCallEnds ==
  \A s \in Sessions : (pc[s] # "idle") ~> (pc[s] = "idle" \/ ~IdsLeft)
=============================================================================
