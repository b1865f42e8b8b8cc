---------------------------- MODULE AccountProofs ----------------------------
(***************************************************************************)
(* Theorems about what belongs to a user's account.                        *)
(*                                                                         *)
(* Wallet, for any users, sessions, transactions and amounts: between      *)
(* reading a balance under FOR UPDATE and writing it back a request owns   *)
(* the row, so what it read is still the balance, and the second funds     *)
(* check still holds when it writes.                                       *)
(*                                                                         *)
(* Mailbox, for any connections, notifications, queue and retry bounds: a  *)
(* registration and its heartbeat begin in one step, and whoever ends that *)
(* heartbeat goes on to remove what is registered then.                    *)
(***************************************************************************)
EXTENDS Wallet, Mailbox, FiniteSetTheorems, TLAPS


\* A request has arguments from Begin on, and a transaction of its own from
\* LogTransaction on.
Logged == {"provider", "lock", "apply", "complete", "markFailed"}
CallsOK ==
  \A s \in Sessions :
    /\ pc[s] # "idle" => call[s].user \in Users /\ call[s].op \in AllOps
    /\ pc[s] \in Logged => call[s].txn \in TxnIds
    /\ pc[s] \notin Logged => call[s].txn = None

\* The row lock is held exactly while the new balance is computed.
LocksOK ==
  /\ \A s \in Sessions : pc[s] = "apply" => lock[call[s].user] = s
  /\ \A s \in Sessions, u \in Users :
       lock[u] = s => pc[s] = "apply" /\ call[s].user = u

\* What a lock holder has read is current, and covers what it debits.
FundsOK ==
  \A s \in Sessions :
    pc[s] = "apply" => /\ call[s].seen = balance[call[s].user]
                       /\ ~TooPoor(call[s], call[s].seen)

\* The row a request logged describes it, is its own, and is applied once.
RowsOK ==
  /\ \A s \in Sessions : pc[s] \in Logged =>
       /\ txn[call[s].txn].status # "unused"
       /\ txn[call[s].txn].user = call[s].user
       /\ txn[call[s].txn].amount = Signed(call[s])
  /\ \A t \in applied : txn[t].status # "unused"
  /\ \A r, s \in Sessions :
       r # s /\ pc[r] \in Logged /\ pc[s] \in Logged => call[r].txn # call[s].txn
AppliedOK ==
  \A s \in Sessions :
    /\ pc[s] \in {"provider", "lock", "apply"} => call[s].txn \notin applied
    /\ pc[s] = "complete" => call[s].txn \in applied

IInv == TypeOK /\ CallsOK /\ LocksOK /\ FundsOK /\ RowsOK /\ AppliedOK /\ Solvent

LEMMA InitInv == Init => IInv
  BY AmountsAssumption, NoneAssumption
  DEF Init, IInv, TypeOK, CallsOK, LocksOK, FundsOK, RowsOK, AppliedOK, Solvent,
      Txns, NoTxn, Steps, Calls, NoCall, Logged

\* Requests that only move on, or end, disturb no table.
LEMMA QuietStep ==
  ASSUME IInv, NEW s \in Sessions,
         OpenWallet(s) \/ EnsureWallet(s) \/ LoadWallet(s) \/ ProviderAnswers(s)
           \/ RefuseDebit(s) \/ Begin(s) \/ StatementFails(s) \/ Crash(s)
  PROVE  IInv'
<1> USE AmountsAssumption, OpsAssumption, NoneAssumption
    DEF IInv, TypeOK, CallsOK, LocksOK, FundsOK, RowsOK, AppliedOK, Solvent, Calls,
        NoCall, Logged, Steps, Goto, Return, tables, TooPoor, Signed, AllOps, Credits,
        Debits
<1>1. CASE OpenWallet(s)
  BY <1>1 DEF OpenWallet, InsertWallet
<1>2. CASE EnsureWallet(s)
  BY <1>2 DEF EnsureWallet, InsertWallet
<1>3. CASE LoadWallet(s)
  <2>1. /\ pc[s] = "load" /\ UNCHANGED <<hasWallet, balance, txn, applied, lock>>
        /\ \/ pc' = [pc EXCEPT ![s] = "log"] /\ UNCHANGED call
           \/ Return(s)
    BY <1>3 DEF LoadWallet
  <2>2. CASE pc' = [pc EXCEPT ![s] = "log"] /\ UNCHANGED call
    <3>1. TypeOK' /\ CallsOK' /\ FundsOK' /\ Solvent'
      BY <2>1, <2>2
    <3>2. LocksOK' /\ RowsOK' /\ AppliedOK'
      BY <2>1, <2>2
    <3> QED
      BY <3>1, <3>2
  <2>3. CASE Return(s)
    <3>1. TypeOK' /\ CallsOK' /\ FundsOK' /\ Solvent'
      BY <2>1, <2>3
    <3>2. LocksOK' /\ RowsOK' /\ AppliedOK'
      BY <2>1, <2>3
    <3> QED
      BY <3>1, <3>2
  <2> QED
    BY <2>1, <2>2, <2>3
<1>4. CASE ProviderAnswers(s)
  BY <1>4 DEF ProviderAnswers
<1>5. CASE RefuseDebit(s)
  <2>1. pc[s] = "lock" /\ UNCHANGED <<hasWallet, balance, txn, applied, lock>>
    BY <1>5 DEF RefuseDebit
  <2>2. CASE pc' = [pc EXCEPT ![s] = "markFailed"] /\ UNCHANGED call
    <3>1. TypeOK' /\ CallsOK' /\ FundsOK' /\ Solvent'
      BY <2>1, <2>2
    <3>2. LocksOK' /\ RowsOK' /\ AppliedOK'
      BY <2>1, <2>2
    <3> QED
      BY <3>1, <3>2
  <2>3. CASE Return(s)
    <3>1. TypeOK' /\ CallsOK' /\ FundsOK' /\ Solvent'
      BY <2>1, <2>3
    <3>2. LocksOK' /\ RowsOK' /\ AppliedOK'
      BY <2>1, <2>3
    <3> QED
      BY <3>1, <3>2
  <2> QED
    BY <1>5, <2>2, <2>3 DEF RefuseDebit, Handle
<1>6. CASE Begin(s)
  BY <1>6 DEF Begin
<1>7. CASE StatementFails(s)
  <2>1. /\ lock' = [u \in Users |-> IF lock[u] = s THEN None ELSE lock[u]]
        /\ UNCHANGED <<hasWallet, balance, txn, applied>>
    BY <1>7 DEF StatementFails, ReleaseLocks
  <2>2. CASE /\ pc[s] \in {"lock", "apply", "complete"}
             /\ pc' = [pc EXCEPT ![s] = "markFailed"] /\ UNCHANGED call
    <3>1. TypeOK' /\ CallsOK' /\ FundsOK' /\ Solvent'
      BY <2>1, <2>2
    <3>2. LocksOK' /\ RowsOK' /\ AppliedOK'
      BY <2>1, <2>2
    <3> QED
      BY <3>1, <3>2
  <2>3. CASE Return(s)
    <3>1. TypeOK' /\ CallsOK' /\ FundsOK' /\ Solvent'
      BY <2>1, <2>3
    <3>2. LocksOK' /\ RowsOK' /\ AppliedOK'
      BY <2>1, <2>3
    <3> QED
      BY <3>1, <3>2
  <2> QED
    BY <1>7, <2>2, <2>3 DEF StatementFails, Handle
<1>8. CASE Crash(s)
  BY <1>8 DEF Crash, ReleaseLocks
<1> QED
  BY <1>1, <1>2, <1>3, <1>4, <1>5, <1>6, <1>7, <1>8

\* The steps that log, read and write, and record the outcome.
LEMMA LogStep ==
  ASSUME IInv, NEW s \in Sessions, LogTransaction(s)
  PROVE  IInv'
<1> USE AmountsAssumption, NoneAssumption DEF IInv
<1>1. PICK t \in TxnIds :
        /\ txn[t].status = "unused"
        /\ txn' = [txn EXCEPT ![t] = [status |-> "pending", user |-> call[s].user,
                                      amount |-> Signed(call[s])]]
        /\ call' = [call EXCEPT ![s].txn = t]
  BY DEF LogTransaction
<1>2. /\ pc[s] = "log"
      /\ pc' = [pc EXCEPT ![s] = IF call[s].op = "topup" THEN "provider" ELSE "lock"]
      /\ UNCHANGED <<hasWallet, balance, applied, lock>>
  BY DEF LogTransaction, Goto
<1>3. t \notin applied
  BY <1>1 DEF RowsOK
<1>4. \A r \in Sessions : pc[r] \in Logged => call[r].txn # t
  BY <1>1 DEF RowsOK
<1>5. Signed(call[s]) \in Int /\ call[s].user \in Users
  BY <1>2 DEF TypeOK, CallsOK, Calls, Signed
<1>6. TypeOK' /\ CallsOK'
  BY <1>1, <1>2, <1>5 DEF TypeOK, CallsOK, Calls, Txns, TransactionStatus, Steps, Logged
<1>7. LocksOK' /\ FundsOK' /\ Solvent'
  BY <1>1, <1>2 DEF TypeOK, LocksOK, FundsOK, Solvent, TooPoor, Calls
<1>8. RowsOK'
  <2>1. \A r \in Sessions \ {s} : /\ call'[r] = call[r] /\ pc'[r] = pc[r]
                                  /\ pc[r] \in Logged => txn'[call[r].txn] = txn[call[r].txn]
    BY <1>1, <1>2, <1>4 DEF TypeOK
  <2>2. /\ call'[s].txn = t /\ call'[s].user = call[s].user
        /\ Signed(call[s])' = Signed(call[s])
    BY <1>1 DEF TypeOK, Calls, Signed
  <2>3. txn'[t] = [status |-> "pending", user |-> call[s].user, amount |-> Signed(call[s])]
    BY <1>1 DEF TypeOK
  <2>4. \A r \in Sessions \ {s} : Signed(call[r])' = Signed(call[r])
    BY <2>1 DEF Signed
  <2>5. \A u \in applied' : txn'[u].status # "unused"
    BY <1>1, <1>2, <1>3 DEF TypeOK, RowsOK
  <2> QED
    BY <1>2, <1>4, <2>1, <2>2, <2>3, <2>4, <2>5 DEF RowsOK
<1>9. AppliedOK'
  BY <1>1, <1>2, <1>3 DEF TypeOK, AppliedOK, Calls
<1> QED
  BY <1>6, <1>7, <1>8, <1>9

LEMMA LockStep ==
  ASSUME IInv, NEW s \in Sessions, LockWallet(s)
  PROVE  IInv'
  BY NoneAssumption
  DEF LockWallet, IInv, TypeOK, CallsOK, LocksOK, FundsOK, RowsOK, AppliedOK, Solvent,
      Calls, Logged, Steps, Goto, tables, TooPoor, Signed

\* What ApplyBalance does to the ledger, and that the wallet can bear it.
LEMMA ApplyPosts ==
  ASSUME IInv, NEW s \in Sessions, ApplyBalance(s)
  PROVE  LET t == call[s].txn IN
           /\ t \in TxnIds \ applied
           /\ txn[t].user \in Users
           /\ applied' = applied \cup {t}
           /\ balance' = [balance EXCEPT ![txn[t].user] = @ + txn[t].amount]
           /\ balance[txn[t].user] + txn[t].amount >= 0
<1> USE DEF IInv, ApplyBalance
<1>1. /\ call[s].txn \in TxnIds \ applied
      /\ txn[call[s].txn].user = call[s].user /\ call[s].user \in Users
      /\ txn[call[s].txn].amount = Signed(call[s])
  BY DEF CallsOK, RowsOK, AppliedOK, Logged
<1>2. call[s].seen = balance[call[s].user] /\ ~TooPoor(call[s], call[s].seen)
  BY DEF FundsOK
<1>3. balance[call[s].user] + Signed(call[s]) >= 0
  BY <1>1, <1>2 DEF Signed, TooPoor, TypeOK, Calls, Solvent
<1> QED
  BY <1>1, <1>2, <1>3

LEMMA ApplyStep ==
  ASSUME IInv, NEW s \in Sessions, ApplyBalance(s)
  PROVE  IInv'
<1> USE NoneAssumption DEF IInv
<1>1. PICK t \in TxnIds : t = call[s].txn
  BY ApplyPosts
<1>2. /\ t \notin applied /\ txn[t].user = call[s].user /\ call[s].user \in Users
      /\ applied' = applied \cup {t}
      /\ balance' = [balance EXCEPT ![call[s].user] = @ + txn[t].amount]
      /\ balance[call[s].user] + txn[t].amount >= 0
  BY <1>1, ApplyPosts DEF ApplyBalance, CallsOK, RowsOK, Logged
<1>3. /\ pc[s] = "apply" /\ pc' = [pc EXCEPT ![s] = "complete"]
      /\ lock' = [u \in Users |-> IF lock[u] = s THEN None ELSE lock[u]]
      /\ UNCHANGED <<hasWallet, txn, call>>
  BY DEF ApplyBalance, Goto, ReleaseLocks
<1>4. \A r \in Sessions \ {s} : pc[r] = "apply" => call[r].user # call[s].user
  BY <1>3 DEF LocksOK
<1>5. TypeOK' /\ CallsOK' /\ Solvent'
  BY <1>2, <1>3 DEF TypeOK, CallsOK, Solvent, Steps, Logged, Txns
<1>6. LocksOK'
  BY <1>3 DEF TypeOK, LocksOK, CallsOK
<1>7. FundsOK'
  BY <1>2, <1>3, <1>4 DEF TypeOK, FundsOK, CallsOK, TooPoor
<1>8. RowsOK'
  <2>1. \A r \in Sessions : pc'[r] \in Logged <=> pc[r] \in Logged
    BY <1>3 DEF TypeOK, Logged
  <2>2. \A u \in applied' : txn'[u].status # "unused"
    BY <1>1, <1>2, <1>3 DEF RowsOK, Logged
  <2> QED
    BY <1>3, <2>1, <2>2 DEF RowsOK, Signed
<1>9. AppliedOK'
  BY <1>1, <1>2, <1>3 DEF TypeOK, AppliedOK, RowsOK, Logged
<1> QED
  BY <1>5, <1>6, <1>7, <1>8, <1>9

LEMMA StatusStep ==
  ASSUME IInv, NEW s \in Sessions, CompleteTransaction(s) \/ MarkFailed(s)
  PROVE  IInv'
<1> USE NoneAssumption
    DEF IInv, TypeOK, CallsOK, LocksOK, FundsOK, RowsOK, AppliedOK, Solvent, Calls,
        NoCall, Logged, Steps, Txns, TransactionStatus, Goto, Return, UpdateStatus,
        TooPoor, Signed
<1>1. CASE CompleteTransaction(s)
  BY <1>1 DEF CompleteTransaction
<1>2. CASE MarkFailed(s)
  BY <1>2 DEF MarkFailed
<1> QED
  BY <1>1, <1>2

LEMMA WebhookStep ==
  ASSUME IInv, NEW t \in TxnIds, Webhook(t)
  PROVE  IInv'
  BY WebhookAssumption
  DEF Webhook, UpdateStatus, IInv, TypeOK, CallsOK, LocksOK, FundsOK, RowsOK, AppliedOK,
      Solvent, Txns, TransactionStatus, TooPoor, Signed

LEMMA StepInv == IInv /\ [Next]_vars => IInv'
<1> SUFFICES ASSUME IInv, [Next]_vars PROVE IInv'
  OBVIOUS
<1>1. CASE UNCHANGED vars
  BY <1>1 DEF vars, IInv, TypeOK, CallsOK, LocksOK, FundsOK, RowsOK, AppliedOK, Solvent,
              TooPoor, Signed
<1>2. ASSUME NEW s \in Sessions, Begin(s) \/ Proceed(s) \/ StatementFails(s) \/ Crash(s)
      PROVE  IInv'
  BY <1>2, QuietStep, LogStep, LockStep, ApplyStep, StatusStep DEF Proceed
<1>3. ASSUME NEW t \in TxnIds, Webhook(t) PROVE IInv'
  BY <1>3, WebhookStep
<1> QED
  BY <1>1, <1>2, <1>3 DEF Next

LEMMA Invariance == Spec => []IInv
  BY InitInv, StepInv, PTL DEF Spec

\* Rows and requests keep their types, whatever fails half way.
THEOREM TypeCorrect == Spec => []TypeOK
  BY Invariance, PTL DEF IInv

\* No interleaving of debits overdraws a wallet: the check that counts is the
\* one repeated under the row lock (crud.update_wallet_balance).
THEOREM NeverOverdrawn == Spec => []Solvent
  BY Invariance, PTL DEF IInv

\* Every change of a balance is the amount of one logged transaction, which
\* no other change has used: no update is lost, none is doubled.
Posting ==
  \/ UNCHANGED <<balance, applied>>
  \/ \E t \in TxnIds \ applied :
       /\ applied' = applied \cup {t}
       /\ balance' = [balance EXCEPT ![txn[t].user] = @ + txn[t].amount]

THEOREM EveryChangeIsLogged == Spec => [][Posting]_vars
<1>1. IInv /\ [Next]_vars => [Posting]_vars
  <2> SUFFICES ASSUME IInv, Next PROVE Posting
    BY DEF Posting
  <2>1. ASSUME NEW s \in Sessions, ApplyBalance(s) PROVE Posting
    BY <2>1, ApplyPosts DEF Posting
  <2>2. CASE \A s \in Sessions : ~ApplyBalance(s)
    BY <2>2
    DEF Next, Proceed, Begin, OpenWallet, EnsureWallet, LoadWallet, LogTransaction,
        ProviderAnswers, LockWallet, RefuseDebit, CompleteTransaction, MarkFailed,
        StatementFails, Crash, Webhook, tables, Posting
  <2> QED
    BY <2>1, <2>2
<1> QED
  BY <1>1, Invariance, PTL DEF Spec

\* Once applied, a transaction's owner and amount never change, so a statement
\* of account explains the balance for ever.
RowsImmutable ==
  \A t \in TxnIds : txn[t].status # "unused" =>
    txn'[t].user = txn[t].user /\ txn'[t].amount = txn[t].amount

\* How a step may change one row of `transactions`.
Confirms(t) == \E s \in Sessions : CompleteTransaction(s) /\ t = call[s].txn
RowStep(t) ==
  \/ txn'[t] = txn[t]
  \/ txn[t].status = "unused" /\ txn'[t].status = "pending"
  \/ /\ txn'[t].user = txn[t].user /\ txn'[t].amount = txn[t].amount
     /\ txn'[t].status = "completed" => Confirms(t) \/ Webhook(t)

LEMMA RowSteps ==
  ASSUME IInv, Next, NEW t \in TxnIds
  PROVE  RowStep(t)
<1>0. txn \in [TxnIds -> Txns]
  BY DEF IInv, TypeOK
<1>1. ASSUME NEW s \in Sessions, LogTransaction(s) PROVE RowStep(t)
  BY <1>0, <1>1 DEF LogTransaction, RowStep
<1>2. ASSUME NEW s \in Sessions, CompleteTransaction(s) PROVE RowStep(t)
  BY <1>0, <1>2 DEF CompleteTransaction, UpdateStatus, RowStep, Confirms, Txns
<1>3. ASSUME NEW s \in Sessions, MarkFailed(s) PROVE RowStep(t)
  BY <1>0, <1>3 DEF MarkFailed, UpdateStatus, RowStep, Txns
<1>4. ASSUME NEW u \in TxnIds, Webhook(u) PROVE RowStep(t)
  <2>1. PICK outcome \in WebhookOutcomes : txn' = [txn EXCEPT ![u].status = outcome]
    BY <1>4 DEF Webhook, UpdateStatus
  <2>2. u # t => txn'[t] = txn[t]
    BY <1>0, <2>1
  <2>3. txn'[t].user = txn[t].user /\ txn'[t].amount = txn[t].amount
    BY <1>0, <2>1 DEF Txns
  <2> QED
    BY <1>4, <2>2, <2>3 DEF RowStep
<1>5. CASE UNCHANGED txn
  BY <1>5 DEF RowStep
<1>6. \A s \in Sessions :
        Begin(s) \/ OpenWallet(s) \/ EnsureWallet(s) \/ LoadWallet(s)
          \/ ProviderAnswers(s) \/ LockWallet(s) \/ RefuseDebit(s) \/ ApplyBalance(s)
          \/ StatementFails(s) \/ Crash(s)
        => UNCHANGED txn
  BY DEF Begin, OpenWallet, EnsureWallet, LoadWallet, ProviderAnswers, LockWallet,
         RefuseDebit, ApplyBalance, StatementFails, Crash, tables
<1> QED
  BY <1>1, <1>2, <1>3, <1>4, <1>5, <1>6 DEF Next, Proceed

THEOREM LogIsImmutable == Spec => [][RowsImmutable]_vars
<1>1. IInv /\ [Next]_vars => [RowsImmutable]_vars
  <2> SUFFICES ASSUME IInv, Next, NEW t \in TxnIds, txn[t].status # "unused"
               PROVE  txn'[t].user = txn[t].user /\ txn'[t].amount = txn[t].amount
    BY DEF RowsImmutable
  <2> QED
    BY RowSteps DEF RowStep
<1> QED
  BY <1>1, Invariance, PTL DEF Spec

\* A step that shows a transaction as COMPLETED finds its money moved, or is
\* a provider's callback.
ConfirmedByCallback ==
  \A t \in TxnIds :
    txn[t].status # "completed" /\ txn'[t].status = "completed"
      => t \in applied \/ Webhook(t)

\* Only verify_payment_webhook_service can show as COMPLETED a transaction
\* whose money has not moved: no race of requests, no failed statement and no
\* stopped process makes a request do so, whatever callbacks come in between.
THEOREM OnlyCallbacksConfirmUnpaid == Spec => [][ConfirmedByCallback]_vars
<1>1. IInv /\ [Next]_vars => [ConfirmedByCallback]_vars
  <2> SUFFICES ASSUME IInv, Next, NEW t \in TxnIds, txn[t].status # "completed",
                      txn'[t].status = "completed"
               PROVE  t \in applied \/ Webhook(t)
    BY DEF ConfirmedByCallback
  <2>1. Confirms(t) \/ Webhook(t)
    BY RowSteps DEF RowStep
  <2> QED
    BY <2>1 DEF Confirms, CompleteTransaction, IInv, AppliedOK
<1> QED
  BY <1>1, Invariance, PTL DEF Spec

-----------------------------------------------------------------------------
(***************************************************************************)
(* The ledger.  A unit of money is a pair of a transaction and a number up *)
(* to its amount.                                                          *)
(***************************************************************************)
\* The units of the amounts f of S.
Units(f, S) == UNION {{t} \X (1 .. f[t]) : t \in S}

LEMMA BlockSize ==
  ASSUME NEW b, NEW k \in Int
  PROVE  /\ IsFiniteSet({b} \X (1 .. k))
         /\ Cardinality({b} \X (1 .. k)) = IF k >= 0 THEN k ELSE 0
<1>1. PICK B, I : B = {b} /\ I = 1 .. k
  OBVIOUS
<1>2. IsFiniteSet(B) /\ Cardinality(B) = 1
  BY <1>1, FS_Singleton
<1>3. PICK n \in Nat : n = IF k >= 0 THEN k ELSE 0
  OBVIOUS
<1>4. IsFiniteSet(I) /\ Cardinality(I) = n
  <2>1. 1 \in Int /\ k \in Int
    OBVIOUS
  <2>2. IsFiniteSet(1 .. k) /\ Cardinality(1 .. k) = IF 1 > k THEN 0 ELSE k - 1 + 1
    BY <2>1, FS_Interval
  <2>3. (IF 1 > k THEN 0 ELSE k - 1 + 1) = n
    BY <1>3
  <2> QED
    BY <1>1, <2>2, <2>3
<1>5. IsFiniteSet(B \X I) /\ Cardinality(B \X I) = Cardinality(B) * Cardinality(I)
  BY <1>2, <1>4, FS_Product
<1>6. 1 * n = n
  OBVIOUS
<1> QED
  BY <1>1, <1>2, <1>3, <1>4, <1>5, <1>6

\* One more transaction adds its units.
LEMMA UnitsAdd ==
  ASSUME NEW f, NEW S, NEW t, t \notin S, f[t] \in Int, IsFiniteSet(Units(f, S))
  PROVE  /\ IsFiniteSet(Units(f, S \cup {t}))
         /\ Cardinality(Units(f, S)) \in Nat
         /\ Cardinality(Units(f, S \cup {t}))
              = Cardinality(Units(f, S)) + (IF f[t] >= 0 THEN f[t] ELSE 0)
<1>1. PICK k \in Int : k = f[t]
  OBVIOUS
<1>2. PICK P, Q : P = Units(f, S) /\ Q = {t} \X (1 .. k)
  OBVIOUS
<1>3. Units(f, S \cup {t}) = P \cup Q
  BY <1>1, <1>2 DEF Units
<1>4. P \cap Q = {}
  BY <1>2 DEF Units
<1>5. PICK n \in Nat : n = IF k >= 0 THEN k ELSE 0
  OBVIOUS
<1>6. IsFiniteSet(Q) /\ Cardinality(Q) = n
  BY <1>2, <1>5, BlockSize
<1>7. IsFiniteSet(P) /\ Cardinality(P) \in Nat
  BY <1>2, FS_CardinalityType
<1>8. /\ IsFiniteSet(P \cup Q)
      /\ Cardinality(P \cup Q) = Cardinality(P) + Cardinality(Q) - Cardinality(P \cap Q)
  BY <1>6, <1>7, FS_Union
<1>9. Cardinality(P \cap Q) = 0
  BY <1>4, FS_EmptySet
<1>10. Cardinality(P \cup Q) = Cardinality(P) + n
  BY <1>6, <1>7, <1>8, <1>9
<1> QED
  BY <1>1, <1>2, <1>3, <1>5, <1>7, <1>8, <1>10

LEMMA UnitsSame ==
  ASSUME NEW f, NEW g, NEW S, \A t \in S : f[t] = g[t]
  PROVE  Units(f, S) = Units(g, S)
<1>1. {{t} \X (1 .. f[t]) : t \in S} = {{t} \X (1 .. g[t]) : t \in S}
  OBVIOUS
<1> QED
  BY <1>1 DEF Units

\* The amounts a table of transactions pays in, and out.
In(x) == [t \in TxnIds |-> x[t].amount]
Out(x) == [t \in TxnIds |-> 0 - x[t].amount]
Posted(x, A, u) == {t \in A : x[t].user = u}

\* The balance b of user u agrees with the transactions of A in the table x.
Agrees(x, A, u, b) ==
  /\ IsFiniteSet(Units(In(x), Posted(x, A, u)))
  /\ IsFiniteSet(Units(Out(x), Posted(x, A, u)))
  /\ b = Cardinality(Units(In(x), Posted(x, A, u)))
           - Cardinality(Units(Out(x), Posted(x, A, u)))

Ledger == \A u \in Users : Agrees(txn, applied, u, balance[u])

LEMMA LedgerMeaning == TypeOK /\ Ledger => BalanceIsLedger
<1> SUFFICES ASSUME TypeOK, Ledger, NEW u \in Users
             PROVE  LET posted == {t \in applied : txn[t].user = u}
                    IN balance[u] = Cardinality(PaidIn(posted)) - Cardinality(PaidOut(posted))
  BY DEF BalanceIsLedger
<1>1. PICK S : S = Posted(txn, applied, u)
  OBVIOUS
<1>2. S \subseteq TxnIds
  BY <1>1 DEF TypeOK, Posted
<1>3. PaidIn(S) = Units(In(txn), S) /\ PaidOut(S) = Units(Out(txn), S)
  BY <1>2 DEF PaidIn, PaidOut, Units, In, Out
<1> QED
  BY <1>1, <1>3 DEF Ledger, Agrees, Posted

\* Rows that were not applied may change.
LEMMA LedgerSame ==
  ASSUME NEW x, NEW y, NEW A \in SUBSET TxnIds, NEW u, NEW b,
         \A t \in A : y[t].user = x[t].user /\ y[t].amount = x[t].amount,
         Agrees(x, A, u, b)
  PROVE  Agrees(y, A, u, b)
<1>1. PICK S : S = Posted(x, A, u)
  OBVIOUS
<1>2. S = Posted(y, A, u) /\ S \subseteq A
  BY <1>1 DEF Posted
<1>3. \A t \in S : In(x)[t] = In(y)[t] /\ Out(x)[t] = Out(y)[t]
  BY <1>2 DEF In, Out
<1>4. Units(In(x), S) = Units(In(y), S) /\ Units(Out(x), S) = Units(Out(y), S)
  BY <1>3, UnitsSame
<1> QED
  BY <1>1, <1>2, <1>4 DEF Agrees

LEMMA LedgerPost ==
  ASSUME NEW x, NEW A \in SUBSET TxnIds, NEW t \in TxnIds \ A, x[t].amount \in Int,
         NEW u, NEW b \in Int, Agrees(x, A, u, b)
  PROVE  Agrees(x, A \cup {t}, u, IF x[t].user = u THEN b + x[t].amount ELSE b)
<1>1. CASE x[t].user # u
  <2>1. Posted(x, A \cup {t}, u) = Posted(x, A, u)
    BY <1>1 DEF Posted
  <2> QED
    BY <1>1, <2>1 DEF Agrees
<1>2. CASE x[t].user = u
  <2>0. PICK k \in Int : k = x[t].amount
    OBVIOUS
  <2>1. PICK S, f, g : S = Posted(x, A, u) /\ f = In(x) /\ g = Out(x)
    OBVIOUS
  <2>2. Posted(x, A \cup {t}, u) = S \cup {t} /\ t \notin S
    BY <1>2, <2>1 DEF Posted
  <2>3. f[t] = k /\ g[t] = 0 - k /\ f[t] \in Int /\ g[t] \in Int
    BY <2>0, <2>1 DEF In, Out
  <2>4. PICK i, o : i = Cardinality(Units(f, S)) /\ o = Cardinality(Units(g, S))
    OBVIOUS
  <2>5. /\ IsFiniteSet(Units(f, S)) /\ IsFiniteSet(Units(g, S)) /\ b = i - o
    BY <2>1, <2>4 DEF Agrees
  <2>6. PICK n \in Nat, m \in Nat : /\ n = (IF k >= 0 THEN k ELSE 0)
                                    /\ m = (IF 0 - k >= 0 THEN 0 - k ELSE 0)
    BY <2>0
  <2>7. /\ n - m = k
        /\ n = (IF f[t] >= 0 THEN f[t] ELSE 0) /\ m = (IF g[t] >= 0 THEN g[t] ELSE 0)
    BY <2>3, <2>6
  <2>8. /\ IsFiniteSet(Units(f, S \cup {t})) /\ i \in Nat
        /\ Cardinality(Units(f, S \cup {t})) = i + n
    BY <2>2, <2>3, <2>4, <2>5, <2>7, UnitsAdd
  <2>9. /\ IsFiniteSet(Units(g, S \cup {t})) /\ o \in Nat
        /\ Cardinality(Units(g, S \cup {t})) = o + m
        /\ b + k = (i + n) - (o + m)
    <3>1. /\ IsFiniteSet(Units(g, S \cup {t})) /\ o \in Nat
          /\ Cardinality(Units(g, S \cup {t})) = o + m
      BY <2>2, <2>3, <2>4, <2>5, <2>7, UnitsAdd
    <3>2. b + k = (i + n) - (o + m)
      <4>1. i \in Nat /\ o \in Nat /\ b = i - o
        BY <2>5, <2>8, <3>1
      <4> QED
        BY <2>6, <2>7, <4>1
    <3> QED
      BY <3>1, <3>2
  <2>10. (IF x[t].user = u THEN b + x[t].amount ELSE b) = b + k
    BY <1>2, <2>0
  <2>11. PICK B, C : B = A \cup {t} /\ C = S \cup {t}
    OBVIOUS
  <2>12. Agrees(x, B, u, b + k)
    BY <2>1, <2>2, <2>8, <2>9, <2>11 DEF Agrees
  <2> QED
    BY <2>10, <2>11, <2>12
<1> QED
  BY <1>1, <1>2

LEMMA LedgerStep ==
  ASSUME IInv, Ledger, [Next]_vars
  PROVE  Ledger'
<1>1. /\ applied \in SUBSET TxnIds /\ balance \in [Users -> Int]
      /\ \A t \in TxnIds : txn[t].amount \in Int
      /\ \A t \in applied : txn[t].status # "unused"
  BY DEF IInv, TypeOK, Txns, RowsOK
<1>2. \A t \in applied : txn'[t].user = txn[t].user /\ txn'[t].amount = txn[t].amount
  <2>1. CASE UNCHANGED vars
    BY <2>1 DEF vars
  <2>2. CASE Next
    BY <1>1, <2>2, RowSteps DEF RowStep
  <2> QED
    BY <2>1, <2>2
<1>3. CASE \E s \in Sessions : ApplyBalance(s)
  <2>1. PICK s \in Sessions : ApplyBalance(s)
    BY <1>3
  <2>2. PICK t \in TxnIds \ applied : t = call[s].txn
    BY <2>1, ApplyPosts
  <2>3. /\ applied' = applied \cup {t}
        /\ balance' = [balance EXCEPT ![txn[t].user] = @ + txn[t].amount]
        /\ txn[t].user \in Users
    BY <2>1, <2>2, ApplyPosts
  <2>4. UNCHANGED txn
    BY <2>1 DEF ApplyBalance
  <2>5. ASSUME NEW u \in Users PROVE Agrees(txn', applied', u, balance'[u])
    <3>1. Agrees(txn, applied \cup {t}, u,
                 IF txn[t].user = u THEN balance[u] + txn[t].amount ELSE balance[u])
      BY <1>1, LedgerPost DEF Ledger
    <3>2. balance'[u] = IF txn[t].user = u THEN balance[u] + txn[t].amount ELSE balance[u]
      BY <1>1, <2>3
    <3> QED
      BY <2>3, <2>4, <3>1, <3>2
  <2> QED
    BY <2>5 DEF Ledger, Agrees, Posted, In, Out, Units
<1>4. CASE \A s \in Sessions : ~ApplyBalance(s)
  <2>1. UNCHANGED <<balance, applied>>
    BY <1>4
    DEF Next, Proceed, Begin, OpenWallet, EnsureWallet, LoadWallet, LogTransaction,
        ProviderAnswers, LockWallet, RefuseDebit, CompleteTransaction, MarkFailed,
        StatementFails, Crash, Webhook, tables, vars
  <2>2. ASSUME NEW u \in Users PROVE Agrees(txn', applied', u, balance'[u])
    <3>1. Agrees(txn', applied, u, balance[u])
      BY <1>1, <1>2, LedgerSame DEF Ledger
    <3> QED
      BY <2>1, <3>1
  <2> QED
    BY <2>2 DEF Ledger, Agrees, Posted, In, Out, Units
<1> QED
  BY <1>3, <1>4

LEMMA LedgerInit == Init => Ledger
<1> SUFFICES ASSUME Init, NEW u \in Users PROVE Agrees(txn, applied, u, balance[u])
  BY DEF Ledger
<1>1. Posted(txn, applied, u) = {} /\ balance[u] = 0
  BY DEF Init, Posted
<1>2. Units(In(txn), {}) = {} /\ Units(Out(txn), {}) = {}
  BY DEF Units
<1>3. IsFiniteSet({}) /\ Cardinality({}) = 0
  BY FS_EmptySet
<1> QED
  BY <1>1, <1>2, <1>3 DEF Agrees

\* A balance is at every instant the sum of the logged amounts that reached
\* it, however many requests race for the wallet and wherever they fail.
THEOREM LedgerBalances == Spec => []BalanceIsLedger
<1>1. Init => IInv /\ Ledger
  BY InitInv, LedgerInit
<1>2. IInv /\ Ledger /\ [Next]_vars => (IInv /\ Ledger)'
  BY StepInv, LedgerStep
<1>3. IInv /\ Ledger => BalanceIsLedger
  BY LedgerMeaning DEF IInv
<1> QED
  BY <1>1, <1>2, <1>3, PTL DEF Spec

-----------------------------------------------------------------------------
(* The live connection.                                                      *)

\* The connection c may still register.  Its heartbeat cannot have begun then.
AboutToRegister(c) ==
  \/ mailAt[Endpoint(c)] \in {"idle", "check", "register"}
  \/ mailAt[Endpoint(c)] \in {"disconnect", "unregister"} /\ frame[Endpoint(c)].back = "register"
\* Where the calls of an endpoint return to, and what it has of its socket.
EndpointOK(c) ==
  /\ mailAt[Endpoint(c)] \in {"disconnect", "unregister"}
       => frame[Endpoint(c)].back \in {"register", "queue", "ended"}
  /\ (\/ mailAt[Endpoint(c)] \in {"send", "write", "queue"}
      \/ mailAt[Endpoint(c)] \in {"disconnect", "unregister"} /\ frame[Endpoint(c)].back = "queue")
       => frame[Endpoint(c)].next \in {"flush", "listen"}
  /\ mailAt[Endpoint(c)] # "idle" => sock[c] # "new"
\* Where a heartbeat can be.  One that pings while its connection is
\* registered pings that connection, and disconnects it after it has closed.
BeatOK(c) ==
  /\ mailAt[Beat(c)] \in {"idle", "sleep", "ping", "disconnect", "unregister", "ended"}
  /\ mailAt[Beat(c)] \in {"disconnect", "unregister"} => frame[Beat(c)].back = "ended"
  /\ (mailAt[Beat(c)] # "idle" \/ registered = c \/ pulse = c) => ~AboutToRegister(c)
  /\ mailAt[Beat(c)] = "ping" /\ registered = c => frame[Beat(c)].ws = c
  /\ mailAt[Beat(c)] = "disconnect" /\ registered = c => sock[c] = "closed"
\* The heartbeat known for a registered connection is its own.
PulseOK == registered # Nobody => pulse \in {registered, Nobody}
MailInv == PulseOK /\ \A c \in Sockets : EndpointOK(c) /\ BeatOK(c)
MailIInv == MailTypeOK /\ MailInv /\ RegisteredIsWatched

LEMMA CoroutineFacts ==
  /\ \A c \in Sockets : /\ Endpoint(c) \in Coroutines /\ Endpoint(c)[1] = "endpoint" /\ Endpoint(c)[2] = c
                        /\ Beat(c) \in Coroutines /\ Beat(c)[1] = "beat" /\ Beat(c)[2] = c
  /\ \A n \in Notes : Delivery(n) \in Coroutines /\ Delivery(n)[1] = "delivery" /\ Delivery(n)[2] = n
  /\ \A t \in Coroutines : \/ t[1] = "endpoint" /\ t[2] \in Sockets /\ t = Endpoint(t[2])
                           \/ t[1] = "beat" /\ t[2] \in Sockets /\ t = Beat(t[2])
                           \/ t[1] = "delivery" /\ t[2] \in Notes /\ t = Delivery(t[2])
  BY DEF Coroutines, Endpoint, Beat, Delivery

LEMMA NobodyIsNone == Nobody \notin Sockets
  BY MailboxAssumption

LEMMA NoFrameIsFrame ==
  /\ NoFrame \in Frames /\ NoFrame.ws = Nobody /\ NoFrame.next = "idle" /\ NoFrame.back = "idle"
  /\ \A s \in MailSteps : /\ [NoFrame EXCEPT !.next = s] \in Frames /\ [NoFrame EXCEPT !.next = s].next = s
                          /\ [NoFrame EXCEPT !.back = s] \in Frames /\ [NoFrame EXCEPT !.back = s].back = s
  /\ \A n \in Nat : [NoFrame EXCEPT !.attempt = n] \in Frames
<1>1. /\ NoFrame \in Frames /\ NoFrame.ws = Nobody /\ NoFrame.next = "idle"
      /\ NoFrame.back = "idle"
  BY DEF NoFrame, Frames, MailSteps
<1>2. PICK g \in Frames : g = NoFrame
  BY <1>1
<1>3. ASSUME NEW s \in MailSteps
      PROVE  /\ [g EXCEPT !.next = s] \in Frames /\ [g EXCEPT !.next = s].next = s
             /\ [g EXCEPT !.back = s] \in Frames /\ [g EXCEPT !.back = s].back = s
  BY DEF Frames
<1>4. ASSUME NEW n \in Nat PROVE [g EXCEPT !.attempt = n] \in Frames
  BY DEF Frames
<1> QED BY <1>1, <1>2, <1>3, <1>4

\* The coroutine t alone moves, to step m with the frame f; of the frames of
\* the others, at most what they are flushing changes.
Moved(t, m, f) ==
  /\ mailAt' \in [Coroutines -> MailSteps] /\ frame' \in [Coroutines -> Frames]
  /\ mailAt'[t] = m /\ frame'[t] = f
  /\ \A u \in Coroutines : u # t =>
       /\ mailAt'[u] = mailAt[u] /\ frame'[u].ws = frame[u].ws
       /\ frame'[u].next = frame[u].next /\ frame'[u].back = frame[u].back

LEMMA MovedByItself ==
  ASSUME MailTypeOK, NEW t \in Coroutines, NEW m \in MailSteps, NEW f \in Frames,
         mailAt' = [mailAt EXCEPT ![t] = m], frame' = [frame EXCEPT ![t] = f]
  PROVE  Moved(t, m, f)
  BY Zenon DEF MailTypeOK, Moved

LEMMA MovedSameFrame ==
  ASSUME MailTypeOK, NEW t \in Coroutines, NEW m \in MailSteps,
         mailAt' = [mailAt EXCEPT ![t] = m], frame' = frame
  PROVE  Moved(t, m, frame[t])
  BY Zenon DEF MailTypeOK, Moved

LEMMA MailInitInv == MailInit => MailIInv
<1> SUFFICES ASSUME MailInit PROVE MailIInv
  OBVIOUS
<1>1. MailTypeOK
  BY MailboxAssumption, NoFrameIsFrame DEF MailInit, MailTypeOK, SocketState, MailSteps
<1>2. MailInv
  BY CoroutineFacts, NobodyIsNone DEF MailInit, MailInv, PulseOK, EndpointOK, BeatOK
<1>3. RegisteredIsWatched
  BY DEF MailInit, RegisteredIsWatched
<1> QED BY <1>1, <1>2, <1>3 DEF MailIInv

\* Sockets close, and open only under a connection that has just come.
SocksOK ==
  /\ sock' \in [Sockets -> SocketState]
  /\ \A c \in Sockets : /\ sock'[c] = "new" => sock[c] = "new"
                        /\ sock[c] = "closed" => sock'[c] = "closed" \/ mailAt[Endpoint(c)] = "idle"
\* What a step other than a registration may do to the tables.
TablesOK ==
  /\ SocksOK
  /\ registered' \in {registered, Nobody} /\ pulse' \in {pulse, Nobody}
  /\ queued' \in 0 .. MaxQueue /\ deadLetters' \subseteq Notes /\ running' \in Coroutines \cup {Nobody}

\* MailInv as it constrains an endpoint, and a heartbeat, at m with frame f.
EndpointAt(c, m, f) ==
  /\ m \in {"disconnect", "unregister"} => f.back \in {"register", "queue", "ended"}
  /\ (m \in {"send", "write", "queue"} \/ (m \in {"disconnect", "unregister"} /\ f.back = "queue"))
       => f.next \in {"flush", "listen"}
  /\ m # "idle" => sock'[c] # "new"
About(m, f) == m \in {"idle", "check", "register"} \/ (m \in {"disconnect", "unregister"} /\ f.back = "register")
BeatAt(c, m, f) ==
  /\ m \in {"idle", "sleep", "ping", "disconnect", "unregister", "ended"}
  /\ m \in {"disconnect", "unregister"} => f.back = "ended"
  /\ m = "ping" /\ registered = c => f.ws = c
  /\ m = "disconnect" /\ registered = c => sock'[c] = "closed"

LEMMA TypesKept ==
  ASSUME MailTypeOK, TablesOK, NEW t, NEW m, NEW f, Moved(t, m, f)
  PROVE  MailTypeOK'
  BY DEF MailTypeOK, TablesOK, SocksOK, Moved

LEMMA EndpointMoves ==
  ASSUME MailIInv, NEW c \in Sockets, NEW m, NEW f, Moved(Endpoint(c), m, f),
         TablesOK, EndpointAt(c, m, f), AboutToRegister(c) \/ ~About(m, f),
         mailAt[Endpoint(c)] = "unregister" => registered' = Nobody
  PROVE  MailIInv'
<1>m. /\ mailAt'[Endpoint(c)] = m /\ frame'[Endpoint(c)] = f
      /\ \A u \in Coroutines : u # Endpoint(c) =>
           /\ mailAt'[u] = mailAt[u] /\ frame'[u].ws = frame[u].ws
           /\ frame'[u].next = frame[u].next /\ frame'[u].back = frame[u].back
  BY DEF Moved
<1>1. ASSUME NEW d \in Sockets PROVE EndpointOK(d)'
  <2>1. CASE d = c
    BY <1>m, <2>1 DEF EndpointOK, EndpointAt
  <2>2. CASE d # c
    <3>1. /\ mailAt'[Endpoint(d)] = mailAt[Endpoint(d)]
          /\ frame'[Endpoint(d)].next = frame[Endpoint(d)].next
          /\ frame'[Endpoint(d)].back = frame[Endpoint(d)].back
      BY <1>m, <2>2, CoroutineFacts
    <3> QED BY <3>1, <2>2 DEF EndpointOK, MailIInv, MailInv, TablesOK, SocksOK
  <2> QED BY <2>1, <2>2
<1>2. ASSUME NEW d \in Sockets PROVE BeatOK(d)'
  <2>0. /\ mailAt'[Beat(d)] = mailAt[Beat(d)] /\ frame'[Beat(d)].ws = frame[Beat(d)].ws
        /\ frame'[Beat(d)].back = frame[Beat(d)].back
    BY <1>m, CoroutineFacts
  <2>1. AboutToRegister(d)' => AboutToRegister(d)
    <3>1. CASE d = c
      BY <1>m, <3>1 DEF AboutToRegister, About
    <3>2. CASE d # c
      <4>1. mailAt'[Endpoint(d)] = mailAt[Endpoint(d)] /\ frame'[Endpoint(d)].back = frame[Endpoint(d)].back
        BY <1>m, <3>2, CoroutineFacts
      <4> QED BY <4>1 DEF AboutToRegister
    <3> QED BY <3>1, <3>2
  <2>2. mailAt[Endpoint(d)] = "idle" => AboutToRegister(d)
    BY DEF AboutToRegister
  <2> QED BY <2>0, <2>1, <2>2, NobodyIsNone DEF BeatOK, MailIInv, MailInv, TablesOK, SocksOK
<1>3. PulseOK'
  BY DEF PulseOK, MailIInv, MailInv, TablesOK
<1>4. RegisteredIsWatched'
  BY <1>m, CoroutineFacts DEF RegisteredIsWatched, MailIInv, TablesOK
<1>5. MailTypeOK'
  BY TypesKept DEF MailIInv
<1> QED BY <1>1, <1>2, <1>3, <1>4, <1>5 DEF MailInv, MailIInv

\* Endpoints that stay where they are still cannot register.
LEMMA EndpointsStay ==
  ASSUME MailIInv, TablesOK,
         \A d \in Sockets : /\ mailAt'[Endpoint(d)] = mailAt[Endpoint(d)]
                            /\ frame'[Endpoint(d)].next = frame[Endpoint(d)].next
                            /\ frame'[Endpoint(d)].back = frame[Endpoint(d)].back
  PROVE  /\ PulseOK'
         /\ \A d \in Sockets : EndpointOK(d)' /\ (AboutToRegister(d)' <=> AboutToRegister(d))
  BY DEF EndpointOK, AboutToRegister, PulseOK, MailIInv, MailInv, TablesOK, SocksOK

LEMMA BeatMoves ==
  ASSUME MailIInv, NEW c \in Sockets, NEW m, NEW f, Moved(Beat(c), m, f),
         TablesOK, BeatAt(c, m, f), mailAt[Beat(c)] # "idle",
         registered' # Nobody => m \in {"sleep", "ping", "disconnect", "unregister", mailAt[Beat(c)]}
  PROVE  MailIInv'
<1>m. /\ mailAt'[Beat(c)] = m /\ frame'[Beat(c)] = f
      /\ \A u \in Coroutines : u # Beat(c) =>
           /\ mailAt'[u] = mailAt[u] /\ frame'[u].ws = frame[u].ws
           /\ frame'[u].next = frame[u].next /\ frame'[u].back = frame[u].back
  BY DEF Moved
<1>1. /\ PulseOK'
      /\ \A d \in Sockets : EndpointOK(d)' /\ (AboutToRegister(d)' <=> AboutToRegister(d))
  BY <1>m, EndpointsStay, CoroutineFacts
<1>2. ASSUME NEW d \in Sockets PROVE BeatOK(d)'
  <2>1. CASE d = c
    BY <1>m, <1>1, <2>1, NobodyIsNone DEF BeatOK, BeatAt, MailIInv, MailInv, TablesOK
  <2>2. CASE d # c
    <3>1. /\ mailAt'[Beat(d)] = mailAt[Beat(d)] /\ frame'[Beat(d)].ws = frame[Beat(d)].ws
          /\ frame'[Beat(d)].back = frame[Beat(d)].back
      BY <1>m, <2>2, CoroutineFacts
    <3>2. mailAt[Endpoint(d)] = "idle" => AboutToRegister(d)
      BY DEF AboutToRegister
    <3> QED BY <1>1, <3>1, <3>2, <2>2, NobodyIsNone DEF BeatOK, MailIInv, MailInv, TablesOK, SocksOK
  <2> QED BY <2>1, <2>2
<1>3. RegisteredIsWatched'
  BY <1>m, CoroutineFacts DEF RegisteredIsWatched, MailIInv, TablesOK
<1>4. MailTypeOK'
  BY TypesKept DEF MailIInv
<1> QED BY <1>1, <1>2, <1>3, <1>4 DEF MailInv, MailIInv

LEMMA DeliveryMoves ==
  ASSUME MailIInv, NEW n \in Notes, NEW m, NEW f, Moved(Delivery(n), m, f), TablesOK,
         mailAt[Delivery(n)] = "unregister" => registered' = Nobody
  PROVE  MailIInv'
<1>m. \A u \in Coroutines : u # Delivery(n) =>
           /\ mailAt'[u] = mailAt[u] /\ frame'[u].ws = frame[u].ws
           /\ frame'[u].next = frame[u].next /\ frame'[u].back = frame[u].back
  BY DEF Moved
<1>1. /\ PulseOK'
      /\ \A d \in Sockets : EndpointOK(d)' /\ (AboutToRegister(d)' <=> AboutToRegister(d))
  BY <1>m, EndpointsStay, CoroutineFacts
<1>2. ASSUME NEW d \in Sockets PROVE BeatOK(d)'
    <3>1. /\ mailAt'[Beat(d)] = mailAt[Beat(d)] /\ frame'[Beat(d)].ws = frame[Beat(d)].ws
          /\ frame'[Beat(d)].back = frame[Beat(d)].back
      BY <1>m, CoroutineFacts
    <3>2. mailAt[Endpoint(d)] = "idle" => AboutToRegister(d)
      BY DEF AboutToRegister
    <3> QED BY <1>1, <3>1, <3>2, NobodyIsNone DEF BeatOK, MailIInv, MailInv, TablesOK, SocksOK
<1>3. RegisteredIsWatched'
  BY <1>m, CoroutineFacts DEF RegisteredIsWatched, MailIInv, TablesOK
<1>4. MailTypeOK'
  BY TypesKept DEF MailIInv
<1> QED BY <1>1, <1>2, <1>3, <1>4 DEF MailInv, MailIInv

\* What is to be shown of a step of a coroutine that moves it alone.
LEMMA AnyMoves ==
  ASSUME MailIInv, NEW t \in Coroutines, NEW m, NEW f, Moved(t, m, f), TablesOK,
         mailAt[t] = "unregister" => registered' = Nobody,
         t[1] = "endpoint" => EndpointAt(t[2], m, f) /\ (AboutToRegister(t[2]) \/ ~About(m, f)),
         t[1] = "beat" => /\ BeatAt(t[2], m, f) /\ mailAt[t] # "idle"
                          /\ registered' # Nobody => m \in {"sleep", "ping", "disconnect", "unregister", mailAt[t]}
  PROVE  MailIInv'
<1>1. CASE t[1] = "endpoint"
  <2>1. t[2] \in Sockets /\ t = Endpoint(t[2])
    BY <1>1, CoroutineFacts
  <2> QED BY <1>1, <2>1, EndpointMoves
<1>2. CASE t[1] = "beat"
  <2>1. t[2] \in Sockets /\ t = Beat(t[2])
    BY <1>2, CoroutineFacts
  <2> QED BY <1>2, <2>1, BeatMoves
<1>3. CASE t[1] = "delivery"
  <2>1. t[2] \in Notes /\ t = Delivery(t[2])
    BY <1>3, CoroutineFacts
  <2> QED BY <1>3, <2>1, DeliveryMoves
<1> QED BY <1>1, <1>2, <1>3, CoroutineFacts

\* The invariant of one coroutine.
LEMMA OwnFacts ==
  ASSUME MailIInv, NEW t \in Coroutines
  PROVE  /\ mailAt[t] \in MailSteps /\ frame[t] \in Frames
         /\ frame[t].ws \in Sockets \cup {Nobody} /\ frame[t].next \in MailSteps
         /\ frame[t].back \in MailSteps /\ frame[t].kept \in Nat
         /\ t[1] = "endpoint" => /\ t[2] \in Sockets /\ t = Endpoint(t[2])
                                 /\ EndpointOK(t[2]) /\ BeatOK(t[2])
         /\ t[1] = "beat" => /\ t[2] \in Sockets /\ t = Beat(t[2])
                             /\ EndpointOK(t[2]) /\ BeatOK(t[2])
         /\ t[1] = "delivery" => t[2] \in Notes /\ t = Delivery(t[2])
<1>1. mailAt[t] \in MailSteps /\ frame[t] \in Frames
  BY Zenon DEF MailIInv, MailTypeOK
<1>2. /\ frame[t].ws \in Sockets \cup {Nobody} /\ frame[t].next \in MailSteps
      /\ frame[t].back \in MailSteps /\ frame[t].kept \in Nat
  BY <1>1 DEF Frames
<1> QED BY <1>1, <1>2, CoroutineFacts DEF MailIInv, MailInv

LEMMA SendStep ==
  ASSUME MailIInv, NEW t \in Coroutines, Send(t)
  PROVE  MailIInv'
<1>0. PICK m, f : m = mailAt'[t] /\ f = frame'[t]
  OBVIOUS
<1>1. TablesOK
  BY DEF Send, MailIInv, MailTypeOK, TablesOK, SocksOK, GoOn, Await
<1>2. Moved(t, m, f) /\ m \in {"queue", "write"} /\ f.next = frame[t].next
  BY <1>0, OwnFacts DEF Send, MailIInv, MailTypeOK, Moved, GoOn, Await, Frames, MailSteps
<1>3. t[1] # "beat"
  BY OwnFacts DEF Send, At, BeatOK
<1> QED BY <1>1, <1>2, <1>3, OwnFacts, AnyMoves
        DEF Send, At, EndpointAt, EndpointOK, About, SocksOK, TablesOK

LEMMA WriteStep ==
  ASSUME MailIInv, NEW t \in Coroutines, Write(t)
  PROVE  MailIInv'
<1>0. PICK m, f : m = mailAt'[t] /\ f = frame'[t]
  OBVIOUS
<1>a. /\ mailAt[t] \in MailSteps /\ frame[t] \in Frames
      /\ frame[t].ws \in Sockets \cup {Nobody} /\ frame[t].next \in MailSteps
      /\ frame[t].back \in MailSteps
      /\ t[1] = "endpoint" => t[2] \in Sockets
  BY OwnFacts
<1>b. mailAt \in [Coroutines -> MailSteps] /\ frame \in [Coroutines -> Frames] /\ sock \in [Sockets -> SocketState]
  BY DEF MailIInv, MailTypeOK
<1>1. TablesOK
  BY OwnFacts DEF Write, MailIInv, MailTypeOK, TablesOK, SocksOK, GoOn, Await, SocketState
<1>2. /\ Moved(t, m, f) /\ f.next = frame[t].next
      /\ (m = "disconnect" /\ f.back = "queue") \/ m = frame[t].next
  <2>1. CASE sock[frame[t].ws] = "dropped"
    <3>1. mailAt' = [mailAt EXCEPT ![t] = "disconnect"]
      BY <2>1 DEF Write, GoOn
    <3>2. frame' = [frame EXCEPT ![t].back = "queue", ![t].ws = Nobody]
      BY <2>1 DEF Write
    <3>3. /\ frame' \in [Coroutines -> Frames] /\ f.next = frame[t].next /\ f.back = "queue"
          /\ \A u \in Coroutines : u # t => frame'[u] = frame[u]
      BY <1>0, <1>a, <1>b, <3>2 DEF Frames, MailSteps
    <3> QED BY <1>0, <1>a, <1>b, <3>1, <3>3 DEF Moved, MailSteps
  <2>2. CASE sock[frame[t].ws] # "dropped"
    <3>1. mailAt' = [mailAt EXCEPT ![t] = frame[t].next]
      BY <2>2 DEF Write, GoOn
    <3>2. PICK o \in BOOLEAN : frame' = [frame EXCEPT ![t].ok = o, ![t].ws = Nobody]
      <4>1. frame' = [frame EXCEPT ![t].ok = (sock[frame[t].ws] = "open" /\ registered # Nobody),
                                   ![t].ws = Nobody]
        BY <2>2 DEF Write
      <4> QED BY <4>1
    <3>3. /\ frame' \in [Coroutines -> Frames] /\ f.next = frame[t].next
          /\ \A u \in Coroutines : u # t => frame'[u] = frame[u]
      BY <1>0, <1>a, <1>b, <3>2 DEF Frames
    <3> QED BY <1>0, <1>a, <1>b, <3>1, <3>3 DEF Moved
  <2> QED BY <2>1, <2>2
<1>3. t[1] # "beat"
  BY OwnFacts DEF Write, At, BeatOK
<1> QED BY <1>1, <1>2, <1>3, OwnFacts, AnyMoves
        DEF Write, At, EndpointAt, EndpointOK, About, SocksOK, TablesOK

LEMMA QueueStep ==
  ASSUME MailIInv, NEW t \in Coroutines, Queue(t)
  PROVE  MailIInv'
<1>0. PICK m, f : m = mailAt'[t] /\ f = frame'[t]
  OBVIOUS
<1>a. /\ mailAt[t] \in MailSteps /\ frame[t] \in Frames
      /\ frame[t].ws \in Sockets \cup {Nobody} /\ frame[t].next \in MailSteps
      /\ frame[t].back \in MailSteps
      /\ t[1] = "endpoint" => t[2] \in Sockets
  BY OwnFacts
<1>b. mailAt \in [Coroutines -> MailSteps] /\ frame \in [Coroutines -> Frames] /\ sock \in [Sockets -> SocketState]
  BY DEF MailIInv, MailTypeOK
<1>1. TablesOK
  BY MailboxAssumption DEF Queue, MailIInv, MailTypeOK, TablesOK, SocksOK, GoOn, Await, SocketState
<1>2. Moved(t, m, f) /\ f.next = frame[t].next /\ m = frame[t].next
  BY <1>0, <1>a, <1>b DEF Queue, Moved, GoOn, Await, Frames, MailSteps
<1>3. t[1] # "beat"
  BY OwnFacts DEF Queue, At, BeatOK
<1> QED BY <1>1, <1>2, <1>3, OwnFacts, AnyMoves
        DEF Queue, At, EndpointAt, EndpointOK, About, SocksOK, TablesOK

LEMMA UnregisterStep ==
  ASSUME MailIInv, NEW t \in Coroutines, Unregister(t)
  PROVE  MailIInv'
<1>0. PICK m, f : m = mailAt'[t] /\ f = frame'[t]
  OBVIOUS
<1>a. /\ mailAt[t] \in MailSteps /\ frame[t] \in Frames
      /\ frame[t].ws \in Sockets \cup {Nobody} /\ frame[t].next \in MailSteps
      /\ frame[t].back \in MailSteps
      /\ t[1] = "endpoint" => t[2] \in Sockets
  BY OwnFacts
<1>b. mailAt \in [Coroutines -> MailSteps] /\ frame \in [Coroutines -> Frames] /\ sock \in [Sockets -> SocketState]
  BY DEF MailIInv, MailTypeOK
<1>1. TablesOK /\ registered' = Nobody
  BY OwnFacts DEF Unregister, MailIInv, MailTypeOK, TablesOK, SocksOK, GoOn, Await, Finish, SocketState
<1>2. /\ Moved(t, m, f)
      /\ \/ m = frame[t].back /\ f = frame[t]
         \/ m = "ended" \/ (m = "fcm" /\ t[1] = "delivery")
  <2>1. CASE registered # Nobody
    <3>1. mailAt' = [mailAt EXCEPT ![t] = frame[t].back] /\ frame' = frame
      BY <2>1 DEF Unregister, GoOn
    <3> QED BY <1>0, <1>a, <1>b, <3>1 DEF Moved
  <2>2. CASE registered = Nobody /\ t[1] = "delivery"
    <3>1. mailAt' = [mailAt EXCEPT ![t] = "fcm"] /\ frame' = frame
      BY <2>2 DEF Unregister, GoOn
    <3> QED BY <1>0, <1>a, <1>b, <2>2, <3>1 DEF Moved, MailSteps
  <2>3. CASE registered = Nobody /\ t[1] # "delivery"
    <3>1. mailAt' = [mailAt EXCEPT ![t] = "ended"] /\ frame' = [frame EXCEPT ![t] = NoFrame]
      BY <2>3 DEF Unregister, Finish, Await
    <3> QED BY <1>0, <1>a, <1>b, <3>1, NoFrameIsFrame DEF Moved, MailSteps
  <2> QED BY <2>1, <2>2, <2>3
<1> QED BY <1>1, <1>2, OwnFacts, AnyMoves
        DEF Unregister, At, EndpointAt, EndpointOK, BeatAt, BeatOK, About, AboutToRegister, SocksOK, TablesOK

LEMMA DepartStep ==
  ASSUME MailIInv, NEW t \in Coroutines, Depart(t)
  PROVE  MailIInv'
<1>0. PICK m, f : m = mailAt'[t] /\ f = frame'[t]
  OBVIOUS
<1>a. /\ mailAt[t] \in MailSteps /\ frame[t] \in Frames
      /\ frame[t].ws \in Sockets \cup {Nobody} /\ frame[t].next \in MailSteps
      /\ frame[t].back \in MailSteps
      /\ t[1] = "endpoint" => t[2] \in Sockets
  BY OwnFacts
<1>b. mailAt \in [Coroutines -> MailSteps] /\ frame \in [Coroutines -> Frames] /\ sock \in [Sockets -> SocketState]
  BY DEF MailIInv, MailTypeOK
<1>1. TablesOK
  BY <1>a, <1>b DEF Depart, MailIInv, MailTypeOK, TablesOK, SocksOK, Await, SocketState
<1>2. Moved(t, m, f) /\ m = mailAt[t] /\ m \in {"ended", "listen"}
  BY <1>0, <1>a, <1>b, NoFrameIsFrame DEF Depart, Moved, Await
<1>3. t[1] = "beat" => m = "ended"
  BY <1>2, OwnFacts DEF BeatOK
<1> QED BY <1>1, <1>2, <1>3, OwnFacts, AnyMoves
        DEF Depart, EndpointAt, EndpointOK, BeatAt, BeatOK, About, SocksOK, TablesOK
LEMMA ArriveStep ==
  ASSUME MailIInv, NEW c \in Sockets, Arrive(c)
  PROVE  MailIInv'
<1>t. PICK t \in Coroutines : t = Endpoint(c) /\ t[1] = "endpoint" /\ t[2] = c
  BY CoroutineFacts
<1>a. /\ mailAt[t] \in MailSteps /\ frame[t] \in Frames
      /\ frame[t].ws \in Sockets \cup {Nobody} /\ frame[t].next \in MailSteps
      /\ frame[t].back \in MailSteps /\ frame[t].attempt \in Nat
  BY OwnFacts DEF Frames
<1>b. /\ mailAt \in [Coroutines -> MailSteps] /\ frame \in [Coroutines -> Frames]
      /\ sock \in [Sockets -> SocketState] /\ registered \in Sockets \cup {Nobody}
  BY DEF MailIInv, MailTypeOK
<1>0. PICK m, f : m = mailAt'[t] /\ f = frame'[t]
  OBVIOUS
<1>1. TablesOK
  BY <1>t, <1>a, <1>b DEF Arrive, MailIInv, MailTypeOK, TablesOK, SocksOK, GoOn, Await, Finish, SocketState, At
<1>2. Moved(t, m, f) /\ m = "check" /\ mailAt[t] = "idle"
  <2>1. mailAt' = [mailAt EXCEPT ![t] = "check"]
    BY <1>t DEF Arrive, GoOn, Await, Finish
  <2>2. frame' = frame
    BY <1>t DEF Arrive, GoOn, Await, Finish
  <2>3. /\ frame' \in [Coroutines -> Frames]
     /\ \A u \in Coroutines : u # t => frame'[u] = frame[u]
    BY <1>0, <1>a, <1>b, <2>2 DEF Frames, MailSteps
  <2> QED BY <1>t, <1>0, <1>a, <1>b, <2>1, <2>3 DEF Moved, MailSteps, Arrive, At
<1> QED BY <1>t, <1>1, <1>2, OwnFacts, AnyMoves
        DEF Arrive, At, EndpointAt, EndpointOK, BeatAt, BeatOK, About, AboutToRegister, SocksOK, TablesOK

LEMMA CheckStep ==
  ASSUME MailIInv, NEW c \in Sockets, Check(c)
  PROVE  MailIInv'
<1>t. PICK t \in Coroutines : t = Endpoint(c) /\ t[1] = "endpoint" /\ t[2] = c
  BY CoroutineFacts
<1>a. /\ mailAt[t] \in MailSteps /\ frame[t] \in Frames
      /\ frame[t].ws \in Sockets \cup {Nobody} /\ frame[t].next \in MailSteps
      /\ frame[t].back \in MailSteps /\ frame[t].attempt \in Nat
  BY OwnFacts DEF Frames
<1>b. /\ mailAt \in [Coroutines -> MailSteps] /\ frame \in [Coroutines -> Frames]
      /\ sock \in [Sockets -> SocketState] /\ registered \in Sockets \cup {Nobody}
  BY DEF MailIInv, MailTypeOK
<1>0. PICK m, f : m = mailAt'[t] /\ f = frame'[t]
  OBVIOUS
<1>1. TablesOK
  BY <1>t, <1>a, <1>b DEF Check, MailIInv, MailTypeOK, TablesOK, SocksOK, GoOn, Await, Finish, SocketState, At
<1>2. Moved(t, m, f) /\ (m = "register" \/ (m = "disconnect" /\ f.back = "register"))
  <2>1. CASE registered = Nobody
    <3>1. mailAt' = [mailAt EXCEPT ![t] = "register"]
      BY <1>t, <2>1 DEF Check, GoOn, Await, Finish
    <3>2. frame' = frame
      BY <1>t, <2>1 DEF Check, GoOn, Await, Finish
    <3>3. /\ frame' \in [Coroutines -> Frames]
       /\ \A u \in Coroutines : u # t => frame'[u] = frame[u]
      BY <1>0, <1>a, <1>b, <3>2 DEF Frames, MailSteps
    <3> QED BY <1>t, <2>1, <1>0, <1>a, <1>b, <3>1, <3>3 DEF Moved, MailSteps, Check, At
  <2>2. CASE registered # Nobody
    <3>1. mailAt' = [mailAt EXCEPT ![t] = "disconnect"]
      BY <1>t, <2>2 DEF Check, GoOn, Await, Finish
    <3>2. frame' = [frame EXCEPT ![t].back = "register"]
      BY <1>t, <2>2 DEF Check, GoOn, Await, Finish
    <3>3. /\ frame' \in [Coroutines -> Frames] /\ f.back = "register"
       /\ \A u \in Coroutines : u # t => frame'[u] = frame[u]
      BY <1>0, <1>a, <1>b, <3>2 DEF Frames, MailSteps
    <3> QED BY <1>t, <2>2, <1>0, <1>a, <1>b, <3>1, <3>3 DEF Moved, MailSteps, Check, At
  <2> QED BY <2>1, <2>2
<1> QED BY <1>t, <1>1, <1>2, OwnFacts, AnyMoves
        DEF Check, At, EndpointAt, EndpointOK, BeatAt, BeatOK, About, AboutToRegister, SocksOK, TablesOK

LEMMA FlushStep ==
  ASSUME MailIInv, NEW c \in Sockets, Flush(c)
  PROVE  MailIInv'
<1>t. PICK t \in Coroutines : t = Endpoint(c) /\ t[1] = "endpoint" /\ t[2] = c
  BY CoroutineFacts
<1>a. /\ mailAt[t] \in MailSteps /\ frame[t] \in Frames
      /\ frame[t].ws \in Sockets \cup {Nobody} /\ frame[t].next \in MailSteps
      /\ frame[t].back \in MailSteps /\ frame[t].attempt \in Nat
  BY OwnFacts DEF Frames
<1>b. /\ mailAt \in [Coroutines -> MailSteps] /\ frame \in [Coroutines -> Frames]
      /\ sock \in [Sockets -> SocketState] /\ registered \in Sockets \cup {Nobody}
  BY DEF MailIInv, MailTypeOK
<1>0. PICK m, f : m = mailAt'[t] /\ f = frame'[t]
  OBVIOUS
<1>1. TablesOK
  BY <1>t, <1>a, <1>b DEF Flush, MailIInv, MailTypeOK, TablesOK, SocksOK, GoOn, Await, Finish, SocketState, At
<1>2. Moved(t, m, f) /\ (m = "drop" \/ (m = "send" /\ f.next = "flush"))
  <2>1. CASE frame[t].i <= (IF frame[t].kept > 0 THEN frame[t].kept ELSE queued)
    <3>1. mailAt' = [mailAt EXCEPT ![t] = "send"]
      BY <1>t, <2>1 DEF Flush, GoOn, Await, Finish
    <3>2. frame' = [frame EXCEPT ![t].next = "flush", ![t].i = @ + 1]
      BY <1>t, <2>1 DEF Flush, GoOn, Await, Finish
    <3>3. /\ frame' \in [Coroutines -> Frames] /\ f.next = "flush"
       /\ \A u \in Coroutines : u # t => frame'[u] = frame[u]
      BY <1>0, <1>a, <1>b, <3>2 DEF Frames, MailSteps
    <3> QED BY <1>t, <2>1, <1>0, <1>a, <1>b, <3>1, <3>3 DEF Moved, MailSteps, Flush, At
  <2>2. CASE ~(frame[t].i <= (IF frame[t].kept > 0 THEN frame[t].kept ELSE queued))
    <3>1. mailAt' = [mailAt EXCEPT ![t] = "drop"]
      BY <1>t, <2>2 DEF Flush, GoOn, Await, Finish
    <3>2. frame' = frame
      BY <1>t, <2>2 DEF Flush, GoOn, Await, Finish
    <3>3. /\ frame' \in [Coroutines -> Frames]
       /\ \A u \in Coroutines : u # t => frame'[u] = frame[u]
      BY <1>0, <1>a, <1>b, <3>2 DEF Frames, MailSteps
    <3> QED BY <1>t, <2>2, <1>0, <1>a, <1>b, <3>1, <3>3 DEF Moved, MailSteps, Flush, At
  <2> QED BY <2>1, <2>2
<1> QED BY <1>t, <1>1, <1>2, OwnFacts, AnyMoves
        DEF Flush, At, EndpointAt, EndpointOK, BeatAt, BeatOK, About, AboutToRegister, SocksOK, TablesOK

LEMMA ConfirmStep ==
  ASSUME MailIInv, NEW c \in Sockets, Confirm(c)
  PROVE  MailIInv'
<1>t. PICK t \in Coroutines : t = Endpoint(c) /\ t[1] = "endpoint" /\ t[2] = c
  BY CoroutineFacts
<1>a. /\ mailAt[t] \in MailSteps /\ frame[t] \in Frames
      /\ frame[t].ws \in Sockets \cup {Nobody} /\ frame[t].next \in MailSteps
      /\ frame[t].back \in MailSteps /\ frame[t].attempt \in Nat
  BY OwnFacts DEF Frames
<1>b. /\ mailAt \in [Coroutines -> MailSteps] /\ frame \in [Coroutines -> Frames]
      /\ sock \in [Sockets -> SocketState] /\ registered \in Sockets \cup {Nobody}
  BY DEF MailIInv, MailTypeOK
<1>0. PICK m, f : m = mailAt'[t] /\ f = frame'[t]
  OBVIOUS
<1>1. TablesOK
  BY <1>t, <1>a, <1>b DEF Confirm, MailIInv, MailTypeOK, TablesOK, SocksOK, GoOn, Await, Finish, SocketState, At
<1>2. Moved(t, m, f) /\ m = "send" /\ f.next = "listen"
  <2>1. mailAt' = [mailAt EXCEPT ![t] = "send"]
    BY <1>t DEF Confirm, GoOn, Await, Finish
  <2>2. frame' = [frame EXCEPT ![t] = [NoFrame EXCEPT !.next = "listen"]]
    BY <1>t DEF Confirm, GoOn, Await, Finish
  <2>3. /\ frame' \in [Coroutines -> Frames] /\ f.next = "listen"
     /\ \A u \in Coroutines : u # t => frame'[u] = frame[u]
    BY <1>0, <1>a, <1>b, <2>2, NoFrameIsFrame DEF Frames, MailSteps
  <2> QED BY <1>t, <1>0, <1>a, <1>b, <2>1, <2>3 DEF Moved, MailSteps, Confirm, At
<1> QED BY <1>t, <1>1, <1>2, OwnFacts, AnyMoves
        DEF Confirm, At, EndpointAt, EndpointOK, BeatAt, BeatOK, About, AboutToRegister, SocksOK, TablesOK

LEMMA LeaveStep ==
  ASSUME MailIInv, NEW c \in Sockets, Leave(c)
  PROVE  MailIInv'
<1>t. PICK t \in Coroutines : t = Endpoint(c) /\ t[1] = "endpoint" /\ t[2] = c
  BY CoroutineFacts
<1>a. /\ mailAt[t] \in MailSteps /\ frame[t] \in Frames
      /\ frame[t].ws \in Sockets \cup {Nobody} /\ frame[t].next \in MailSteps
      /\ frame[t].back \in MailSteps /\ frame[t].attempt \in Nat
  BY OwnFacts DEF Frames
<1>b. /\ mailAt \in [Coroutines -> MailSteps] /\ frame \in [Coroutines -> Frames]
      /\ sock \in [Sockets -> SocketState] /\ registered \in Sockets \cup {Nobody}
  BY DEF MailIInv, MailTypeOK
<1>0. PICK m, f : m = mailAt'[t] /\ f = frame'[t]
  OBVIOUS
<1>1. TablesOK
  BY <1>t, <1>a, <1>b DEF Leave, MailIInv, MailTypeOK, TablesOK, SocksOK, GoOn, Await, Finish, SocketState, At
<1>2. Moved(t, m, f) /\ m = "disconnect" /\ f.back = "ended"
  <2>1. mailAt' = [mailAt EXCEPT ![t] = "disconnect"]
    BY <1>t DEF Leave, GoOn, Await, Finish
  <2>2. frame' = [frame EXCEPT ![t].back = "ended"]
    BY <1>t DEF Leave, GoOn, Await, Finish
  <2>3. /\ frame' \in [Coroutines -> Frames] /\ f.back = "ended"
     /\ \A u \in Coroutines : u # t => frame'[u] = frame[u]
    BY <1>0, <1>a, <1>b, <2>2 DEF Frames, MailSteps
  <2> QED BY <1>t, <1>0, <1>a, <1>b, <2>1, <2>3 DEF Moved, MailSteps, Leave, At
<1> QED BY <1>t, <1>1, <1>2, OwnFacts, AnyMoves
        DEF Leave, At, EndpointAt, EndpointOK, BeatAt, BeatOK, About, AboutToRegister, SocksOK, TablesOK

LEMMA WakeUpStep ==
  ASSUME MailIInv, NEW c \in Sockets, WakeUp(c)
  PROVE  MailIInv'
<1>t. PICK t \in Coroutines : t = Beat(c) /\ t[1] = "beat" /\ t[2] = c
  BY CoroutineFacts
<1>a. /\ mailAt[t] \in MailSteps /\ frame[t] \in Frames
      /\ frame[t].ws \in Sockets \cup {Nobody} /\ frame[t].next \in MailSteps
      /\ frame[t].back \in MailSteps /\ frame[t].attempt \in Nat
  BY OwnFacts DEF Frames
<1>b. /\ mailAt \in [Coroutines -> MailSteps] /\ frame \in [Coroutines -> Frames]
      /\ sock \in [Sockets -> SocketState] /\ registered \in Sockets \cup {Nobody}
  BY DEF MailIInv, MailTypeOK
<1>0. PICK m, f : m = mailAt'[t] /\ f = frame'[t]
  OBVIOUS
<1>1. TablesOK
  BY <1>t, <1>a, <1>b DEF WakeUp, MailIInv, MailTypeOK, TablesOK, SocksOK, GoOn, Await, Finish, SocketState, At
<1>2. Moved(t, m, f) /\ ((m = "ended" /\ registered = Nobody) \/ (m = "ping" /\ f.ws = registered))
  <2>1. CASE registered = Nobody
    <3>1. mailAt' = [mailAt EXCEPT ![t] = "ended"]
      BY <1>t, <2>1 DEF WakeUp, GoOn, Await, Finish
    <3>2. frame' = [frame EXCEPT ![t] = NoFrame]
      BY <1>t, <2>1 DEF WakeUp, GoOn, Await, Finish
    <3>3. /\ frame' \in [Coroutines -> Frames]
       /\ \A u \in Coroutines : u # t => frame'[u] = frame[u]
      BY <1>0, <1>a, <1>b, <3>2, NoFrameIsFrame DEF Frames, MailSteps
    <3> QED BY <1>t, <2>1, <1>0, <1>a, <1>b, <3>1, <3>3 DEF Moved, MailSteps, WakeUp, At
  <2>2. CASE registered # Nobody
    <3>1. mailAt' = [mailAt EXCEPT ![t] = "ping"]
      BY <1>t, <2>2 DEF WakeUp, GoOn, Await, Finish
    <3>2. frame' = [frame EXCEPT ![t].ws = registered]
      BY <1>t, <2>2 DEF WakeUp, GoOn, Await, Finish
    <3>3. /\ frame' \in [Coroutines -> Frames] /\ f.ws = registered
       /\ \A u \in Coroutines : u # t => frame'[u] = frame[u]
      BY <1>0, <1>a, <1>b, <3>2 DEF Frames, MailSteps
    <3> QED BY <1>t, <2>2, <1>0, <1>a, <1>b, <3>1, <3>3 DEF Moved, MailSteps, WakeUp, At
  <2> QED BY <2>1, <2>2
<1> QED BY <1>t, <1>1, <1>2, OwnFacts, AnyMoves
        DEF WakeUp, At, EndpointAt, EndpointOK, BeatAt, BeatOK, About, AboutToRegister, SocksOK, TablesOK

LEMMA PingStep ==
  ASSUME MailIInv, NEW c \in Sockets, Ping(c)
  PROVE  MailIInv'
<1>t. PICK t \in Coroutines : t = Beat(c) /\ t[1] = "beat" /\ t[2] = c
  BY CoroutineFacts
<1>a. /\ mailAt[t] \in MailSteps /\ frame[t] \in Frames
      /\ frame[t].ws \in Sockets \cup {Nobody} /\ frame[t].next \in MailSteps
      /\ frame[t].back \in MailSteps /\ frame[t].attempt \in Nat
  BY OwnFacts DEF Frames
<1>b. /\ mailAt \in [Coroutines -> MailSteps] /\ frame \in [Coroutines -> Frames]
      /\ sock \in [Sockets -> SocketState] /\ registered \in Sockets \cup {Nobody}
  BY DEF MailIInv, MailTypeOK
<1>0. PICK m, f : m = mailAt'[t] /\ f = frame'[t]
  OBVIOUS
<1>1. TablesOK
  BY <1>t, <1>a, <1>b DEF Ping, MailIInv, MailTypeOK, TablesOK, SocksOK, GoOn, Await, Finish, SocketState, At
<1>2. Moved(t, m, f) /\ (m = "sleep" \/ (m = "disconnect" /\ f.back = "ended"))
      /\ (m = "disconnect" /\ frame[t].ws = registered /\ registered # Nobody => sock[registered] # "open")
  <2>1. CASE sock[frame[t].ws] = "open" /\ registered # Nobody
    <3>1. mailAt' = [mailAt EXCEPT ![t] = "sleep"]
      BY <1>t, <2>1 DEF Ping, GoOn, Await, Finish
    <3>2. frame' = [frame EXCEPT ![t] = NoFrame]
      BY <1>t, <2>1 DEF Ping, GoOn, Await, Finish
    <3>3. /\ frame' \in [Coroutines -> Frames]
       /\ \A u \in Coroutines : u # t => frame'[u] = frame[u]
      BY <1>0, <1>a, <1>b, <3>2, NoFrameIsFrame DEF Frames, MailSteps
    <3> QED BY <1>t, <2>1, <1>0, <1>a, <1>b, <3>1, <3>3 DEF Moved, MailSteps, Ping, At
  <2>2. CASE ~(sock[frame[t].ws] = "open" /\ registered # Nobody)
    <3>1. mailAt' = [mailAt EXCEPT ![t] = "disconnect"]
      BY <1>t, <2>2 DEF Ping, GoOn, Await, Finish
    <3>2. frame' = [frame EXCEPT ![t] = [NoFrame EXCEPT !.back = "ended"]]
      BY <1>t, <2>2 DEF Ping, GoOn, Await, Finish
    <3>3. /\ frame' \in [Coroutines -> Frames] /\ f.back = "ended"
       /\ \A u \in Coroutines : u # t => frame'[u] = frame[u]
      BY <1>0, <1>a, <1>b, <3>2, NoFrameIsFrame DEF Frames, MailSteps
    <3> QED BY <1>t, <2>2, <1>0, <1>a, <1>b, <3>1, <3>3 DEF Moved, MailSteps, Ping, At
  <2> QED BY <2>1, <2>2
<1>3. registered = c /\ m = "disconnect" => sock'[c] = "closed"
  <2> SUFFICES ASSUME registered = c, m = "disconnect" PROVE sock'[c] = "closed"
    OBVIOUS
  <2>1. BeatOK(c) /\ EndpointOK(c) /\ mailAt[Beat(c)] = "ping"
    BY DEF MailIInv, MailInv, Ping, At
  <2>2. frame[t].ws = c /\ sock[c] # "new"
    BY <1>t, <2>1 DEF BeatOK, EndpointOK, AboutToRegister
  <2>3. sock[c] # "open"
    BY <1>2, <2>2, NobodyIsNone
  <2>4. sock[c] \in {"dropped", "closed"}
    BY <1>b, <2>2, <2>3 DEF SocketState
  <2>5. sock' = IF sock[c] = "dropped" THEN [sock EXCEPT ![c] = "closed"] ELSE sock
    BY <1>t, <2>2, <2>3 DEF Ping
  <2> QED BY <1>b, <2>4, <2>5
<1>4. BeatAt(c, m, f)
  BY <1>2, <1>3 DEF BeatAt
<1> QED BY <1>t, <1>1, <1>2, <1>4, AnyMoves DEF Ping, At

LEMMA BeginDeliveryStep ==
  ASSUME MailIInv, NEW n \in Notes, BeginDelivery(n)
  PROVE  MailIInv'
<1>t. PICK t \in Coroutines : t = Delivery(n) /\ t[1] = "delivery" /\ t[2] = n
  BY CoroutineFacts
<1>a. /\ mailAt[t] \in MailSteps /\ frame[t] \in Frames
      /\ frame[t].ws \in Sockets \cup {Nobody} /\ frame[t].next \in MailSteps
      /\ frame[t].back \in MailSteps /\ frame[t].attempt \in Nat
  BY OwnFacts DEF Frames
<1>b. /\ mailAt \in [Coroutines -> MailSteps] /\ frame \in [Coroutines -> Frames]
      /\ sock \in [Sockets -> SocketState] /\ registered \in Sockets \cup {Nobody}
  BY DEF MailIInv, MailTypeOK
<1>0. PICK m, f : m = mailAt'[t] /\ f = frame'[t]
  OBVIOUS
<1>1. TablesOK
  BY <1>t, <1>a, <1>b DEF BeginDelivery, MailIInv, MailTypeOK, TablesOK, SocksOK, GoOn, Await, Finish, SocketState, At
<1>2. Moved(t, m, f) /\ mailAt[t] # "unregister"
  <2>1. mailAt' = [mailAt EXCEPT ![t] = "channel"]
    BY <1>t DEF BeginDelivery, GoOn, Await, Finish
  <2>2. frame' = [frame EXCEPT ![t].attempt = 1]
    BY <1>t DEF BeginDelivery, GoOn, Await, Finish
  <2>3. /\ frame' \in [Coroutines -> Frames]
     /\ \A u \in Coroutines : u # t => frame'[u] = frame[u]
    BY <1>0, <1>a, <1>b, <2>2 DEF Frames, MailSteps
  <2> QED BY <1>t, <1>0, <1>a, <1>b, <2>1, <2>3 DEF Moved, MailSteps, BeginDelivery, At
<1> QED BY <1>t, <1>1, <1>2, OwnFacts, AnyMoves
        DEF BeginDelivery, At, EndpointAt, EndpointOK, BeatAt, BeatOK, About, AboutToRegister, SocksOK, TablesOK

LEMMA ChannelStep ==
  ASSUME MailIInv, NEW n \in Notes, Channel(n)
  PROVE  MailIInv'
<1>t. PICK t \in Coroutines : t = Delivery(n) /\ t[1] = "delivery" /\ t[2] = n
  BY CoroutineFacts
<1>a. /\ mailAt[t] \in MailSteps /\ frame[t] \in Frames
      /\ frame[t].ws \in Sockets \cup {Nobody} /\ frame[t].next \in MailSteps
      /\ frame[t].back \in MailSteps /\ frame[t].attempt \in Nat
  BY OwnFacts DEF Frames
<1>b. /\ mailAt \in [Coroutines -> MailSteps] /\ frame \in [Coroutines -> Frames]
      /\ sock \in [Sockets -> SocketState] /\ registered \in Sockets \cup {Nobody}
  BY DEF MailIInv, MailTypeOK
<1>0. PICK m, f : m = mailAt'[t] /\ f = frame'[t]
  OBVIOUS
<1>1. TablesOK
  BY <1>t, <1>a, <1>b DEF Channel, MailIInv, MailTypeOK, TablesOK, SocksOK, GoOn, Await, Finish, SocketState, At
<1>2. Moved(t, m, f) /\ mailAt[t] # "unregister"
  <2>1. CASE registered # Nobody
    <3>1. mailAt' = [mailAt EXCEPT ![t] = "send"]
      BY <1>t, <2>1 DEF Channel, GoOn, Await, Finish
    <3>2. frame' = [frame EXCEPT ![t].next = "sent"]
      BY <1>t, <2>1 DEF Channel, GoOn, Await, Finish
    <3>3. /\ frame' \in [Coroutines -> Frames]
       /\ \A u \in Coroutines : u # t => frame'[u] = frame[u]
      BY <1>0, <1>a, <1>b, <3>2 DEF Frames, MailSteps
    <3> QED BY <1>t, <2>1, <1>0, <1>a, <1>b, <3>1, <3>3 DEF Moved, MailSteps, Channel, At
  <2>2. CASE registered = Nobody
    <3>1. mailAt' = [mailAt EXCEPT ![t] = "fcm"]
      BY <1>t, <2>2 DEF Channel, GoOn, Await, Finish
    <3>2. frame' = frame
      BY <1>t, <2>2 DEF Channel, GoOn, Await, Finish
    <3>3. /\ frame' \in [Coroutines -> Frames]
       /\ \A u \in Coroutines : u # t => frame'[u] = frame[u]
      BY <1>0, <1>a, <1>b, <3>2 DEF Frames, MailSteps
    <3> QED BY <1>t, <2>2, <1>0, <1>a, <1>b, <3>1, <3>3 DEF Moved, MailSteps, Channel, At
  <2> QED BY <2>1, <2>2
<1> QED BY <1>t, <1>1, <1>2, OwnFacts, AnyMoves
        DEF Channel, At, EndpointAt, EndpointOK, BeatAt, BeatOK, About, AboutToRegister, SocksOK, TablesOK

LEMMA SentStep ==
  ASSUME MailIInv, NEW n \in Notes, Sent(n)
  PROVE  MailIInv'
<1>t. PICK t \in Coroutines : t = Delivery(n) /\ t[1] = "delivery" /\ t[2] = n
  BY CoroutineFacts
<1>a. /\ mailAt[t] \in MailSteps /\ frame[t] \in Frames
      /\ frame[t].ws \in Sockets \cup {Nobody} /\ frame[t].next \in MailSteps
      /\ frame[t].back \in MailSteps /\ frame[t].attempt \in Nat
  BY OwnFacts DEF Frames
<1>b. /\ mailAt \in [Coroutines -> MailSteps] /\ frame \in [Coroutines -> Frames]
      /\ sock \in [Sockets -> SocketState] /\ registered \in Sockets \cup {Nobody}
  BY DEF MailIInv, MailTypeOK
<1>0. PICK m, f : m = mailAt'[t] /\ f = frame'[t]
  OBVIOUS
<1>1. TablesOK
  BY <1>t, <1>a, <1>b DEF Sent, MailIInv, MailTypeOK, TablesOK, SocksOK, GoOn, Await, Finish, SocketState, At
<1>2. Moved(t, m, f) /\ mailAt[t] # "unregister"
  <2>1. CASE frame[t].ok
    <3>1. mailAt' = [mailAt EXCEPT ![t] = "ended"]
      BY <1>t, <2>1 DEF Sent, GoOn, Await, Finish
    <3>2. frame' = [frame EXCEPT ![t] = NoFrame]
      BY <1>t, <2>1 DEF Sent, GoOn, Await, Finish
    <3>3. /\ frame' \in [Coroutines -> Frames]
       /\ \A u \in Coroutines : u # t => frame'[u] = frame[u]
      BY <1>0, <1>a, <1>b, <3>2, NoFrameIsFrame DEF Frames, MailSteps
    <3> QED BY <1>t, <2>1, <1>0, <1>a, <1>b, <3>1, <3>3 DEF Moved, MailSteps, Sent, At
  <2>2. CASE ~frame[t].ok
    <3>1. mailAt' = [mailAt EXCEPT ![t] = "fcm"]
      BY <1>t, <2>2 DEF Sent, GoOn, Await, Finish
    <3>2. frame' = [frame EXCEPT ![t] = [NoFrame EXCEPT !.attempt = frame[t].attempt]]
      BY <1>t, <2>2 DEF Sent, GoOn, Await, Finish
    <3>3. /\ frame' \in [Coroutines -> Frames]
       /\ \A u \in Coroutines : u # t => frame'[u] = frame[u]
      BY <1>0, <1>a, <1>b, <3>2, NoFrameIsFrame DEF Frames, MailSteps
    <3> QED BY <1>t, <2>2, <1>0, <1>a, <1>b, <3>1, <3>3 DEF Moved, MailSteps, Sent, At
  <2> QED BY <2>1, <2>2
<1> QED BY <1>t, <1>1, <1>2, OwnFacts, AnyMoves
        DEF Sent, At, EndpointAt, EndpointOK, BeatAt, BeatOK, About, AboutToRegister, SocksOK, TablesOK

LEMMA PushStep ==
  ASSUME MailIInv, NEW n \in Notes, Push(n)
  PROVE  MailIInv'
<1>t. PICK t \in Coroutines : t = Delivery(n) /\ t[1] = "delivery" /\ t[2] = n
  BY CoroutineFacts
<1>a. /\ mailAt[t] \in MailSteps /\ frame[t] \in Frames
      /\ frame[t].ws \in Sockets \cup {Nobody} /\ frame[t].next \in MailSteps
      /\ frame[t].back \in MailSteps /\ frame[t].attempt \in Nat
  BY OwnFacts DEF Frames
<1>b. /\ mailAt \in [Coroutines -> MailSteps] /\ frame \in [Coroutines -> Frames]
      /\ sock \in [Sockets -> SocketState] /\ registered \in Sockets \cup {Nobody}
  BY DEF MailIInv, MailTypeOK
<1>0. PICK m, f : m = mailAt'[t] /\ f = frame'[t]
  OBVIOUS
<1>1. TablesOK
  BY <1>t, <1>a, <1>b DEF Push, MailIInv, MailTypeOK, TablesOK, SocksOK, GoOn, Await, Finish, SocketState, At
<1>2. Moved(t, m, f) /\ mailAt[t] # "unregister"
  <2>1. CASE Finish(t)
    <3>1. mailAt' = [mailAt EXCEPT ![t] = "ended"]
      BY <1>t, <2>1 DEF Push, GoOn, Await, Finish
    <3>2. frame' = [frame EXCEPT ![t] = NoFrame]
      BY <1>t, <2>1 DEF Push, GoOn, Await, Finish
    <3>3. /\ frame' \in [Coroutines -> Frames]
       /\ \A u \in Coroutines : u # t => frame'[u] = frame[u]
      BY <1>0, <1>a, <1>b, <3>2, NoFrameIsFrame DEF Frames, MailSteps
    <3> QED BY <1>t, <2>1, <1>0, <1>a, <1>b, <3>1, <3>3 DEF Moved, MailSteps, Push, At
  <2>2. CASE Await(t, "backoff") /\ UNCHANGED frame
    <3>1. mailAt' = [mailAt EXCEPT ![t] = "backoff"]
      BY <1>t, <2>2 DEF Push, GoOn, Await, Finish
    <3>2. frame' = frame
      BY <1>t, <2>2 DEF Push, GoOn, Await, Finish
    <3>3. /\ frame' \in [Coroutines -> Frames]
       /\ \A u \in Coroutines : u # t => frame'[u] = frame[u]
      BY <1>0, <1>a, <1>b, <3>2 DEF Frames, MailSteps
    <3> QED BY <1>t, <2>2, <1>0, <1>a, <1>b, <3>1, <3>3 DEF Moved, MailSteps, Push, At
  <2> QED BY <2>1, <2>2, <1>t DEF Push
<1> QED BY <1>t, <1>1, <1>2, OwnFacts, AnyMoves
        DEF Push, At, EndpointAt, EndpointOK, BeatAt, BeatOK, About, AboutToRegister, SocksOK, TablesOK

LEMMA RetryStep ==
  ASSUME MailIInv, NEW n \in Notes, Retry(n)
  PROVE  MailIInv'
<1>t. PICK t \in Coroutines : t = Delivery(n) /\ t[1] = "delivery" /\ t[2] = n
  BY CoroutineFacts
<1>a. /\ mailAt[t] \in MailSteps /\ frame[t] \in Frames
      /\ frame[t].ws \in Sockets \cup {Nobody} /\ frame[t].next \in MailSteps
      /\ frame[t].back \in MailSteps /\ frame[t].attempt \in Nat
  BY OwnFacts DEF Frames
<1>b. /\ mailAt \in [Coroutines -> MailSteps] /\ frame \in [Coroutines -> Frames]
      /\ sock \in [Sockets -> SocketState] /\ registered \in Sockets \cup {Nobody}
  BY DEF MailIInv, MailTypeOK
<1>0. PICK m, f : m = mailAt'[t] /\ f = frame'[t]
  OBVIOUS
<1>1. TablesOK
  BY <1>t, <1>a, <1>b DEF Retry, MailIInv, MailTypeOK, TablesOK, SocksOK, GoOn, Await, Finish, SocketState, At
<1>2. Moved(t, m, f) /\ mailAt[t] # "unregister"
  <2>1. mailAt' = [mailAt EXCEPT ![t] = "channel"]
    BY <1>t DEF Retry, GoOn, Await, Finish
  <2>2. frame' = [frame EXCEPT ![t].attempt = @ + 1]
    BY <1>t DEF Retry, GoOn, Await, Finish
  <2>3. /\ frame' \in [Coroutines -> Frames]
     /\ \A u \in Coroutines : u # t => frame'[u] = frame[u]
    BY <1>0, <1>a, <1>b, <2>2 DEF Frames, MailSteps
  <2> QED BY <1>t, <1>0, <1>a, <1>b, <2>1, <2>3 DEF Moved, MailSteps, Retry, At
<1> QED BY <1>t, <1>1, <1>2, OwnFacts, AnyMoves
        DEF Retry, At, EndpointAt, EndpointOK, BeatAt, BeatOK, About, AboutToRegister, SocksOK, TablesOK

\* The entry of the queue goes, and what others have of it is fixed.
LEMMA DropStep ==
  ASSUME MailIInv, NEW c \in Sockets, Drop(c)
  PROVE  MailIInv'
<1>t. PICK t \in Coroutines : t = Endpoint(c) /\ t[1] = "endpoint" /\ t[2] = c
  BY CoroutineFacts
<1>b. /\ mailAt \in [Coroutines -> MailSteps] /\ frame \in [Coroutines -> Frames]
      /\ sock \in [Sockets -> SocketState] /\ queued \in Nat
  BY DEF MailIInv, MailTypeOK
<1>0. PICK m, f : m = mailAt'[t] /\ f = frame'[t]
  OBVIOUS
<1>1. TablesOK
  BY <1>t, <1>b, MailboxAssumption
  DEF Drop, EndpointEnds, MailIInv, MailTypeOK, TablesOK, SocksOK, GoOn, Await, Finish, SocketState, At
<1>2. Moved(t, m, f) /\ m \in {"ended", "confirm"}
  <2>1. CASE queued = 0
    <3>1. mailAt' = [mailAt EXCEPT ![t] = "ended"] /\ frame' = [frame EXCEPT ![t] = NoFrame]
      BY <1>t, <2>1 DEF Drop, EndpointEnds, Finish, Await
    <3>2. Moved(t, "ended", NoFrame)
      BY <3>1, MovedByItself, NoFrameIsFrame DEF MailSteps, MailIInv
    <3> QED BY <1>0, <3>2 DEF Moved
  <2>2. CASE queued # 0
    <3>1. mailAt' = [mailAt EXCEPT ![t] = "confirm"]
      BY <1>t, <2>2 DEF Drop, GoOn
    <3>2. frame' = [u \in Coroutines |-> IF u \in Flushing \ {t}
                                           THEN [frame[u] EXCEPT !.kept = queued] ELSE frame[u]]
      BY <1>t, <2>2 DEF Drop
    <3>3. ASSUME NEW u \in Coroutines
          PROVE  /\ frame'[u] \in Frames /\ frame'[u].ws = frame[u].ws
                 /\ frame'[u].next = frame[u].next /\ frame'[u].back = frame[u].back
      <4>1. PICK g : g = frame[u]
        OBVIOUS
      <4>2. g \in Frames
        BY <1>b, <4>1
      <4>3. /\ [g EXCEPT !.kept = queued] \in Frames /\ [g EXCEPT !.kept = queued].ws = g.ws
            /\ [g EXCEPT !.kept = queued].next = g.next /\ [g EXCEPT !.kept = queued].back = g.back
        BY <1>b, <4>2 DEF Frames
      <4>4. frame'[u] = IF u \in Flushing \ {t} THEN [g EXCEPT !.kept = queued] ELSE g
        BY <3>2, <4>1
      <4> QED BY <4>1, <4>2, <4>3, <4>4
    <3>4. frame' \in [Coroutines -> Frames]
      <4>1. DOMAIN frame' = Coroutines /\ frame' = [u \in Coroutines |-> frame'[u]]
        BY <3>2
      <4> QED BY <3>3, <4>1
    <3> QED BY <1>0, <1>b, <3>1, <3>3, <3>4 DEF Moved, MailSteps
  <2> QED BY <2>1, <2>2
<1> QED BY <1>t, <1>1, <1>2, AnyMoves
        DEF Drop, At, EndpointAt, About, SocksOK, TablesOK, MailIInv, MailInv, EndpointOK

\* The connection and its heartbeat begin together; no heartbeat of this
\* connection can have begun before.
LEMMA RegisterStep ==
  ASSUME MailIInv, NEW c \in Sockets, Register(c)
  PROVE  MailIInv'
<1>t. PICK t \in Coroutines, b \in Coroutines :
        t = Endpoint(c) /\ b = Beat(c) /\ t # b /\ \A d \in Sockets : Endpoint(d) # b /\ Beat(d) # t
                                    /\ (d # c => Endpoint(d) # t /\ Beat(d) # b)
  BY CoroutineFacts
<1>b. /\ mailAt \in [Coroutines -> MailSteps] /\ frame \in [Coroutines -> Frames]
      /\ sock \in [Sockets -> SocketState]
  BY DEF MailIInv, MailTypeOK
<1>m. PICK m \in {"confirm", "flush"} : mailAt' = [mailAt EXCEPT ![b] = "sleep", ![t] = m]
  <2>1. mailAt' = [mailAt EXCEPT ![b] = "sleep", ![t] = IF queued = 0 THEN "confirm" ELSE "flush"]
    BY <1>t DEF Register
  <2> QED BY <2>1
<1>1. /\ mailAt' \in [Coroutines -> MailSteps] /\ mailAt'[t] = m /\ mailAt'[b] = "sleep"
      /\ \A u \in Coroutines : u # t /\ u # b => mailAt'[u] = mailAt[u]
  BY <1>t, <1>b, <1>m DEF MailSteps
<1>2. /\ frame' \in [Coroutines -> Frames]
      /\ \A u \in Coroutines : u # t => frame'[u] = frame[u]
  <2>1. frame' = [frame EXCEPT ![t].i = 1]
    BY <1>t DEF Register
  <2> QED BY <1>b, <2>1 DEF Frames
<1>3. /\ registered' = c /\ pulse' = c /\ sock' = sock /\ mailAt[t] = "register"
      /\ queued' = queued /\ deadLetters' = deadLetters /\ running' = t
  BY <1>t DEF Register, At
<1>4. MailTypeOK'
  BY <1>1, <1>2, <1>3 DEF MailIInv, MailTypeOK
<1>5. PulseOK'
  BY <1>3 DEF PulseOK
<1>6. RegisteredIsWatched'
  BY <1>1, <1>t DEF RegisteredIsWatched
<1>7. ASSUME NEW d \in Sockets PROVE EndpointOK(d)' /\ BeatOK(d)'
  <2>0. EndpointOK(d) /\ BeatOK(d)
    BY DEF MailIInv, MailInv
  <2>1. CASE d = c
    BY <2>0, <2>1, <1>t, <1>1, <1>3 DEF EndpointOK, BeatOK, AboutToRegister
  <2>2. CASE d # c
    <3>1. /\ mailAt'[Endpoint(d)] = mailAt[Endpoint(d)] /\ frame'[Endpoint(d)] = frame[Endpoint(d)]
          /\ mailAt'[Beat(d)] = mailAt[Beat(d)] /\ frame'[Beat(d)] = frame[Beat(d)]
      BY <2>2, <1>t, <1>1, <1>2, CoroutineFacts
    <3>2. EndpointOK(d)' /\ (AboutToRegister(d)' <=> AboutToRegister(d))
      BY <2>0, <3>1, <1>3 DEF EndpointOK, AboutToRegister
    <3> QED BY <2>0, <2>2, <3>1, <3>2, <1>3 DEF BeatOK
  <2> QED BY <2>1, <2>2
<1> QED BY <1>4, <1>5, <1>6, <1>7 DEF MailIInv, MailInv

\* A heartbeat that disconnects the registered connection is that
\* connection's, and has closed the socket: it cancels itself without waiting.
LEMMA DisconnectStep ==
  ASSUME MailIInv, NEW t \in Coroutines, Disconnect(t)
  PROVE  MailIInv'
<1>a. /\ mailAt[t] = "disconnect" /\ frame[t] \in Frames /\ frame[t].back \in MailSteps
      /\ mailAt \in [Coroutines -> MailSteps] /\ frame \in [Coroutines -> Frames]
      /\ sock \in [Sockets -> SocketState]
      /\ registered \in Sockets \cup {Nobody} /\ pulse \in Sockets \cup {Nobody}
  BY OwnFacts DEF MailIInv, MailTypeOK, Disconnect, At
<1>1. CASE registered = Nobody
  <2>0. PICK m : m = frame[t].back
    OBVIOUS
  <2>1. TablesOK
    BY <1>1 DEF Disconnect, MailIInv, MailTypeOK, TablesOK, SocksOK, GoOn
  <2>2. mailAt' = [mailAt EXCEPT ![t] = m] /\ frame' = frame
    BY <1>1, <2>0 DEF Disconnect, GoOn
  <2>3. Moved(t, m, frame[t])
    BY <1>a, <2>0, <2>2, MovedSameFrame DEF MailIInv
  <2>4. PICK f : f = frame[t]
    OBVIOUS
  <2>5. Moved(t, m, f)
    BY <2>3, <2>4
  <2> QED BY <1>a, <1>1, <2>0, <2>1, <2>4, <2>5, OwnFacts, AnyMoves, NobodyIsNone
          DEF Disconnect, EndpointAt, EndpointOK, BeatAt, BeatOK, About, AboutToRegister, SocksOK, TablesOK
<1>2. CASE registered # Nobody
  <2>r. registered \in Sockets /\ pulse \in {registered, Nobody}
    BY <1>a, <1>2 DEF MailIInv, MailInv, PulseOK
  <2>t. /\ pulse' = Nobody /\ registered' = registered
        /\ sock' = [sock EXCEPT ![registered] = "closed"]
    BY <1>2 DEF Disconnect
  <2>1. TablesOK
    <3>1. running' \in Coroutines \cup {Nobody}
      BY <1>2 DEF Disconnect
    <3>2. queued' = queued /\ deadLetters' = deadLetters
      BY DEF Disconnect
    <3> QED BY <1>a, <2>r, <2>t, <3>1, <3>2 DEF TablesOK, SocksOK, SocketState, MailIInv, MailTypeOK
  <2>2. CASE pulse = Nobody \/ t = Beat(pulse)
    <3>1. t = Beat(pulse) /\ pulse # Nobody => sock[registered] = "closed"
      <4> SUFFICES ASSUME t = Beat(pulse), pulse # Nobody PROVE sock[registered] = "closed"
        OBVIOUS
      <4>1. pulse = registered
        BY <2>r
      <4>2. BeatOK(registered) /\ mailAt[Beat(registered)] = "disconnect"
        BY <1>a, <2>r, <4>1 DEF MailIInv, MailInv
      <4> QED BY <4>2, <2>r DEF BeatOK
    <3>2. mailAt' = [mailAt EXCEPT ![t] = "unregister"] /\ frame' = frame
      <4>1. CASE pulse = Nobody
        <5>1. /\ mailAt' = [mailAt EXCEPT ![t] = mailAt[t], ![t] = "unregister"]
              /\ frame' = [frame EXCEPT ![t] = frame[t], ![t] = frame[t]]
          BY <1>a, <1>2, <4>1 DEF Disconnect
        <5> QED BY <1>a, <5>1
      <4>2. CASE pulse # Nobody /\ t = Beat(pulse)
        <5>1. /\ mailAt' = [mailAt EXCEPT ![t] = mailAt[t], ![t] = "unregister"]
              /\ frame' = [frame EXCEPT ![t] = frame[t], ![t] = frame[t]]
          BY <1>a, <1>2, <2>2, <3>1, <4>2 DEF Disconnect
        <5> QED BY <1>a, <5>1
      <4> QED BY <2>2, <4>1, <4>2
    <3>3. PICK f : f = frame[t]
      OBVIOUS
    <3>4. Moved(t, "unregister", f)
      BY <3>2, <3>3, MovedSameFrame DEF MailIInv, MailSteps
    <3> QED BY <1>a, <2>1, <2>t, <3>3, <3>4, OwnFacts, AnyMoves
            DEF EndpointAt, EndpointOK, BeatAt, BeatOK, About, AboutToRegister, SocksOK, TablesOK
  <2>3. CASE pulse # Nobody /\ t # Beat(pulse)
    <3>v. PICK v \in Coroutines : v = Beat(registered) /\ v # t /\ pulse = registered
      BY <2>r, <2>3, CoroutineFacts
    <3>1. /\ mailAt' = [mailAt EXCEPT ![v] = "ended", ![t] = "unregister"]
          /\ frame' = [frame EXCEPT ![v] = NoFrame, ![t] = frame[t]]
      BY <1>a, <1>2, <2>3, <3>v DEF Disconnect
    <3>2. /\ mailAt' \in [Coroutines -> MailSteps] /\ frame' \in [Coroutines -> Frames]
          /\ mailAt'[v] = "ended" /\ mailAt'[t] = "unregister" /\ frame'[t] = frame[t]
          /\ \A u \in Coroutines : u # t /\ u # v => mailAt'[u] = mailAt[u]
          /\ \A u \in Coroutines : u # v => frame'[u] = frame[u]
      BY <1>a, <3>1, <3>v, NoFrameIsFrame DEF MailSteps
    <3>3. MailTypeOK'
      BY <2>1, <3>2 DEF TablesOK, SocksOK, MailTypeOK, MailIInv
    <3>4. PulseOK' /\ RegisteredIsWatched'
      BY <2>t, <3>2 DEF PulseOK, RegisteredIsWatched
    <3>5. ASSUME NEW d \in Sockets PROVE EndpointOK(d)' /\ BeatOK(d)'
      <4>0. EndpointOK(d) /\ BeatOK(d) /\ Endpoint(d) # v /\ Endpoint(d) # Beat(d)
            /\ Endpoint(d) \in Coroutines /\ Beat(d) \in Coroutines
        BY <2>r, <3>v, CoroutineFacts DEF MailIInv, MailInv
      <4>1. EndpointOK(d)' /\ (AboutToRegister(d)' <=> AboutToRegister(d))
        <5>1. CASE Endpoint(d) = t
          BY <5>1, <4>0, <1>a, <2>1, <3>2 DEF EndpointOK, AboutToRegister, TablesOK, SocksOK
        <5>2. CASE Endpoint(d) # t
          BY <5>2, <4>0, <2>1, <3>2 DEF EndpointOK, AboutToRegister, TablesOK, SocksOK
        <5> QED BY <5>1, <5>2
      <4>2. CASE d = registered
        BY <4>0, <4>1, <4>2, <2>r, <2>t, <3>2, <3>v, NobodyIsNone DEF BeatOK
      <4>3. CASE d # registered
        <5>0. Beat(d) # v
          BY <4>3, <2>r, <3>v, CoroutineFacts
        <5>1. CASE Beat(d) = t
          BY <5>1, <4>0, <4>1, <4>3, <1>a, <2>r, <2>t, <3>2, NobodyIsNone DEF BeatOK
        <5>2. CASE Beat(d) # t
          BY <5>0, <5>2, <4>0, <4>1, <4>3, <2>r, <2>t, <3>2, NobodyIsNone DEF BeatOK
        <5> QED BY <5>1, <5>2
      <4> QED BY <4>1, <4>2, <4>3
    <3> QED BY <3>3, <3>4, <3>5 DEF MailIInv, MailInv
  <2> QED BY <2>2, <2>3
<1> QED BY <1>1, <1>2

\* The client is gone; nothing on the server changes.
LEMMA ClientDropsStep ==
  ASSUME MailIInv, NEW c \in Sockets, ClientDrops(c)
  PROVE  MailIInv'
<1>1. /\ sock' \in [Sockets -> SocketState] /\ sock'[c] = "dropped" /\ sock[c] = "open"
      /\ \A d \in Sockets : d # c => sock'[d] = sock[d]
  BY DEF ClientDrops, MailIInv, MailTypeOK, SocketState
<1>2. MailTypeOK' /\ PulseOK' /\ RegisteredIsWatched'
  BY <1>1 DEF ClientDrops, MailIInv, MailTypeOK, MailInv, PulseOK, RegisteredIsWatched
<1>3. ASSUME NEW d \in Sockets PROVE EndpointOK(d)' /\ BeatOK(d)'
  BY <1>1 DEF ClientDrops, MailIInv, MailInv, EndpointOK, BeatOK, AboutToRegister
<1> QED BY <1>2, <1>3 DEF MailIInv, MailInv

LEMMA MailStutters == MailIInv /\ UNCHANGED mailVars => MailIInv'
  BY DEF mailVars, MailIInv, MailTypeOK, MailInv, PulseOK, EndpointOK, BeatOK, AboutToRegister, RegisteredIsWatched

LEMMA CoroutineStepInv ==
  ASSUME MailIInv, NEW t \in Coroutines, CoroutineStep(t)
  PROVE  MailIInv'
<1>1. CASE Call(t)
  BY <1>1, SendStep, WriteStep, QueueStep, DisconnectStep, UnregisterStep, DepartStep DEF Call
<1>2. CASE t[1] = "endpoint" /\ Handshake(t[2])
  <2>1. t[2] \in Sockets
    BY <1>2, OwnFacts
  <2> QED BY <1>2, <2>1, CheckStep, RegisterStep, FlushStep, DropStep, ConfirmStep DEF Handshake
<1>3. CASE t[1] = "beat" /\ Heartbeat(t[2])
  <2>1. t[2] \in Sockets
    BY <1>3, OwnFacts
  <2> QED BY <1>3, <2>1, WakeUpStep, PingStep DEF Heartbeat
<1>4. CASE t[1] = "delivery" /\ Deliver(t[2])
  <2>1. t[2] \in Notes
    BY <1>4, OwnFacts
  <2> QED BY <1>4, <2>1, ChannelStep, SentStep, PushStep, RetryStep DEF Deliver
<1> QED BY <1>1, <1>2, <1>3, <1>4 DEF CoroutineStep

LEMMA MailNextInv == MailIInv /\ [MailNext]_mailVars => MailIInv'
<1> SUFFICES ASSUME MailIInv, [MailNext]_mailVars PROVE MailIInv'
  OBVIOUS
<1>1. CASE UNCHANGED mailVars
  BY <1>1, MailStutters
<1>2. CASE \E t \in Coroutines : CoroutineStep(t)
  BY <1>2, CoroutineStepInv
<1>3. CASE \E c \in Sockets : Arrive(c) \/ Leave(c) \/ ClientDrops(c)
  BY <1>3, ArriveStep, LeaveStep, ClientDropsStep
<1>4. CASE \E n \in Notes : BeginDelivery(n)
  BY <1>4, BeginDeliveryStep
<1> QED BY <1>1, <1>2, <1>3, <1>4 DEF MailNext

LEMMA MailInvariant == MailSpec => []MailIInv
  BY MailInitInv, MailNextInv, PTL DEF MailSpec

\* Connections, registry, queue and coroutines keep their shape, and the
\* offline queue its bound, for any number of connections and notifications.
THEOREM MailTypes == MailSpec => []MailTypeOK
<1>1. MailIInv => MailTypeOK
  BY DEF MailIInv
<1> QED BY <1>1, MailInvariant, PTL

\* However connections, heartbeats and deliveries interleave at their awaits
\* and disconnect one another, a registered connection has a heartbeat that
\* will notice its end, or a coroutine about to remove it.
THEOREM AlwaysWatched == MailSpec => []RegisteredIsWatched
<1>1. MailIInv => RegisteredIsWatched
  BY DEF MailIInv
<1> QED BY <1>1, MailInvariant, PTL
=============================================================================
