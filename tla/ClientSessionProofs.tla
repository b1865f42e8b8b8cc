------------------------- MODULE ClientSessionProofs -------------------------
(***************************************************************************)
(* Theorems about ClientSession, for any calls and bounds.  The argument:  *)
(* _isRefreshing is set exactly while one call is in the part of onError   *)
(* that sets and resets it, only that call completes or resends those in   *)
(* the queue, and only calls that wait are in the queue.                   *)
(***************************************************************************)
EXTENDS ClientSession, TLAPS

RefreshSteps == {"read", "ask", "store", "retry", "retried", "behind", "clear", "forget"}

\* The flag and its holder.
HolderOK ==
  /\ refreshing <=> Refreshers # {}
  /\ \A c, d \in Refreshers : c = d

\* The queue and those that wait in it.
WaitersOK ==
  /\ \A c \in parked : callAt[c] \in {"parked", "behind"}
  /\ \A c \in Calls : callAt[c] \in {"parked", "behind"} => c \in parked
  /\ parked # {} => refreshing

SInv == ClientTypeOK /\ HolderOK /\ WaitersOK /\ AnsweredOnce

LEMMA NoLocalIs == NoLocal \in Locals
  BY SignInsAssumption DEF NoLocal, Locals, Tokens, Refreshes

LEMMA FirstSignIn == 1 \in 1 .. MaxSignIns /\ 0 \in 0 .. MaxExpiries /\ {0, 1} \subseteq Refreshes
  BY SignInsAssumption, ExpiriesAssumption DEF Refreshes

LEMMA ClientInitInv == ClientInit => SInv
<1> SUFFICES ASSUME ClientInit PROVE SInv
  OBVIOUS
<1>1. ClientTypeOK
  BY FirstSignIn, NoLocalIs DEF ClientInit, ClientTypeOK, Tokens, CallSteps
<1>2. HolderOK /\ WaitersOK /\ AnsweredOnce
  BY DEF ClientInit, HolderOK, WaitersOK, AnsweredOnce, Refreshers
<1> QED
  BY <1>1, <1>2 DEF SInv

\* One call moves outside the part of onError that holds the flag.
LEMMA OutsideStep ==
  ASSUME SInv, NEW c \in Calls, NEW step \in CallSteps \ (RefreshSteps \cup {"parked", "answered"}),
         callAt[c] \notin RefreshSteps \cup {"parked", "answered"},
         CallGoto(c, step), UNCHANGED <<refreshing, parked, answers>>
  PROVE  /\ callAt' \in [Calls -> CallSteps]
         /\ HolderOK' /\ WaitersOK' /\ AnsweredOnce'
<1> USE DEF SInv, ClientTypeOK, CallGoto
<1>1. callAt' \in [Calls -> CallSteps]
  OBVIOUS
<1>2. Refreshers' = Refreshers
  BY DEF Refreshers, RefreshSteps
<1> QED
  BY <1>1, <1>2 DEF HolderOK, WaitersOK, AnsweredOnce, RefreshSteps

\* The holder of the flag goes on.
LEMMA HolderStep ==
  ASSUME SInv, NEW c \in Calls, NEW step \in RefreshSteps \ {"behind"},
         callAt[c] \in RefreshSteps \ {"behind"},
         CallGoto(c, step), UNCHANGED <<refreshing, parked, answers>>
  PROVE  /\ callAt' \in [Calls -> CallSteps]
         /\ HolderOK' /\ WaitersOK' /\ AnsweredOnce'
<1> USE DEF SInv, ClientTypeOK, CallGoto
<1>1. callAt' \in [Calls -> CallSteps]
  BY DEF RefreshSteps, CallSteps
<1>2. Refreshers' = Refreshers
  BY DEF Refreshers, RefreshSteps
<1> QED
  BY <1>1, <1>2 DEF HolderOK, WaitersOK, AnsweredOnce, RefreshSteps

\* The holder answers itself and all that wait, and gives the flag back.
LEMMA FailAllStep ==
  ASSUME SInv, NEW c \in Calls, callAt[c] \in RefreshSteps \ {"behind"}, FailAll(c)
  PROVE  /\ callAt' \in [Calls -> CallSteps] /\ local' \in [Calls -> Locals]
         /\ answers' \in [Calls -> Nat] /\ refreshing' \in BOOLEAN /\ parked' \subseteq Calls
         /\ HolderOK' /\ WaitersOK' /\ AnsweredOnce'
<1> USE DEF SInv, ClientTypeOK, FailAll, Answered
<1>1. callAt' \in [Calls -> CallSteps] /\ answers' \in [Calls -> Nat]
  BY DEF CallSteps
<1>2. local' \in [Calls -> Locals]
  BY NoLocalIs
<1>3. c \in Refreshers
  BY DEF Refreshers, RefreshSteps
<1>4. Refreshers' = {}
  <2>1. ASSUME NEW d \in Calls, callAt'[d] \in RefreshSteps PROVE FALSE
    <3>1. d \notin parked /\ d # c /\ callAt[d] \in RefreshSteps
      BY <2>1 DEF RefreshSteps
    <3>2. d \in Refreshers
      BY <3>1 DEF Refreshers, RefreshSteps
    <3> QED
      BY <3>1, <3>2, <1>3 DEF HolderOK
  <2> QED
    BY <2>1 DEF Refreshers, RefreshSteps
<1>5. HolderOK'
  BY <1>4 DEF HolderOK
<1>6. WaitersOK'
  BY DEF WaitersOK
<1>7. AnsweredOnce'
  <2>1. \A d \in parked \cup {c} : callAt[d] # "answered"
    BY DEF WaitersOK, RefreshSteps
  <2> QED
    BY <2>1 DEF AnsweredOnce
<1> QED
  BY <1>1, <1>2, <1>5, <1>6, <1>7

\* A step that moves no call.
LEMMA QuietStep ==
  ASSUME SInv, UNCHANGED <<refreshing, parked, callAt, answers>>
  PROVE  HolderOK' /\ WaitersOK' /\ AnsweredOnce'
  BY DEF SInv, HolderOK, WaitersOK, AnsweredOnce, Refreshers

-----------------------------------------------------------------------------
(* One lemma per action that concerns the queue                              *)

LEMMA DispatchStep == ASSUME SInv, NEW c \in Calls, Dispatch(c) PROVE SInv'
<1> USE DEF Dispatch
<1>1. "sent" \in CallSteps \ (RefreshSteps \cup {"parked", "answered"})
  BY DEF CallSteps, RefreshSteps
<1>2. callAt[c] \notin RefreshSteps \cup {"parked", "answered"}
  BY DEF RefreshSteps
<1>3. callAt' \in [Calls -> CallSteps] /\ HolderOK' /\ WaitersOK' /\ AnsweredOnce'
  BY <1>1, <1>2, OutsideStep
<1>4. local' \in [Calls -> Locals]
  BY DEF SInv, ClientTypeOK, Locals, Header
<1> QED
  BY <1>3, <1>4 DEF SInv, ClientTypeOK, storeVars, userVars

LEMMA ReplyStep == ASSUME SInv, NEW c \in Calls, Reply(c) PROVE SInv'
<1> USE DEF Reply, Answered, SInv, ClientTypeOK
<1>1. callAt' \in [Calls -> CallSteps] /\ answers' \in [Calls -> Nat] /\ local' \in [Calls -> Locals]
  BY NoLocalIs DEF CallSteps
<1>2. Refreshers' = Refreshers
  BY DEF Refreshers
<1>3. HolderOK' /\ WaitersOK' /\ AnsweredOnce'
  BY <1>2 DEF HolderOK, WaitersOK, AnsweredOnce
<1> QED
  BY <1>1, <1>3 DEF storeVars, userVars

LEMMA RefuseStep == ASSUME SInv, NEW c \in Calls, Refuse(c) PROVE SInv'
<1> USE DEF Refuse
<1>1. "refused" \in CallSteps \ (RefreshSteps \cup {"parked", "answered"})
  BY DEF CallSteps, RefreshSteps
<1>2. callAt[c] \notin RefreshSteps \cup {"parked", "answered"}
  BY DEF RefreshSteps
<1>3. callAt' \in [Calls -> CallSteps] /\ HolderOK' /\ WaitersOK' /\ AnsweredOnce'
  BY <1>1, <1>2, OutsideStep
<1>4. local' \in [Calls -> Locals]
  BY NoLocalIs DEF SInv, ClientTypeOK
<1> QED
  BY <1>3, <1>4 DEF SInv, ClientTypeOK, storeVars, userVars

LEMMA UnauthorizedStep == ASSUME SInv, NEW c \in Calls, Unauthorized(c) PROVE SInv'
<1> USE DEF Unauthorized, CallGoto
<1>1. ClientTypeOK'
  BY DEF SInv, ClientTypeOK, CallSteps, storeVars, userVars
<1>2. AnsweredOnce'
  BY DEF SInv, ClientTypeOK, AnsweredOnce
<1>3. CASE refreshing
  <2>1. Refreshers' = Refreshers
    BY <1>3 DEF Refreshers, SInv, ClientTypeOK
  <2> QED
    BY <1>1, <1>2, <1>3, <2>1 DEF SInv, ClientTypeOK, HolderOK, WaitersOK
<1>4. CASE ~refreshing
  <2>1. Refreshers = {}
    BY <1>4 DEF SInv, HolderOK
  <2>2. Refreshers' = {c}
    BY <1>4, <2>1 DEF Refreshers, SInv, ClientTypeOK
  <2>3. HolderOK'
    BY <1>4, <2>2 DEF HolderOK
  <2>4. WaitersOK'
    BY <1>4 DEF SInv, ClientTypeOK, WaitersOK
  <2> QED
    BY <1>1, <1>2, <2>3, <2>4 DEF SInv
<1> QED
  BY <1>3, <1>4

LEMMA ReadRefreshStep == ASSUME SInv, NEW c \in Calls, ReadRefresh(c) PROVE SInv'
<1> USE DEF ReadRefresh
<1>1. callAt[c] \in RefreshSteps \ {"behind"} /\ "ask" \in RefreshSteps \ {"behind"}
  BY DEF RefreshSteps
<1>2. CASE storedRefresh = 0
  BY <1>1, <1>2, FailAllStep DEF SInv, ClientTypeOK, storeVars, userVars
<1>3. CASE storedRefresh # 0
  <2>1. callAt' \in [Calls -> CallSteps] /\ HolderOK' /\ WaitersOK' /\ AnsweredOnce'
    BY <1>1, <1>3, HolderStep
  <2>2. local' \in [Calls -> Locals]
    BY <1>3 DEF SInv, ClientTypeOK, Locals
  <2> QED
    BY <1>3, <2>1, <2>2 DEF SInv, ClientTypeOK, storeVars, userVars
<1> QED
  BY <1>2, <1>3

LEMMA GrantStep == ASSUME SInv, NEW c \in Calls, Grant(c) PROVE SInv'
<1> USE DEF Grant
<1>1. callAt[c] \in RefreshSteps \ {"behind"} /\ "store" \in RefreshSteps \ {"behind"}
  BY DEF RefreshSteps
<1>2. callAt' \in [Calls -> CallSteps] /\ HolderOK' /\ WaitersOK' /\ AnsweredOnce'
  BY <1>1, HolderStep
<1>3. local' \in [Calls -> Locals]
  BY NoLocalIs DEF SInv, ClientTypeOK, Locals, Tokens
<1> QED
  BY <1>2, <1>3 DEF SInv, ClientTypeOK, storeVars, userVars

LEMMA GiveUpStep == ASSUME SInv, NEW c \in Calls, GiveUp(c) PROVE SInv'
<1> USE DEF GiveUp
<1>1. callAt[c] \in RefreshSteps \ {"behind"} /\ "clear" \in RefreshSteps \ {"behind"}
  BY DEF RefreshSteps
<1>2. callAt' \in [Calls -> CallSteps] /\ HolderOK' /\ WaitersOK' /\ AnsweredOnce'
  BY <1>1, HolderStep
<1>3. local' \in [Calls -> Locals]
  BY NoLocalIs DEF SInv, ClientTypeOK
<1> QED
  BY <1>2, <1>3 DEF SInv, ClientTypeOK, storeVars, userVars

LEMMA StoreAccessStep == ASSUME SInv, NEW c \in Calls, StoreAccess(c) PROVE SInv'
<1> USE DEF StoreAccess
<1>1. callAt[c] \in RefreshSteps \ {"behind"} /\ "retry" \in RefreshSteps \ {"behind"}
  BY DEF RefreshSteps
<1>2. callAt' \in [Calls -> CallSteps] /\ HolderOK' /\ WaitersOK' /\ AnsweredOnce'
  BY <1>1, HolderStep
<1>3. storedAccess' \in Tokens
  BY DEF SInv, ClientTypeOK, Locals
<1> QED
  BY <1>2, <1>3 DEF SInv, ClientTypeOK, userVars

LEMMA RetryCallStep == ASSUME SInv, NEW c \in Calls, RetryCall(c) PROVE SInv'
<1> USE DEF RetryCall
<1>1. callAt[c] \in RefreshSteps \ {"behind"} /\ "retried" \in RefreshSteps \ {"behind"}
  BY DEF RefreshSteps
<1>2. callAt' \in [Calls -> CallSteps] /\ HolderOK' /\ WaitersOK' /\ AnsweredOnce'
  BY <1>1, HolderStep
<1>3. local' \in [Calls -> Locals]
  BY DEF SInv, ClientTypeOK, Locals
<1> QED
  BY <1>2, <1>3 DEF SInv, ClientTypeOK, storeVars, userVars

\* The holder is answered, those that wait are sent again.
LEMMA RetryAllStep == ASSUME SInv, NEW c \in Calls, RetryAll(c) PROVE SInv'
<1> USE DEF RetryAll, SInv, ClientTypeOK
<1>1. callAt' \in [Calls -> CallSteps] /\ answers' \in [Calls -> Nat]
  BY DEF CallSteps
<1>2. local' \in [Calls -> Locals]
  BY NoLocalIs DEF Locals
<1>3. c \in Refreshers
  BY DEF Refreshers
<1>4. Refreshers' = {}
  <2>1. ASSUME NEW d \in Calls, callAt'[d] \in RefreshSteps PROVE FALSE
    <3>1. d # c /\ d \notin parked /\ callAt[d] \in RefreshSteps
      BY <2>1 DEF RefreshSteps
    <3>2. d \in Refreshers
      BY <3>1 DEF Refreshers, RefreshSteps
    <3> QED
      BY <3>1, <3>2, <1>3 DEF HolderOK
  <2> QED
    BY <2>1 DEF Refreshers, RefreshSteps
<1>5. HolderOK' /\ WaitersOK'
  BY <1>4 DEF HolderOK, WaitersOK
<1>6. AnsweredOnce'
  <2>1. \A d \in parked : callAt[d] # "answered"
    BY DEF WaitersOK
  <2> QED
    BY <2>1 DEF AnsweredOnce
<1> QED
  BY <1>1, <1>2, <1>5, <1>6 DEF storeVars, userVars

\* The holder joins its own queue, and holds the flag for good.
LEMMA RetryRefusedStep == ASSUME SInv, NEW c \in Calls, RetryRefused(c) PROVE SInv'
<1> USE DEF RetryRefused, CallGoto, SInv, ClientTypeOK
<1>1. callAt' \in [Calls -> CallSteps] /\ local' \in [Calls -> Locals] /\ parked' \subseteq Calls
  BY NoLocalIs DEF CallSteps
<1>2. Refreshers' = Refreshers /\ c \in Refreshers
  BY DEF Refreshers
<1>3. HolderOK'
  BY <1>2 DEF HolderOK
<1>4. WaitersOK'
  BY <1>2 DEF WaitersOK, HolderOK
<1>5. AnsweredOnce'
  BY DEF AnsweredOnce
<1> QED
  BY <1>1, <1>3, <1>4, <1>5 DEF storeVars, userVars

LEMMA ClearAccessStep == ASSUME SInv, NEW c \in Calls, ClearAccess(c) PROVE SInv'
<1> USE DEF ClearAccess
<1>1. callAt[c] \in RefreshSteps \ {"behind"} /\ "forget" \in RefreshSteps \ {"behind"}
  BY DEF RefreshSteps
<1>2. callAt' \in [Calls -> CallSteps] /\ HolderOK' /\ WaitersOK' /\ AnsweredOnce'
  BY <1>1, HolderStep
<1> QED
  BY <1>2 DEF SInv, ClientTypeOK, Tokens, userVars

LEMMA ForgetRefreshStep == ASSUME SInv, NEW c \in Calls, ForgetRefresh(c) PROVE SInv'
<1> USE DEF ForgetRefresh
<1>1. callAt[c] \in RefreshSteps \ {"behind"}
  BY DEF RefreshSteps
<1> QED
  BY <1>1, FailAllStep, FirstSignIn DEF SInv, ClientTypeOK, userVars

-----------------------------------------------------------------------------
(* What happens around the interceptor                                       *)

LEMMA UserStep ==
  ASSUME SInv, SignOut \/ Revoke \/ SignOutClears \/ SignIn
  PROVE  SInv'
<1> USE FirstSignIn DEF SInv, ClientTypeOK, Tokens
<1>1. HolderOK' /\ WaitersOK' /\ AnsweredOnce'
  BY QuietStep DEF SignOut, Revoke, SignOutClears, SignIn
<1>2. CASE SignOut
  BY <1>1, <1>2 DEF SignOut, storeVars
<1>3. CASE Revoke
  BY <1>1, <1>3 DEF Revoke, storeVars
<1>4. CASE SignOutClears
  BY <1>1, <1>4 DEF SignOutClears
<1>5. CASE SignIn
  <2>1. signIns' \in 1 .. MaxSignIns /\ signIns \in Refreshes
    BY <1>5, SignInsAssumption DEF SignIn, Refreshes
  <2> QED
    BY <1>1, <1>5, <2>1 DEF SignIn
<1> QED
  BY <1>2, <1>3, <1>4, <1>5

LEMMA ExpireStep == ASSUME SInv, Expire PROVE SInv'
<1>1. HolderOK' /\ WaitersOK' /\ AnsweredOnce'
  BY QuietStep DEF Expire
<1>2. \A t \in Tokens : Aged(t) \in Tokens
  BY DEF Aged, Tokens
<1>3. storedAccess' \in Tokens /\ local' \in [Calls -> Locals]
  BY <1>2 DEF SInv, ClientTypeOK, Locals, Expire
<1>4. expiries' \in 0 .. MaxExpiries
  <2>1. expiries \in 0 .. MaxExpiries /\ expiries < MaxExpiries /\ expiries' = expiries + 1
    BY DEF SInv, ClientTypeOK, Expire
  <2> QED
    BY <2>1, ExpiriesAssumption
<1>5. ended' \subseteq Refreshes
  <2>1. ended \subseteq Refreshes /\ 1 .. signIns \subseteq Refreshes
    BY SignInsAssumption DEF SInv, ClientTypeOK, Refreshes
  <2>2. ended' = ended \/ ended' = 1 .. signIns
    BY DEF Expire
  <2> QED
    BY <2>1, <2>2
<1> QED
  BY <1>1, <1>3, <1>4, <1>5 DEF SInv, ClientTypeOK, Expire

LEMMA RestartStep == ASSUME SInv, Restart PROVE SInv'
<1> USE DEF Restart, SInv, ClientTypeOK
<1>1. callAt' \in [Calls -> CallSteps] /\ local' \in [Calls -> Locals]
  BY NoLocalIs DEF CallSteps
<1>2. Refreshers' = {}
  BY DEF Refreshers
<1>3. HolderOK' /\ WaitersOK' /\ AnsweredOnce'
  BY <1>2 DEF HolderOK, WaitersOK, AnsweredOnce
<1> QED
  BY <1>1, <1>3, FirstSignIn DEF storeVars

LEMMA ClientNextInv == SInv /\ [ClientNext]_clientVars => SInv'
<1> SUFFICES ASSUME SInv, [ClientNext]_clientVars PROVE SInv'
  OBVIOUS
<1>1. CASE UNCHANGED clientVars
  BY <1>1, QuietStep DEF clientVars, storeVars, userVars, SInv, ClientTypeOK
<1>2. ASSUME NEW c \in Calls, CallStep(c) PROVE SInv'
  BY <1>2, DispatchStep, ReplyStep, RefuseStep, UnauthorizedStep, ReadRefreshStep, GrantStep,
     GiveUpStep, StoreAccessStep, RetryCallStep, RetryAllStep, RetryRefusedStep, ClearAccessStep,
     ForgetRefreshStep DEF CallStep
<1>3. ASSUME NEW c \in Calls, Dispatch(c) PROVE SInv'
  BY <1>3, DispatchStep
<1>4. NextCall \subseteq Calls
  BY DEF NextCall
<1> QED
  BY <1>1, <1>2, <1>3, <1>4, UserStep, ExpireStep, RestartStep DEF ClientNext

LEMMA ClientInductive == ClientSpec => []SInv
  BY ClientInitInv, ClientNextInv, PTL DEF ClientSpec

\* The store, the flag and the queue of the interceptor keep their shape.
THEOREM ClientTypes == ClientSpec => []ClientTypeOK
<1>1. SInv => ClientTypeOK
  BY DEF SInv
<1> QED
  BY <1>1, ClientInductive, PTL

\* However many calls are refused at once, one of them refreshes the token,
\* and no path through _AuthInterceptor.onError leaves another one in a queue
\* that nobody is going to empty.
THEOREM QueueNeverOrphaned == ClientSpec => []QueueHasRefresher
<1>1. SInv => QueueHasRefresher
  BY DEF SInv, HolderOK, WaitersOK, QueueHasRefresher
<1> QED
  BY <1>1, ClientInductive, PTL

\* _retryAll and _failAll complete no handler that was completed before.
THEOREM EveryAnswerOnce == ClientSpec => []AnsweredOnce
<1>1. SInv => AnsweredOnce
  BY DEF SInv
<1> QED
  BY <1>1, ClientInductive, PTL
=============================================================================
