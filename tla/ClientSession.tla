---------------------------- MODULE ClientSession ----------------------------
(***************************************************************************)
(* The session of the mobile application: the token store of AuthService,  *)
(* the interceptor of ApiClient through which every call goes, and the     *)
(* user who signs in and out meanwhile.  The first call that is refused    *)
(* with 401 asks for a new access token; the others wait in the            *)
(* interceptor's queue until it has sent them again or rejected them.      *)
(*                                                                         *)
(* The application has one thread: a step runs from one await to the next. *)
(* An access token is "live" or "dead" (expired), a refresh token is the   *)
(* number of the sign-in that issued it, 0 for none.                       *)
(***************************************************************************)
EXTENDS Naturals, FiniteSets

CONSTANTS
  Calls,       \* calls of the application, each made once
  MaxSignIns,  \* bound on the sign-ins, the one of the initial session included
  MaxExpiries  \* bound on how often the access tokens issued so far expire

ASSUME SignInsAssumption == MaxSignIns \in Nat \ {0}
ASSUME ExpiriesAssumption == MaxExpiries \in Nat

VARIABLES
  storedAccess,  \* keyAccessToken
  storedRefresh, \* keyRefreshToken
  loggedIn,      \* keyIsLoggedIn
  ended,         \* refresh tokens revoked or expired on the server
  signIns,       \* sign-ins so far
  expiries,      \* expiries so far
  account,       \* next step of the user's sign-in or sign-out
  leaving,       \* the refresh token it revokes
  refreshing,    \* _isRefreshing
  parked,        \* calls in _queue
  callAt,        \* next step of each call
  local,         \* the header it was sent with and the variables of its onError
  answers        \* history: how often its caller was answered

storeVars  == <<storedAccess, storedRefresh, loggedIn>>
userVars   == <<ended, signIns, expiries, account, leaving>>
clientVars == <<storeVars, userVars, refreshing, parked, callAt, local, answers>>

Tokens    == {"none", "live", "dead"}
Refreshes == 0 .. MaxSignIns
CallSteps == {"idle", "sent", "refused", "parked", "read", "ask", "store", "retry", "retried",
              "behind", "clear", "forget", "resend", "answered", "lost"}
Locals    == [header : Tokens, held : Refreshes, granted : Tokens]
NoLocal   == [header |-> "none", held |-> 0, granted |-> "none"]

\* Calls whose onError holds _isRefreshing; "behind" is one that waits for a
\* retry which waits in the queue itself.
Refreshers == {c \in Calls : callAt[c] \in {"read", "ask", "store", "retry", "retried",
                                            "behind", "clear", "forget"}}

\* The user has signed in.
ClientInit ==
  /\ storedAccess = "live" /\ storedRefresh = 1 /\ loggedIn = TRUE
  /\ ended = {} /\ signIns = 1 /\ expiries = 0
  /\ account = "rest" /\ leaving = 0
  /\ refreshing = FALSE /\ parked = {}
  /\ callAt = [c \in Calls |-> "idle"]
  /\ local = [c \in Calls |-> NoLocal]
  /\ answers = [c \in Calls |-> 0]

CallGoto(c, step) == callAt' = [callAt EXCEPT ![c] = step]

\* onRequest: the stored token, or the header the call has already.
Header(c) == IF storedAccess = "none" THEN local[c].header ELSE storedAccess

Dispatch(c) ==
  /\ callAt[c] \in {"idle", "resend"}
  /\ local' = [local EXCEPT ![c].header = Header(c)]
  /\ CallGoto(c, "sent")
  /\ UNCHANGED <<storeVars, userVars, refreshing, parked, answers>>

-----------------------------------------------------------------------------
(* onError                                                                   *)

\* The callers of calls ds get their answer.
Answered(ds) ==
  /\ callAt' = [c \in Calls |-> IF c \in ds THEN "answered" ELSE callAt[c]]
  /\ local' = [c \in Calls |-> IF c \in ds THEN NoLocal ELSE local[c]]
  /\ answers' = [c \in Calls |-> IF c \in ds THEN answers[c] + 1 ELSE answers[c]]

\* An answer other than 401, an error or a timeout goes to the caller.
Reply(c) ==
  /\ callAt[c] = "sent" /\ Answered({c})
  /\ UNCHANGED <<storeVars, userVars, refreshing, parked>>

\* get_current_user: no token, or one that has expired.  The header is
\* written again before the call is sent again.
Refuse(c) ==
  /\ callAt[c] = "sent" /\ local[c].header # "live"
  /\ local' = [local EXCEPT ![c] = NoLocal]
  /\ CallGoto(c, "refused")
  /\ UNCHANGED <<storeVars, userVars, refreshing, parked, answers>>

Unauthorized(c) ==
  /\ callAt[c] = "refused"
  /\ IF refreshing THEN parked' = parked \cup {c} /\ CallGoto(c, "parked") /\ UNCHANGED refreshing
                   ELSE refreshing' = TRUE /\ CallGoto(c, "read") /\ UNCHANGED parked
  /\ UNCHANGED <<storeVars, userVars, local, answers>>

\* Variant: _failAll leaves the queue as it was.
FailAllKeeps(c) ==
  Answered(parked \cup {c}) /\ refreshing' = FALSE /\ UNCHANGED parked

\* _failAll, handler.next(err) and the finally clause.
FailAll(c) ==
  Answered(parked \cup {c}) /\ parked' = {} /\ refreshing' = FALSE

\* Variant: without a refresh token only the call itself is rejected.
ReadRefreshAlone(c) ==
  /\ callAt[c] = "read"
  /\ IF storedRefresh = 0
       THEN Answered({c}) /\ refreshing' = FALSE /\ UNCHANGED parked
       ELSE /\ local' = [local EXCEPT ![c].held = storedRefresh] /\ CallGoto(c, "ask")
            /\ UNCHANGED <<refreshing, parked, answers>>
  /\ UNCHANGED <<storeVars, userVars>>

\* Variant: the early return does not reset the flag.
ReadRefreshStuck(c) ==
  /\ callAt[c] = "read"
  /\ IF storedRefresh = 0
       THEN Answered({c}) /\ UNCHANGED <<refreshing, parked>>
       ELSE /\ local' = [local EXCEPT ![c].held = storedRefresh] /\ CallGoto(c, "ask")
            /\ UNCHANGED <<refreshing, parked, answers>>
  /\ UNCHANGED <<storeVars, userVars>>

ReadRefresh(c) ==
  /\ callAt[c] = "read"
  /\ IF storedRefresh = 0
       THEN FailAll(c)
       ELSE /\ local' = [local EXCEPT ![c].held = storedRefresh] /\ CallGoto(c, "ask")
            /\ UNCHANGED <<refreshing, parked, answers>>
  /\ UNCHANGED <<storeVars, userVars>>

\* refresh_access_token: the refresh token is neither revoked nor expired.
Grant(c) ==
  /\ callAt[c] = "ask" /\ local[c].held \notin ended
  /\ local' = [local EXCEPT ![c] = [NoLocal EXCEPT !.granted = "live"]]
  /\ CallGoto(c, "store")
  /\ UNCHANGED <<storeVars, userVars, refreshing, parked, answers>>

\* A refusal, an error or a timeout of /auth/refresh; any answer to the retry
\* that is an error but not 401, and a body that cannot be sent twice, end in
\* the same catch clause.
GiveUp(c) ==
  /\ callAt[c] \in {"ask", "retried"} /\ CallGoto(c, "clear")
  /\ local' = [local EXCEPT ![c] = NoLocal]
  /\ UNCHANGED <<storeVars, userVars, refreshing, parked, answers>>

StoreAccess(c) ==
  /\ callAt[c] = "store" /\ storedAccess' = local[c].granted
  /\ CallGoto(c, "retry")
  /\ UNCHANGED <<storedRefresh, loggedIn, userVars, refreshing, parked, local, answers>>

\* The retry goes through onRequest, which takes the stored token again.
RetryCall(c) ==
  /\ callAt[c] = "retry"
  /\ local' = [local EXCEPT ![c].header = IF storedAccess = "none" THEN local[c].granted
                                          ELSE storedAccess]
  /\ CallGoto(c, "retried")
  /\ UNCHANGED <<storeVars, userVars, refreshing, parked, answers>>

\* _retryAll sends the queue again, each with the new token in its header.
RetryAll(c) ==
  /\ callAt[c] = "retried"
  /\ callAt' = [d \in Calls |-> IF d = c THEN "answered"
                                ELSE IF d \in parked THEN "resend" ELSE callAt[d]]
  /\ local' = [d \in Calls |-> IF d = c THEN NoLocal
                               ELSE IF d \in parked THEN [NoLocal EXCEPT !.header = local[c].granted]
                               ELSE local[d]]
  /\ answers' = [answers EXCEPT ![c] = @ + 1]
  /\ parked' = {} /\ refreshing' = FALSE
  /\ UNCHANGED <<storeVars, userVars>>

\* A retry refused with 401 finds _isRefreshing set, by its own call: it joins
\* the queue that only its call empties.
RetryRefused(c) ==
  /\ callAt[c] = "retried" /\ local[c].header # "live"
  /\ parked' = parked \cup {c} /\ CallGoto(c, "behind")
  /\ local' = [local EXCEPT ![c] = NoLocal]
  /\ UNCHANGED <<storeVars, userVars, refreshing, answers>>

\* AuthService.logout of a refresh that failed.
ClearAccess(c) ==
  /\ callAt[c] = "clear" /\ storedAccess' = "none"
  /\ CallGoto(c, "forget")
  /\ UNCHANGED <<storedRefresh, loggedIn, userVars, refreshing, parked, local, answers>>

ForgetRefresh(c) ==
  /\ callAt[c] = "forget" /\ storedRefresh' = 0 /\ loggedIn' = FALSE
  /\ FailAll(c)
  /\ UNCHANGED <<storedAccess, userVars>>

-----------------------------------------------------------------------------
(* The user, the clock and the system                                        *)

SignOut ==
  /\ account = "rest"
  /\ leaving' = storedRefresh
  /\ account' = IF storedRefresh = 0 THEN "clear" ELSE "revoke"
  /\ UNCHANGED <<storeVars, ended, signIns, expiries, refreshing, parked, callAt, local, answers>>

\* logout_user, best effort.
Revoke ==
  /\ account = "revoke" /\ account' = "clear" /\ leaving' = 0
  /\ ended' \in {ended, ended \cup {leaving}}
  /\ UNCHANGED <<storeVars, signIns, expiries, refreshing, parked, callAt, local, answers>>

SignOutClears ==
  /\ \/ account = "clear" /\ account' = "forget"
        /\ storedAccess' = "none" /\ UNCHANGED <<storedRefresh, loggedIn>>
     \/ account = "forget" /\ account' = "rest"
        /\ storedRefresh' = 0 /\ loggedIn' = FALSE /\ UNCHANGED storedAccess
  /\ UNCHANGED <<ended, signIns, expiries, leaving, refreshing, parked, callAt, local, answers>>

\* login_user, and saveLoginData with an await after each key.
SignIn ==
  /\ \/ account = "rest" /\ ~loggedIn /\ signIns < MaxSignIns /\ account' = "keep"
        /\ signIns' = signIns + 1 /\ storedAccess' = "live" /\ UNCHANGED <<storedRefresh, loggedIn>>
     \/ account = "keep" /\ account' = "rest"
        /\ storedRefresh' = signIns /\ loggedIn' = TRUE /\ UNCHANGED <<signIns, storedAccess>>
  /\ UNCHANGED <<ended, expiries, leaving, refreshing, parked, callAt, local, answers>>

Aged(t) == IF t = "live" THEN "dead" ELSE t

\* A day or a week passes: the access tokens issued so far are refused from
\* now on, or the refresh tokens too.
Expire ==
  /\ expiries < MaxExpiries /\ expiries' = expiries + 1
  /\ storedAccess' = Aged(storedAccess)
  /\ ended' \in {ended, 1 .. signIns}
  /\ local' = [c \in Calls |-> [local[c] EXCEPT !.header = Aged(@), !.granted = Aged(@)]]
  /\ UNCHANGED <<storedRefresh, loggedIn, signIns, account, leaving, refreshing, parked,
                 callAt, answers>>

\* The system ends the application: the preferences stay; calls, answered or
\* not, and queue are gone.
Restart ==
  /\ account # "rest" \/ \E c \in Calls : callAt[c] \notin {"idle", "answered", "lost"}
  /\ callAt' = [c \in Calls |-> IF callAt[c] = "idle" THEN "idle" ELSE "lost"]
  /\ local' = [c \in Calls |-> NoLocal] /\ answers' = [c \in Calls |-> 0]
  /\ refreshing' = FALSE /\ parked' = {} /\ account' = "rest" /\ leaving' = 0
  /\ UNCHANGED <<storeVars, ended, signIns, expiries>>

CallStep(c) ==
  \/ callAt[c] = "resend" /\ Dispatch(c)
  \/ Reply(c) \/ Refuse(c) \/ Unauthorized(c)
  \/ ReadRefresh(c) \/ Grant(c) \/ GiveUp(c) \/ StoreAccess(c)
  \/ RetryCall(c) \/ RetryAll(c) \/ RetryRefused(c)
  \/ ClearAccess(c) \/ ForgetRefresh(c)

\* Calls are alike: one of those not made yet stands for all.
NextCall == LET idle == {c \in Calls : callAt[c] = "idle"} IN
            IF idle = {} THEN {} ELSE {CHOOSE c \in idle : TRUE}

ClientNext ==
  \/ \E c \in Calls : CallStep(c)
  \/ \E c \in NextCall : Dispatch(c)
  \/ SignOut \/ Revoke \/ SignOutClears \/ SignIn \/ Expire \/ Restart

ClientSpec == ClientInit /\ [][ClientNext]_clientVars

\* The event loop runs what is ready, and Dio ends a call that gets no answer
\* (connectTimeout and receiveTimeout, 30 s).
ClientFairness == \A c \in Calls : WF_clientVars(CallStep(c))
ClientLiveSpec == ClientSpec /\ ClientFairness

-----------------------------------------------------------------------------
\* The store, the interceptor and the calls keep their shape.
ClientTypeOK ==
  /\ storedAccess \in Tokens /\ storedRefresh \in Refreshes /\ loggedIn \in BOOLEAN
  /\ ended \subseteq Refreshes /\ signIns \in 1 .. MaxSignIns /\ expiries \in 0 .. MaxExpiries
  /\ account \in {"rest", "revoke", "clear", "forget", "keep"} /\ leaving \in Refreshes
  /\ refreshing \in BOOLEAN /\ parked \subseteq Calls
  /\ callAt \in [Calls -> CallSteps] /\ local \in [Calls -> Locals] /\ answers \in [Calls -> Nat]

\* One call at a time refreshes the token, and a call that waits in the queue
\* waits for one that does: no path of onError leaves calls behind in a queue
\* that nobody is going to empty.
QueueHasRefresher ==
  /\ \A c, d \in Refreshers : c = d
  /\ parked # {} => Refreshers # {}
  /\ \A c \in Calls : callAt[c] = "parked" => c \in parked

\* However often a call was refused, parked, sent again or rejected with the
\* others, its handler is completed once (Dio throws when it is completed again).
AnsweredOnce ==
  \A c \in Calls : answers[c] = IF callAt[c] = "answered" THEN 1 ELSE 0

\* Every call that was made is answered, unless a retry waits behind its own
\* call.
CallsSettle ==
  <>[](\/ \A c \in Calls : callAt[c] \in {"idle", "answered", "lost"}
       \/ \E c \in Calls : callAt[c] = "behind")
=============================================================================
