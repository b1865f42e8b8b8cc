----------------------------- MODULE ChatThread -----------------------------
(***************************************************************************)
(* The chat of one booking between its driver and its passenger            *)
(* (backend/app/modules/chat).  A thread row caches whether the chat is    *)
(* locked and how many messages it has; every request that needs the lock  *)
(* recomputes it from the ride and the booking, which other endpoints      *)
(* change meanwhile.  The sessions do not flush before a commit            *)
(* (autoflush=False), so a request works on its own copy of the row up to  *)
(* the commit and then writes the columns it changed.                      *)
(***************************************************************************)
EXTENDS Integers, FiniteSets

CONSTANTS
  ThreadIds,    \* primary keys of chat_threads: bound the rows
  ChatSessions, \* requests: each serves one operation and is then "done"
  ChatOps,      \* the operations they perform, a subset of AllChatOps
  MaxMoves,     \* bound on the changes of the ride's status
  NoThread

AllChatOps == {"ensure", "post", "legacyPost", "read", "mark", "list"}

ASSUME ChatOpsAssumption == ChatOps \subseteq AllChatOps
ASSUME ChatSessionsAssumption == IsFiniteSet(ChatSessions)
ASSUME MovesAssumption == MaxMoves \in Nat
ASSUME NoThreadAssumption == NoThread \notin ThreadIds

VARIABLES
  rideState,    \* rides.status, "" once the row is deleted
  bookingState, \* ride_bookings.status: "booked" stands for those that may send
  thread,       \* rows of chat_threads for the booking
  message,      \* the row of chat_thread_messages each session has inserted
  chatAt,       \* next statement of each session
  chat,         \* its local variables
  moves,        \* how often the ride's status has changed
  late          \* history: sessions for which the chat was never open so far

chatTables == <<rideState, bookingState, thread, message>>
chatVars   == <<chatTables, chatAt, chat, moves, late>>

Parties == {"driver", "passenger"}
RideStates == {"open", "in_progress", "completed", "cancelled", ""}
BookingStates == {"booked", "cancelled", ""}
LockReasons == {"", "ride_completed", "ride_cancelled", "booking_cancelled", "booking_missing"}

\* A key is used once: a deleted row leaves "deleted".
ThreadRows == [status : {"unused", "active", "locked", "deleted"}, reason : LockReasons, count : Nat]
NoRowYet == [status |-> "unused", reason |-> "", count |-> 0]

ChatSteps == {"idle", "find", "insert", "load", "ride", "booking", "commit", "refresh", "done"}
\* `ride`, `booking`: the statuses the request has read; `copy` the thread row
\* as loaded; `fresh`: the row is the request's own INSERT, not committed yet.
Chats == [op : AllChatOps \cup {NoThread}, who : Parties, thread : ThreadIds \cup {NoThread},
          copy : ThreadRows, ride : RideStates, booking : BookingStates, fresh : BOOLEAN]
NoChat == [op |-> NoThread, who |-> "driver", thread |-> NoThread, copy |-> NoRowYet,
           ride |-> "", booking |-> "", fresh |-> FALSE]
Messages == [by : Parties \cup {NoThread}, thread : ThreadIds \cup {NoThread}, read : BOOLEAN]
NoMessage == [by |-> NoThread, thread |-> NoThread, read |-> FALSE]

-----------------------------------------------------------------------------
\* compute_lock_state
LockReason(r, b) ==
  CASE r = "completed" -> "ride_completed"
    [] r = "cancelled" -> "ride_cancelled"
    [] b = "cancelled" -> "booking_cancelled"
    [] b = ""          -> "booking_missing"
    [] OTHER           -> ""
CanSend(r, b) == LockReason(r, b) = "" /\ r \in {"open", "in_progress"}

Rows == {k \in ThreadIds : thread[k].status \in {"active", "locked"}}
FreshThreads == LET free == {k \in ThreadIds : thread[k].status = "unused"} IN
                IF free = {} THEN {} ELSE {CHOOSE k \in free : TRUE}
Said(k) == {s \in ChatSessions : message[s].thread = k}

ChatInit ==
  /\ rideState = "open" /\ bookingState = "booked"
  /\ thread = [k \in ThreadIds |-> NoRowYet]
  /\ message = [s \in ChatSessions |-> NoMessage]
  /\ chatAt = [s \in ChatSessions |-> "idle"]
  /\ chat = [s \in ChatSessions |-> NoChat]
  /\ moves = 0 /\ late = {}

ChatGoto(s, step) == chatAt' = [chatAt EXCEPT ![s] = step]
ChatReturn(s) == ChatGoto(s, "done") /\ chat' = [chat EXCEPT ![s] = NoChat]

\* Endpoints keyed by ride resolve the thread first, the others load it by id.
BeginChat(s, op, who) ==
  /\ op \in ChatOps /\ chatAt[s] = "idle"
  /\ op \in {"ensure", "list"} => who = "driver"   \* who asks makes no difference
  /\ chat' = [chat EXCEPT ![s] = [NoChat EXCEPT !.op = op, !.who = who]]
  /\ ChatGoto(s, IF op \in {"ensure", "legacyPost"} THEN "find" ELSE "load")
  /\ late' = IF CanSend(rideState, bookingState) THEN late ELSE late \cup {s}
  /\ UNCHANGED <<chatTables, moves>>

\* _resolve_thread_for_context: the ride, the booking and the lookup of the
\* thread.  The session keeps this copy of the ride: sync_thread_lock_state
\* gets it again.
FindThread(s) ==
  /\ chatAt[s] = "find"
  /\ IF rideState = "" THEN ChatReturn(s)
     ELSE IF Rows = {}
       THEN ChatGoto(s, "insert") /\ chat' = [chat EXCEPT ![s].ride = rideState]
       ELSE \E k \in Rows :
              /\ chat' = [chat EXCEPT ![s].ride = rideState, ![s].thread = k, ![s].copy = thread[k]]
              /\ ChatGoto(s, "booking")
  /\ UNCHANGED <<chatTables, moves, late>>

\* Variant: no unique index.
InsertThreadTwice(s) ==
  /\ chatAt[s] = "insert"
  /\ \E k \in ThreadIds : /\ thread[k].status = "unused" /\ \A t \in ChatSessions : chat[t].thread # k
                          /\ chat' = [chat EXCEPT ![s].thread = k, ![s].fresh = TRUE]
  /\ ChatGoto(s, "booking")
  /\ UNCHANGED <<chatTables, moves, late>>

\* Variant: it waits for the row to go away.
InsertThreadWaits(s) ==
  /\ chatAt[s] = "insert" /\ Rows = {}
  /\ \A t \in ChatSessions : ~chat[t].fresh
  /\ \E k \in FreshThreads : chat' = [chat EXCEPT ![s].thread = k, ![s].fresh = TRUE]
  /\ ChatGoto(s, "booking")
  /\ UNCHANGED <<chatTables, moves, late>>

\* The flushed INSERT waits, in the unique index, for that of another session
\* to be committed or undone, and fails when the row exists or its ride does
\* not (ensure_thread does not catch it).
InsertThread(s) ==
  /\ chatAt[s] = "insert"
  /\ \A t \in ChatSessions : ~chat[t].fresh
  /\ IF Rows # {} \/ rideState = "" \/ FreshThreads = {}
       THEN ChatReturn(s)
       ELSE \E k \in FreshThreads :
              /\ chat' = [chat EXCEPT ![s].thread = k, ![s].fresh = TRUE]
              /\ ChatGoto(s, "booking")
  /\ UNCHANGED <<chatTables, moves, late>>

\* _thread_or_404
LoadThread(s) ==
  /\ chatAt[s] = "load"
  /\ IF Rows = {} THEN ChatReturn(s)
     ELSE \E k \in Rows :
            /\ chat' = [chat EXCEPT ![s].thread = k, ![s].copy = thread[k]]
            /\ ChatGoto(s, IF chat[s].op = "mark" THEN "commit" ELSE "ride")
  /\ UNCHANGED <<chatTables, moves, late>>

\* Variant: the row's own status decides.
TrustCache(s) ==
  /\ chatAt[s] = "ride"
  /\ chat' = [chat EXCEPT ![s].ride = IF chat[s].copy.status = "active" THEN "open" ELSE "completed",
                          ![s].booking = "booked"]
  /\ ChatGoto(s, "commit")
  /\ UNCHANGED <<chatTables, moves, late>>

\* sync_thread_lock_state: two queries, neither of which locks a row.
ReadRide(s) ==
  /\ chatAt[s] = "ride"
  /\ chat' = [chat EXCEPT ![s].ride = rideState]
  /\ ChatGoto(s, "booking")
  /\ UNCHANGED <<chatTables, moves, late>>

ReadBooking(s) ==
  /\ chatAt[s] = "booking"
  /\ chat' = [chat EXCEPT ![s].booking = bookingState]
  /\ ChatGoto(s, "commit")
  /\ UNCHANGED <<chatTables, moves, late>>

\* The columns of the row this request has changed on its copy.
Synced(row, s) ==
  LET reason == LockReason(chat[s].ride, chat[s].booking)
      next == IF reason = "" THEN "active" ELSE "locked" IN
  [row EXCEPT !.status = IF next = chat[s].copy.status THEN @ ELSE next,
              !.reason = IF reason = chat[s].copy.reason THEN @ ELSE reason]

Gone(s) == thread[chat[s].thread].status = "deleted"

\* The commit of ensure and list: the row inserted or synchronized, unless it
\* was deleted with its ride meanwhile.
CommitSync(s) ==
  LET k == chat[s].thread IN
  /\ chatAt[s] = "commit" /\ chat[s].op \in {"ensure", "legacyPost", "list"}
  /\ IF Gone(s)
       THEN UNCHANGED thread /\ ChatReturn(s)
       ELSE /\ thread' = [thread EXCEPT ![k] = Synced(@, s)]
            /\ IF chat[s].op = "legacyPost"
                 THEN ChatGoto(s, "refresh") /\ chat' = [chat EXCEPT ![s].fresh = FALSE]
                 ELSE ChatReturn(s)
  /\ UNCHANGED <<rideState, bookingState, message, moves, late>>

\* db.refresh(thread), whose copy the send that follows goes on with.
Refresh(s) ==
  /\ chatAt[s] = "refresh"
  /\ IF Gone(s) THEN ChatReturn(s)
     ELSE /\ chat' = [chat EXCEPT ![s].copy = thread[chat[s].thread], ![s].op = "post"]
          /\ ChatGoto(s, "ride")
  /\ UNCHANGED <<chatTables, moves, late>>

\* Variant: the count of the copy is written back as it was.
CountedBefore(row, s) == [row EXCEPT !.count = chat[s].copy.count]

\* create_thread_message counts on its own copy.
Counted(row, s) == [row EXCEPT !.count = chat[s].copy.count + 1]

\* send_thread_message: refused, with its changes to the row rolled back, or
\* the message and the row in one commit.
CommitPost(s) ==
  LET k == chat[s].thread IN
  /\ chatAt[s] = "commit" /\ chat[s].op = "post"
  /\ IF Gone(s) \/ ~CanSend(chat[s].ride, chat[s].booking)
       THEN UNCHANGED <<thread, message>>
       ELSE /\ message' = [message EXCEPT ![s] = [by |-> chat[s].who, thread |-> k, read |-> FALSE]]
            /\ thread' = [thread EXCEPT ![k] = Counted(Synced(@, s), s)]
  /\ ChatReturn(s)
  /\ UNCHANGED <<rideState, bookingState, moves, late>>

\* mark_thread_messages_read, with the synchronized row when the whole
\* conversation is read.
CommitRead(s) ==
  LET k == chat[s].thread IN
  /\ chatAt[s] = "commit" /\ chat[s].op \in {"read", "mark"}
  /\ message' = [t \in ChatSessions |->
                   IF message[t].thread = k /\ message[t].by # chat[s].who
                     THEN [message[t] EXCEPT !.read = TRUE] ELSE message[t]]
  /\ thread' = IF chat[s].op = "mark" \/ Gone(s) THEN thread
               ELSE [thread EXCEPT ![k] = Synced(@, s)]
  /\ ChatReturn(s)
  /\ UNCHANGED <<rideState, bookingState, moves, late>>

-----------------------------------------------------------------------------
(* What the ride and booking endpoints do (RideBooking has their steps).     *)

Stays(r, b) == late' = IF CanSend(r, b) THEN {} ELSE late

\* v1's transitions, and the v2 patch, which also reopens a ride.
MoveRide(new) ==
  /\ moves < MaxMoves /\ moves' = moves + 1
  /\ rideState # "" /\ new # rideState
  /\ \/ <<rideState, new>> \in {<<"open", "in_progress">>, <<"open", "cancelled">>,
                                <<"in_progress", "completed">>}
     \/ new = "open"
  /\ rideState' = new /\ Stays(new, bookingState)
  /\ UNCHANGED <<bookingState, thread, message, chatAt, chat>>

CancelBooking ==
  /\ bookingState = "booked" /\ bookingState' = "cancelled" /\ Stays(rideState, "cancelled")
  /\ UNCHANGED <<rideState, thread, message, chatAt, chat, moves>>

\* Once no booking is active; booking, thread and messages go by cascade.  An
\* INSERT that is not committed yet holds its ride's row (foreign key).
DeleteRide ==
  /\ rideState # "" /\ bookingState = "cancelled" /\ \A s \in ChatSessions : ~chat[s].fresh
  /\ rideState' = "" /\ bookingState' = "" /\ Stays("", "")
  /\ thread' = [k \in ThreadIds |-> IF k \in Rows THEN [NoRowYet EXCEPT !.status = "deleted"]
                                    ELSE thread[k]]
  /\ message' = [s \in ChatSessions |-> NoMessage]
  /\ UNCHANGED <<chatAt, chat, moves>>

ChatStep(s) ==
  /\ chatAt[s] \notin {"idle", "done"}
  /\ \/ FindThread(s) \/ InsertThread(s) \/ LoadThread(s)
     \/ ReadRide(s) \/ ReadBooking(s)
     \/ CommitSync(s) \/ Refresh(s) \/ CommitPost(s) \/ CommitRead(s)

ChatNext ==
  \/ \E s \in ChatSessions :
       ChatStep(s) \/ \E op \in ChatOps, who \in Parties : BeginChat(s, op, who)
  \/ \E new \in RideStates \ {""} : MoveRide(new)
  \/ CancelBooking \/ DeleteRide

ChatSpec == ChatInit /\ [][ChatNext]_chatVars

\* A request that was begun is carried on.
ChatFairness == \A s \in ChatSessions : WF_chatVars(ChatStep(s))
ChatLiveSpec == ChatSpec /\ ChatFairness

-----------------------------------------------------------------------------
\* Rows and requests keep the shape the models give them.
ChatTypeOK ==
  /\ rideState \in RideStates /\ bookingState \in BookingStates
  /\ thread \in [ThreadIds -> ThreadRows]
  /\ message \in [ChatSessions -> Messages]
  /\ chatAt \in [ChatSessions -> ChatSteps]
  /\ chat \in [ChatSessions -> Chats]
  /\ moves \in 0 .. MaxMoves /\ late \subseteq ChatSessions

\* Driver and passenger who open the chat at the same moment end in one
\* thread, whose messages the other one can see.
OneThread == \A j, k \in Rows : j = k

\* Counting on a stale copy loses messages from the count, but a thread that
\* was talked in is never counted empty (list_threads leaves those out of the
\* history), nor one that was not counted as if it were.
HistoryKeepsTalk ==
  \A k \in Rows : /\ thread[k].count <= Cardinality(Said(k))
                  /\ Said(k) # {} => thread[k].count > 0

\* A request that finds the chat closed when it begins, and closed it stays,
\* adds no message to it, whatever a stale row says of the lock.
ClosedStaysSilent ==
  [][\A s \in late : message'[s].by = NoThread \/ message'[s] = message[s]
                     \/ message[s].by # NoThread]_chatVars

\* No request waits for ever, the loser of the unique index included.
ChatCallsEnd == <>[](\A s \in ChatSessions : chatAt[s] \in {"idle", "done"})
=============================================================================
