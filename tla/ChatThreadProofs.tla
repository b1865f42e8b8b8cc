-------------------------- MODULE ChatThreadProofs --------------------------
(***************************************************************************)
(* Theorems about ChatThread, for any sessions and operations.  The        *)
(* unique index lets one INSERT of a thread be under way, and only while   *)
(* there is no row; a copy of a row never counts more messages than there  *)
(* are; and what a request has read of ride and booking, at two moments,   *)
(* cannot look open when the chat was closed all along.                    *)
(***************************************************************************)
EXTENDS ChatThread, FiniteSetTheorems, TLAPS

Working == {"ride", "booking", "commit", "refresh"}

\* A request at work has a thread: its own INSERT or a row that was there.
NamedOK ==
  \A s \in ChatSessions :
    /\ chatAt[s] \in Working => chat[s].thread \in ThreadIds
    /\ chatAt[s] \in Working /\ ~chat[s].fresh => thread[chat[s].thread].status # "unused"
    /\ chatAt[s] \in {"find", "insert"} => chat[s].op \in {"ensure", "legacyPost"} /\ chat[s].copy = NoRowYet
    /\ chat[s].fresh => /\ chatAt[s] \in {"booking", "commit"} /\ chat[s].op \in {"ensure", "legacyPost"}
                        /\ chat[s].copy = NoRowYet

\* The unique index on the booking.
UniqueOK ==
  /\ \A s \in ChatSessions : chat[s].fresh => Rows = {} /\ thread[chat[s].thread].status = "unused"
  /\ \A s, t \in ChatSessions : chat[s].fresh /\ chat[t].fresh => s = t
  /\ OneThread

CInv == ChatTypeOK /\ NamedOK /\ UniqueOK

LEMMA FreshThreadIs == ASSUME NEW k \in FreshThreads PROVE k \in ThreadIds /\ thread[k].status = "unused"
  BY DEF FreshThreads

LEMMA NoChatFields ==
  /\ NoChat \in Chats /\ NoChat.thread = NoThread /\ NoChat.copy = NoRowYet /\ ~NoChat.fresh
  /\ NoChat.ride = "" /\ NoChat.booking = ""
  BY DEF NoChat, Chats, NoRowYet, ThreadRows, LockReasons, Parties, RideStates, BookingStates

LEMMA NoRowYetFields == NoRowYet \in ThreadRows /\ NoRowYet.status = "unused" /\ NoRowYet.count = 0
  BY DEF NoRowYet, ThreadRows, LockReasons

LEMMA CopyFields == ASSUME NEW c \in Chats PROVE c.copy \in ThreadRows /\ c.copy.count + 1 \in Nat
  BY DEF Chats, ThreadRows

LEMMA OneMoreMove == ASSUME NEW m \in 0 .. MaxMoves, m < MaxMoves PROVE m + 1 \in 0 .. MaxMoves
  BY MovesAssumption

LEMMA NoMoves == 0 \in 0 .. MaxMoves
  BY MovesAssumption

LEMMA ChatInitInv == ChatInit => CInv
<1> SUFFICES ASSUME ChatInit PROVE CInv
  OBVIOUS
<1> USE NoThreadAssumption, NoChatFields DEF ChatInit
<1>1. ChatTypeOK
  <2>1. NoMessage \in Messages
    BY DEF NoMessage, Messages
  <2> QED
    BY <2>1, NoRowYetFields, NoMoves DEF ChatTypeOK, RideStates, BookingStates, ChatSteps
<1>2. NamedOK /\ UniqueOK
  BY DEF NamedOK, UniqueOK, OneThread, Rows, NoRowYet, Working
<1> QED
  BY <1>1, <1>2 DEF CInv

LEMMA ReasonTyped == \A r, b : LockReason(r, b) \in LockReasons
  BY DEF LockReason, LockReasons

\* A synchronized row is a row, and active or locked when it was inserted.
LEMMA SyncedRow ==
  ASSUME NEW row \in ThreadRows, NEW s \in ChatSessions, chat[s] \in Chats
  PROVE  /\ Synced(row, s) \in ThreadRows /\ Synced(row, s).count = row.count
         /\ row.status \in {"active", "locked"} \/ chat[s].copy.status = "unused"
              => Synced(row, s).status \in {"active", "locked"}
<1>1. LockReason(chat[s].ride, chat[s].booking) \in LockReasons
  BY ReasonTyped
<1> QED
  BY <1>1 DEF Synced, ThreadRows

\* A step of a session that changes no row, and no INSERT under way.
LEMMA SessionStep ==
  ASSUME CInv, NEW s \in ChatSessions, NEW step \in ChatSteps, NEW c \in Chats,
         UNCHANGED chatTables, UNCHANGED moves,
         chatAt' = [chatAt EXCEPT ![s] = step], chat' = [chat EXCEPT ![s] = c],
         late' \subseteq ChatSessions,
         step \in Working => c.thread \in ThreadIds,
         step \in Working /\ ~c.fresh => thread[c.thread].status # "unused",
         step \in {"find", "insert"} => c.op \in {"ensure", "legacyPost"} /\ c.copy = NoRowYet,
         c.fresh => /\ step \in {"booking", "commit"} /\ c.op \in {"ensure", "legacyPost"} /\ c.copy = NoRowYet
                    /\ \/ chat[s].fresh /\ chat[s].thread = c.thread
                       \/ /\ Rows = {} /\ thread[c.thread].status = "unused"
                          /\ \A t \in ChatSessions : ~chat[t].fresh
  PROVE  CInv'
<1>1. ChatTypeOK'
  BY DEF CInv, ChatTypeOK, chatTables
<1>2. chat'[s] = c /\ chatAt'[s] = step
      /\ \A t \in ChatSessions : t # s => chat'[t] = chat[t] /\ chatAt'[t] = chatAt[t]
  BY DEF CInv, ChatTypeOK
<1>3. NamedOK'
  BY <1>2 DEF CInv, NamedOK, chatTables
<1>4. UniqueOK'
  BY <1>2 DEF CInv, UniqueOK, OneThread, Rows, chatTables
<1> QED
  BY <1>1, <1>3, <1>4 DEF CInv

LEMMA ReturnStep ==
  ASSUME CInv, NEW s \in ChatSessions, ChatReturn(s), UNCHANGED chatTables, UNCHANGED moves, UNCHANGED late
  PROVE  CInv'
  BY SessionStep, NoChatFields DEF ChatReturn, ChatGoto, ChatSteps, Working, CInv, ChatTypeOK

LEMMA ReadStep ==
  ASSUME CInv, NEW s \in ChatSessions,
         \/ \E op \in ChatOps, who \in Parties : BeginChat(s, op, who)
         \/ FindThread(s) \/ LoadThread(s) \/ ReadRide(s) \/ ReadBooking(s) \/ Refresh(s)
  PROVE  CInv'
<1> USE NoChatFields, ChatOpsAssumption DEF ChatGoto, ChatSteps, Working
<1>0. chat[s] \in Chats /\ late \subseteq ChatSessions /\ rideState \in RideStates
      /\ bookingState \in BookingStates /\ thread \in [ThreadIds -> ThreadRows]
  BY DEF CInv, ChatTypeOK
<1>1. ASSUME NEW op \in ChatOps, NEW who \in Parties, BeginChat(s, op, who) PROVE CInv'
  <2> DEFINE c == [NoChat EXCEPT !.op = op, !.who = who]
  <2>1. c \in Chats /\ ~c.fresh /\ c.op = op /\ c.copy = NoRowYet
    BY DEF Chats
  <2>2. /\ UNCHANGED chatTables /\ UNCHANGED moves /\ chat' = [chat EXCEPT ![s] = c] /\ late' \subseteq ChatSessions
        /\ \/ op \in {"ensure", "legacyPost"} /\ chatAt' = [chatAt EXCEPT ![s] = "find"]
           \/ chatAt' = [chatAt EXCEPT ![s] = "load"]
    BY <1>0, <1>1 DEF BeginChat
  <2> HIDE DEF c
  <2> QED
    BY <2>1, <2>2, SessionStep
<1>2. CASE FindThread(s)
  <2>1. CASE ChatReturn(s)
    BY <1>2, <2>1, ReturnStep DEF FindThread
  <2>2. CASE chatAt' = [chatAt EXCEPT ![s] = "insert"] /\ chat' = [chat EXCEPT ![s].ride = rideState]
    <3> DEFINE c == [chat[s] EXCEPT !.ride = rideState]
    <3>1. c \in Chats /\ ~c.fresh /\ c.op \in {"ensure", "legacyPost"} /\ c.copy = NoRowYet /\ chat' = [chat EXCEPT ![s] = c]
      BY <1>0, <1>2, <2>2 DEF Chats, CInv, NamedOK, FindThread
    <3> HIDE DEF c
    <3> QED
      BY <1>0, <1>2, <2>2, <3>1, SessionStep DEF FindThread
  <2>3. CASE \E k \in Rows :
               /\ chat' = [chat EXCEPT ![s].ride = rideState, ![s].thread = k, ![s].copy = thread[k]]
               /\ ChatGoto(s, "booking")
    <3>1. PICK k \in Rows :
               /\ chat' = [chat EXCEPT ![s].ride = rideState, ![s].thread = k, ![s].copy = thread[k]]
               /\ ChatGoto(s, "booking")
      BY <2>3
    <3> DEFINE c == [chat[s] EXCEPT !.ride = rideState, !.thread = k, !.copy = thread[k]]
    <3>2. /\ c \in Chats /\ ~c.fresh /\ c.thread = k /\ k \in ThreadIds /\ thread[k].status # "unused"
          /\ chat' = [chat EXCEPT ![s] = c]
      BY <1>0, <1>2, <3>1 DEF Chats, CInv, NamedOK, FindThread, Rows
    <3> HIDE DEF c
    <3> QED
      BY <1>0, <1>2, <3>1, <3>2, SessionStep DEF FindThread
  <2> QED
    BY <1>2, <2>1, <2>2, <2>3 DEF FindThread
<1>3. CASE LoadThread(s)
  <2>1. CASE ChatReturn(s)
    BY <1>3, <2>1, ReturnStep DEF LoadThread
  <2>2. CASE \E k \in Rows :
               /\ chat' = [chat EXCEPT ![s].thread = k, ![s].copy = thread[k]]
               /\ ChatGoto(s, IF chat[s].op = "mark" THEN "commit" ELSE "ride")
    <3>1. PICK k \in Rows :
               /\ chat' = [chat EXCEPT ![s].thread = k, ![s].copy = thread[k]]
               /\ ChatGoto(s, IF chat[s].op = "mark" THEN "commit" ELSE "ride")
      BY <2>2
    <3> DEFINE c == [chat[s] EXCEPT !.thread = k, !.copy = thread[k]]
    <3>2. /\ c \in Chats /\ ~c.fresh /\ c.thread = k /\ k \in ThreadIds /\ thread[k].status # "unused"
          /\ chat' = [chat EXCEPT ![s] = c]
      BY <1>0, <1>3, <3>1 DEF Chats, CInv, NamedOK, LoadThread, Rows
    <3> HIDE DEF c
    <3>3. PICK step \in {"commit", "ride"} : chatAt' = [chatAt EXCEPT ![s] = step]
      BY <3>1
    <3> QED
      BY <1>0, <1>3, <3>2, <3>3, SessionStep DEF LoadThread
  <2> QED
    BY <1>3, <2>1, <2>2 DEF LoadThread
<1>4. CASE ReadRide(s)
  <2> DEFINE c == [chat[s] EXCEPT !.ride = rideState]
  <2>1. /\ c \in Chats /\ ~c.fresh /\ c.thread \in ThreadIds /\ thread[c.thread].status # "unused"
        /\ chat' = [chat EXCEPT ![s] = c]
    BY <1>0, <1>4 DEF Chats, CInv, NamedOK, ReadRide
  <2> HIDE DEF c
  <2> QED
    BY <1>0, <1>4, <2>1, SessionStep DEF ReadRide
<1>5. CASE ReadBooking(s)
  <2> DEFINE c == [chat[s] EXCEPT !.booking = bookingState]
  <2>1. /\ c \in Chats /\ c.fresh = chat[s].fresh /\ c.thread = chat[s].thread /\ c.op = chat[s].op
        /\ c.copy = chat[s].copy /\ chat' = [chat EXCEPT ![s] = c]
    BY <1>0, <1>5 DEF Chats, ReadBooking
  <2>2. /\ c.thread \in ThreadIds /\ (~c.fresh => thread[c.thread].status # "unused")
        /\ c.fresh => c.op \in {"ensure", "legacyPost"} /\ c.copy = NoRowYet
    BY <1>5, <2>1 DEF CInv, NamedOK, ReadBooking
  <2> HIDE DEF c
  <2> QED
    BY <1>0, <1>5, <2>1, <2>2, SessionStep DEF ReadBooking
<1>6. CASE Refresh(s)
  <2>1. CASE ChatReturn(s)
    BY <1>6, <2>1, ReturnStep DEF Refresh
  <2>2. CASE chat' = [chat EXCEPT ![s].copy = thread[chat[s].thread], ![s].op = "post"] /\ ChatGoto(s, "ride")
    <3> DEFINE c == [chat[s] EXCEPT !.copy = thread[chat[s].thread], !.op = "post"]
    <3>1. chat[s].thread \in ThreadIds /\ ~chat[s].fresh /\ thread[chat[s].thread].status # "unused"
      BY <1>6 DEF CInv, NamedOK, Refresh
    <3>2. /\ c \in Chats /\ ~c.fresh /\ c.thread = chat[s].thread /\ chat' = [chat EXCEPT ![s] = c]
      BY <1>0, <2>2, <3>1 DEF Chats, AllChatOps
    <3> HIDE DEF c
    <3> QED
      BY <1>0, <1>6, <2>2, <3>1, <3>2, SessionStep DEF Refresh
  <2> QED
    BY <1>6, <2>1, <2>2 DEF Refresh
<1> QED
  BY <1>1, <1>2, <1>3, <1>4, <1>5, <1>6

LEMMA InsertStep == ASSUME CInv, NEW s \in ChatSessions, InsertThread(s) PROVE CInv'
<1>1. CASE ChatReturn(s)
  BY <1>1, ReturnStep DEF InsertThread
<1>2. CASE /\ Rows = {}
           /\ \E k \in FreshThreads :
                /\ chat' = [chat EXCEPT ![s].thread = k, ![s].fresh = TRUE]
                /\ ChatGoto(s, "booking")
  <2>1. PICK k \in FreshThreads : /\ chat' = [chat EXCEPT ![s].thread = k, ![s].fresh = TRUE]
                                  /\ ChatGoto(s, "booking")
    BY <1>2
  <2> DEFINE c == [chat[s] EXCEPT !.thread = k, !.fresh = TRUE]
  <2>2. k \in ThreadIds /\ thread[k].status = "unused"
    BY FreshThreadIs
  <2>3. /\ c \in Chats /\ c.fresh /\ c.thread = k /\ c.op = chat[s].op /\ c.copy = chat[s].copy
        /\ chat' = [chat EXCEPT ![s] = c]
    BY <2>1, <2>2 DEF CInv, ChatTypeOK, Chats
  <2>4. chat[s].op \in {"ensure", "legacyPost"} /\ chat[s].copy = NoRowYet
        /\ \A t \in ChatSessions : ~chat[t].fresh
    BY DEF CInv, NamedOK, InsertThread
  <2>5. UNCHANGED chatTables /\ UNCHANGED moves /\ late' \subseteq ChatSessions
    BY DEF InsertThread, CInv, ChatTypeOK
  <2> HIDE DEF c
  <2> QED
    BY <1>2, <2>1, <2>2, <2>3, <2>4, <2>5, SessionStep DEF ChatGoto, ChatSteps, Working
<1> QED
  BY <1>1, <1>2 DEF InsertThread

\* The commits write one row, the session's own or one that was there.
LEMMA CommitRowStep ==
  ASSUME CInv, NEW s \in ChatSessions, NEW step \in {"done", "refresh"}, NEW c \in Chats, NEW row \in ThreadRows,
         chatAt[s] = "commit", thread[chat[s].thread].status # "deleted",
         row.status \in {"active", "locked"},
         thread' = [thread EXCEPT ![chat[s].thread] = row],
         chatAt' = [chatAt EXCEPT ![s] = step], chat' = [chat EXCEPT ![s] = c], ~c.fresh,
         step = "refresh" => c.thread = chat[s].thread,
         message' \in [ChatSessions -> Messages],
         UNCHANGED <<rideState, bookingState, moves, late>>
  PROVE  CInv'
<1> DEFINE k == chat[s].thread
<1>1. k \in ThreadIds /\ (chat[s].fresh \/ k \in Rows)
  BY DEF CInv, NamedOK, Working, Rows, ChatTypeOK, ThreadRows
<1>2. thread'[k] = row /\ (\A x \in ThreadIds : x # k => thread'[x] = thread[x])
  BY <1>1 DEF CInv, ChatTypeOK
<1>3. chat'[s] = c /\ chatAt'[s] = step
      /\ \A t \in ChatSessions : t # s => chat'[t] = chat[t] /\ chatAt'[t] = chatAt[t]
  BY DEF CInv, ChatTypeOK
<1>4. ChatTypeOK'
  BY DEF CInv, ChatTypeOK, ChatSteps
<1>5. \A t \in ChatSessions : t # s => ~chat[t].fresh
  BY <1>1 DEF CInv, UniqueOK
<1>6. NamedOK'
  BY <1>1, <1>2, <1>3 DEF CInv, NamedOK, Working
<1>7. Rows' = {k} \cup Rows
  BY <1>1, <1>2 DEF Rows
<1>8. Rows \subseteq {k}
  BY <1>1 DEF CInv, UniqueOK, OneThread
<1>9. UniqueOK'
  BY <1>3, <1>5, <1>7, <1>8 DEF UniqueOK, OneThread
<1> QED
  BY <1>4, <1>6, <1>9 DEF CInv

LEMMA CommitStep ==
  ASSUME CInv, NEW s \in ChatSessions, CommitSync(s) \/ CommitPost(s) \/ CommitRead(s)
  PROVE  CInv'
<1> DEFINE k == chat[s].thread
<1> USE NoChatFields DEF ChatGoto
<1>1. /\ chatAt[s] = "commit" /\ k \in ThreadIds /\ chat[s] \in Chats /\ thread[k] \in ThreadRows
      /\ message \in [ChatSessions -> Messages]
      /\ UNCHANGED <<rideState, bookingState, moves, late>>
  BY DEF CommitSync, CommitPost, CommitRead, CInv, NamedOK, Working, ChatTypeOK
<1>2. ~Gone(s) => thread[k].status \in {"active", "locked"} \/ chat[s].copy.status = "unused"
  <2>1. CASE chat[s].fresh
    BY <2>1, NoRowYetFields DEF CInv, NamedOK
  <2>2. CASE ~chat[s].fresh
    BY <1>1, <2>2 DEF Gone, CInv, NamedOK, Working, ThreadRows
  <2> QED
    BY <2>1, <2>2
<1>3. ~Gone(s) => /\ Synced(thread[k], s) \in ThreadRows
                  /\ Synced(thread[k], s).status \in {"active", "locked"}
  BY <1>1, <1>2, SyncedRow
<1>4. ASSUME UNCHANGED thread, message' \in [ChatSessions -> Messages], ChatReturn(s) PROVE CInv'
  <2>1. chat' = [chat EXCEPT ![s] = NoChat] /\ chatAt' = [chatAt EXCEPT ![s] = "done"]
    BY <1>4 DEF ChatReturn
  <2>2. chat'[s] = NoChat /\ chatAt'[s] = "done"
        /\ \A t \in ChatSessions : t # s => chat'[t] = chat[t] /\ chatAt'[t] = chatAt[t]
    BY <2>1 DEF CInv, ChatTypeOK
  <2>3. ChatTypeOK'
    BY <1>1, <1>4, <2>1 DEF CInv, ChatTypeOK, ChatSteps
  <2>4. NamedOK'
    BY <1>4, <2>2 DEF CInv, NamedOK, Working
  <2>5. UniqueOK'
    <3>1. Rows' = Rows
      BY <1>4 DEF Rows
    <3>2. \A t \in ChatSessions : chat'[t].fresh => t # s /\ chat'[t] = chat[t]
      BY <2>2
    <3> QED
      BY <1>4, <3>1, <3>2 DEF CInv, UniqueOK, OneThread
  <2> QED
    BY <2>3, <2>4, <2>5 DEF CInv
<1>5. CASE CommitSync(s)
  <2>1. CASE Gone(s)
    BY <1>1, <1>4, <1>5, <2>1 DEF CommitSync
  <2>2. CASE ~Gone(s) /\ chat[s].op = "legacyPost"
    <3> DEFINE c == [chat[s] EXCEPT !.fresh = FALSE]
    <3>1. c \in Chats /\ ~c.fresh /\ c.thread = k /\ chat' = [chat EXCEPT ![s] = c]
      BY <1>1, <1>5, <2>2 DEF CommitSync, Chats
    <3> HIDE DEF c
    <3>2. /\ thread' = [thread EXCEPT ![k] = Synced(thread[k], s)]
          /\ chatAt' = [chatAt EXCEPT ![s] = "refresh"] /\ UNCHANGED message
      BY <1>1, <1>5, <2>2 DEF CommitSync
    <3> QED
      BY <1>1, <1>3, <2>2, <3>1, <3>2, CommitRowStep DEF Gone
  <2>3. CASE ~Gone(s) /\ chat[s].op # "legacyPost"
    <3>1. /\ thread' = [thread EXCEPT ![k] = Synced(thread[k], s)]
          /\ ChatReturn(s) /\ UNCHANGED message
      BY <1>1, <1>5, <2>3 DEF CommitSync
    <3> QED
      BY <1>1, <1>3, <2>3, <3>1, CommitRowStep DEF Gone, ChatReturn
  <2> QED
    BY <2>1, <2>2, <2>3
<1>6. CASE CommitPost(s)
  <2>1. CASE Gone(s) \/ ~CanSend(chat[s].ride, chat[s].booking)
    BY <1>1, <1>4, <1>6, <2>1 DEF CommitPost
  <2>2. CASE ~(Gone(s) \/ ~CanSend(chat[s].ride, chat[s].booking))
    <3> DEFINE row == Counted(Synced(thread[k], s), s)
    <3>1. row \in ThreadRows /\ row.status \in {"active", "locked"}
      <4>1. chat[s].copy.count + 1 \in Nat
        BY <1>1, CopyFields
      <4> QED
        BY <1>3, <2>2, <4>1 DEF Counted, ThreadRows
    <3>2. /\ thread' = [thread EXCEPT ![k] = row] /\ ChatReturn(s)
          /\ message' = [message EXCEPT ![s] = [by |-> chat[s].who, thread |-> k, read |-> FALSE]]
      BY <1>1, <1>6, <2>2 DEF CommitPost
    <3>3. message' \in [ChatSessions -> Messages]
      BY <1>1, <3>2 DEF Messages, Chats
    <3> HIDE DEF row
    <3> QED
      BY <1>1, <2>2, <3>1, <3>2, <3>3, CommitRowStep DEF Gone, ChatReturn
  <2> QED
    BY <2>1, <2>2
<1>7. CASE CommitRead(s)
  <2>1. message' \in [ChatSessions -> Messages] /\ ChatReturn(s)
    BY <1>1, <1>7 DEF CommitRead, Messages
  <2>2. CASE UNCHANGED thread
    BY <1>4, <2>1, <2>2
  <2>3. CASE ~Gone(s) /\ thread' = [thread EXCEPT ![k] = Synced(thread[k], s)]
    BY <1>1, <1>3, <2>1, <2>3, CommitRowStep DEF Gone, ChatReturn
  <2>4. CASE chat[s].op = "mark" \/ Gone(s)
    BY <1>7, <2>2, <2>4 DEF CommitRead
  <2>5. CASE ~(chat[s].op = "mark" \/ Gone(s))
    BY <1>1, <1>7, <2>3, <2>5 DEF CommitRead
  <2> QED
    BY <2>4, <2>5
<1> QED
  BY <1>5, <1>6, <1>7

\* What the endpoints of rides and bookings do.
LEMMA OutsideStep ==
  ASSUME CInv, CancelBooking \/ DeleteRide \/ \E new \in RideStates \ {""} : MoveRide(new)
  PROVE  CInv'
<1>1. CASE CancelBooking
  BY <1>1 DEF CInv, ChatTypeOK, NamedOK, UniqueOK, OneThread, Rows, CancelBooking, Stays, BookingStates
<1>2. ASSUME NEW new \in RideStates \ {""}, MoveRide(new) PROVE CInv'
  <2>1. moves' \in 0 .. MaxMoves
    <3>1. moves \in 0 .. MaxMoves /\ moves < MaxMoves /\ moves' = moves + 1
      BY <1>2 DEF CInv, ChatTypeOK, MoveRide
    <3> QED
      BY <3>1, OneMoreMove
  <2>2. /\ rideState' \in RideStates /\ late' \subseteq ChatSessions
        /\ UNCHANGED <<bookingState, thread, message, chatAt, chat>>
    BY <1>2 DEF CInv, ChatTypeOK, MoveRide, Stays
  <2> QED
    BY <2>1, <2>2 DEF CInv, ChatTypeOK, NamedOK, UniqueOK, OneThread, Rows
<1>3. CASE DeleteRide
  <2>1. /\ UNCHANGED <<chatAt, chat, moves>> /\ late' \subseteq ChatSessions
        /\ rideState' = "" /\ bookingState' = "" /\ message' = [s \in ChatSessions |-> NoMessage]
        /\ \A s \in ChatSessions : ~chat[s].fresh
    BY <1>3 DEF DeleteRide, Stays, CInv, ChatTypeOK
  <2>2. [NoRowYet EXCEPT !.status = "deleted"] \in ThreadRows /\ [NoRowYet EXCEPT !.status = "deleted"].status = "deleted"
    BY DEF NoRowYet, ThreadRows, LockReasons
  <2>3. /\ thread' \in [ThreadIds -> ThreadRows]
        /\ \A k \in ThreadIds : thread[k].status # "unused" => thread'[k].status # "unused"
        /\ Rows' = {}
    BY <1>3, <2>2 DEF DeleteRide, Rows, CInv, ChatTypeOK
  <2>4. NoMessage \in Messages
    BY DEF NoMessage, Messages
  <2>5. ChatTypeOK'
    BY <2>1, <2>3, <2>4 DEF CInv, ChatTypeOK, RideStates, BookingStates
  <2>6. NamedOK' /\ UniqueOK'
    BY <2>1, <2>3 DEF CInv, NamedOK, UniqueOK, OneThread, Working
  <2> QED
    BY <2>5, <2>6 DEF CInv
<1> QED
  BY <1>1, <1>2, <1>3

LEMMA ChatNextInv == CInv /\ [ChatNext]_chatVars => CInv'
<1> SUFFICES ASSUME CInv, [ChatNext]_chatVars PROVE CInv'
  OBVIOUS
<1>1. ASSUME NEW s \in ChatSessions, ChatStep(s) PROVE CInv'
  BY <1>1, ReadStep, InsertStep, CommitStep DEF ChatStep
<1>2. ASSUME NEW s \in ChatSessions, NEW op \in ChatOps, NEW who \in Parties, BeginChat(s, op, who) PROVE CInv'
  BY <1>2, ReadStep
<1>3. CASE UNCHANGED chatVars
  BY <1>3 DEF chatVars, chatTables, CInv, ChatTypeOK, NamedOK, UniqueOK, OneThread, Rows
<1> QED
  BY <1>1, <1>2, <1>3, OutsideStep DEF ChatNext

\* The rows of a chat and the requests at work on it keep their shape.
THEOREM ChatTypeCorrect == ChatSpec => []ChatTypeOK
<1>1. CInv => ChatTypeOK
  BY DEF CInv
<1> QED
  BY <1>1, ChatInitInv, ChatNextInv, PTL DEF ChatSpec

\* Driver and passenger never end in two threads of one booking.
THEOREM OneThreadAlways == ChatSpec => []OneThread
<1>1. CInv => OneThread
  BY DEF CInv, UniqueOK
<1> QED
  BY <1>1, ChatInitInv, ChatNextInv, PTL DEF ChatSpec
-----------------------------------------------------------------------------
(* What the count of a thread tells.                                         *)

\* Messages belong to rows, one to each session that is done at most, and no
\* copy of a row counts more of them than there are.
TalkOK ==
  /\ \A s \in ChatSessions : message[s].thread \in ThreadIds => message[s].thread \in Rows
  /\ \A s \in ChatSessions : chatAt[s] # "done" => message[s].thread = NoThread
  /\ \A k \in ThreadIds : thread[k].status = "unused" => thread[k].count = 0
  /\ \A s \in ChatSessions, k \in Rows :
       chatAt[s] \in {"ride", "booking", "commit"} /\ ~chat[s].fresh /\ chat[s].thread = k
         => chat[s].copy.count <= Cardinality(Said(k))

HInv == TalkOK /\ HistoryKeepsTalk

LEMMA SaidFinite == ASSUME NEW k PROVE IsFiniteSet(Said(k)) /\ Cardinality(Said(k)) \in Nat
<1>1. Said(k) \subseteq ChatSessions
  BY DEF Said
<1>2. IsFiniteSet(Said(k))
  BY <1>1, FS_Subset, ChatSessionsAssumption
<1> QED
  BY <1>2, FS_CardinalityType

LEMMA HInvInit == ChatInit => HInv
  BY NoThreadAssumption, NoRowYetFields
  DEF ChatInit, HInv, TalkOK, HistoryKeepsTalk, Rows, NoMessage

\* A step that changes no row and no message, of a request that is not done.
LEMMA HSessionStep ==
  ASSUME CInv, HInv, NEW s \in ChatSessions, NEW step \in ChatSteps, NEW c \in Chats,
         UNCHANGED thread, UNCHANGED message, chatAt[s] # "done",
         chatAt' = [chatAt EXCEPT ![s] = step], chat' = [chat EXCEPT ![s] = c],
         step \in {"ride", "booking", "commit"} /\ ~c.fresh /\ c.thread \in Rows
           => c.copy.count <= Cardinality(Said(c.thread))
  PROVE  HInv'
<1>1. chat'[s] = c /\ chatAt'[s] = step
      /\ \A t \in ChatSessions : t # s => chat'[t] = chat[t] /\ chatAt'[t] = chatAt[t]
  BY DEF CInv, ChatTypeOK
<1>2. Rows' = Rows /\ \A k : Said(k)' = Said(k)
  BY DEF Rows, Said
<1>3. TalkOK'
  BY <1>1, <1>2 DEF HInv, TalkOK
<1>4. HistoryKeepsTalk'
  BY <1>2 DEF HInv, HistoryKeepsTalk
<1> QED
  BY <1>3, <1>4 DEF HInv

LEMMA HReturnStep ==
  ASSUME CInv, HInv, NEW s \in ChatSessions, chatAt[s] # "done", ChatReturn(s),
         UNCHANGED thread, UNCHANGED message
  PROVE  HInv'
  BY HSessionStep, NoChatFields DEF ChatReturn, ChatGoto, ChatSteps

\* A row that is loaded counts no more messages than there are.
LEMMA HReadStep ==
  ASSUME CInv, HInv, NEW s \in ChatSessions,
         \/ \E op \in ChatOps, who \in Parties : BeginChat(s, op, who)
         \/ FindThread(s) \/ InsertThread(s) \/ LoadThread(s) \/ ReadRide(s) \/ ReadBooking(s) \/ Refresh(s)
  PROVE  HInv'
<1>0. /\ chat[s] \in Chats /\ thread \in [ThreadIds -> ThreadRows] /\ rideState \in RideStates
      /\ bookingState \in BookingStates /\ chat \in [ChatSessions -> Chats]
      /\ UNCHANGED thread /\ UNCHANGED message /\ chatAt[s] # "done"
  BY DEF CInv, ChatTypeOK, BeginChat, FindThread, InsertThread, LoadThread, ReadRide, ReadBooking, Refresh, chatTables
<1>1. \A k \in Rows : thread[k].count <= Cardinality(Said(k))
  BY DEF HInv, HistoryKeepsTalk
<1>2. ASSUME NEW step \in {"find", "load", "insert"}, NEW c \in Chats,
             chatAt' = [chatAt EXCEPT ![s] = step], chat' = [chat EXCEPT ![s] = c]
      PROVE  HInv'
  BY <1>0, <1>2, HSessionStep DEF ChatSteps
<1>3. CASE ChatReturn(s)
  BY <1>0, <1>3, HReturnStep
<1>4. ASSUME NEW op \in ChatOps, NEW who \in Parties, BeginChat(s, op, who) PROVE HInv'
  <2> DEFINE c == [NoChat EXCEPT !.op = op, !.who = who]
  <2>1. c \in Chats
    BY NoChatFields, ChatOpsAssumption DEF Chats
  <2>2. /\ chat' = [chat EXCEPT ![s] = c]
        /\ \/ chatAt' = [chatAt EXCEPT ![s] = "find"]
           \/ chatAt' = [chatAt EXCEPT ![s] = "load"]
    BY <1>4 DEF BeginChat, ChatGoto
  <2> HIDE DEF c
  <2> QED
    BY <1>2, <2>1, <2>2
<1>5. CASE FindThread(s)
  <2>1. CASE chatAt' = [chatAt EXCEPT ![s] = "insert"] /\ chat' = [chat EXCEPT ![s].ride = rideState]
    <3>1. [chat[s] EXCEPT !.ride = rideState] \in Chats
      BY <1>0 DEF Chats
    <3> QED
      BY <1>2, <2>1, <3>1
  <2>2. CASE \E k \in Rows :
               /\ chat' = [chat EXCEPT ![s].ride = rideState, ![s].thread = k, ![s].copy = thread[k]]
               /\ ChatGoto(s, "booking")
    <3>1. PICK k \in Rows :
               /\ chat' = [chat EXCEPT ![s].ride = rideState, ![s].thread = k, ![s].copy = thread[k]]
               /\ ChatGoto(s, "booking")
      BY <2>2
    <3> DEFINE c == [chat[s] EXCEPT !.ride = rideState, !.thread = k, !.copy = thread[k]]
    <3>2. c \in Chats /\ c.thread = k /\ c.copy = thread[k] /\ chat' = [chat EXCEPT ![s] = c]
      BY <1>0, <3>1 DEF Chats, Rows
    <3> HIDE DEF c
    <3> QED
      BY <1>0, <1>1, <3>1, <3>2, HSessionStep DEF ChatGoto, ChatSteps
  <2> QED
    BY <1>3, <1>5, <2>1, <2>2 DEF FindThread, ChatGoto
<1>6. CASE InsertThread(s)
  <2>1. CASE \E k \in FreshThreads :
               /\ chat' = [chat EXCEPT ![s].thread = k, ![s].fresh = TRUE]
               /\ ChatGoto(s, "booking")
    <3>1. PICK k \in FreshThreads :
               /\ chat' = [chat EXCEPT ![s].thread = k, ![s].fresh = TRUE]
               /\ ChatGoto(s, "booking")
      BY <2>1
    <3> DEFINE c == [chat[s] EXCEPT !.thread = k, !.fresh = TRUE]
    <3>2. c \in Chats /\ c.fresh /\ chat' = [chat EXCEPT ![s] = c]
      BY <1>0, <3>1, FreshThreadIs DEF Chats
    <3> HIDE DEF c
    <3> QED
      BY <1>0, <3>1, <3>2, HSessionStep DEF ChatGoto, ChatSteps
  <2> QED
    BY <1>3, <1>6, <2>1 DEF InsertThread
<1>7. CASE LoadThread(s)
  <2>1. CASE \E k \in Rows :
               /\ chat' = [chat EXCEPT ![s].thread = k, ![s].copy = thread[k]]
               /\ ChatGoto(s, IF chat[s].op = "mark" THEN "commit" ELSE "ride")
    <3>1. PICK k \in Rows :
               /\ chat' = [chat EXCEPT ![s].thread = k, ![s].copy = thread[k]]
               /\ ChatGoto(s, IF chat[s].op = "mark" THEN "commit" ELSE "ride")
      BY <2>1
    <3> DEFINE c == [chat[s] EXCEPT !.thread = k, !.copy = thread[k]]
    <3>2. c \in Chats /\ c.thread = k /\ c.copy = thread[k] /\ chat' = [chat EXCEPT ![s] = c]
      BY <1>0, <3>1 DEF Chats, Rows
    <3> HIDE DEF c
    <3>3. PICK step \in {"commit", "ride"} : chatAt' = [chatAt EXCEPT ![s] = step]
      BY <3>1 DEF ChatGoto
    <3> QED
      BY <1>0, <1>1, <3>2, <3>3, HSessionStep DEF ChatSteps
  <2> QED
    BY <1>3, <1>7, <2>1 DEF LoadThread
<1>8. ASSUME ReadRide(s) \/ ReadBooking(s) PROVE HInv'
  <2>1. PICK c \in Chats : /\ c.fresh = chat[s].fresh /\ c.thread = chat[s].thread /\ c.copy = chat[s].copy
                           /\ chat' = [chat EXCEPT ![s] = c]
    <3>1. CASE ReadRide(s)
      <4> DEFINE c == [chat[s] EXCEPT !.ride = rideState]
      <4>1. /\ c \in Chats /\ c.fresh = chat[s].fresh /\ c.thread = chat[s].thread /\ c.copy = chat[s].copy
            /\ chat' = [chat EXCEPT ![s] = c]
        BY <1>0, <3>1 DEF ReadRide, Chats
      <4> QED
        BY <4>1
    <3>2. CASE ReadBooking(s)
      <4> DEFINE c == [chat[s] EXCEPT !.booking = bookingState]
      <4>1. /\ c \in Chats /\ c.fresh = chat[s].fresh /\ c.thread = chat[s].thread /\ c.copy = chat[s].copy
            /\ chat' = [chat EXCEPT ![s] = c]
        BY <1>0, <3>2 DEF ReadBooking, Chats
      <4> QED
        BY <4>1
    <3> QED
      BY <1>8, <3>1, <3>2
  <2>2. /\ chatAt[s] \in {"ride", "booking"}
        /\ \/ chatAt' = [chatAt EXCEPT ![s] = "booking"]
           \/ chatAt' = [chatAt EXCEPT ![s] = "commit"]
    BY <1>8 DEF ReadRide, ReadBooking, ChatGoto
  <2>3. ~c.fresh /\ c.thread \in Rows => c.copy.count <= Cardinality(Said(c.thread))
    BY <2>1, <2>2 DEF HInv, TalkOK
  <2> QED
    BY <1>0, <2>1, <2>2, <2>3, HSessionStep DEF ChatSteps
<1>9. CASE Refresh(s)
  <2>1. CASE ~Gone(s)
    <3> DEFINE c == [chat[s] EXCEPT !.copy = thread[chat[s].thread], !.op = "post"]
    <3>1. chat[s].thread \in ThreadIds /\ ChatGoto(s, "ride")
      BY <1>9, <2>1 DEF CInv, NamedOK, Refresh, Working
    <3>2. /\ c \in Chats /\ c.thread = chat[s].thread /\ c.copy = thread[chat[s].thread]
          /\ chat' = [chat EXCEPT ![s] = c]
      BY <1>0, <1>9, <2>1, <3>1 DEF Refresh, Chats, AllChatOps
    <3> HIDE DEF c
    <3> QED
      BY <1>0, <1>1, <3>1, <3>2, HSessionStep DEF ChatGoto, ChatSteps
  <2> QED
    BY <1>3, <1>9, <2>1 DEF Refresh
<1> QED
  BY <1>4, <1>5, <1>6, <1>7, <1>8, <1>9

\* A commit that keeps the count of its row, and who said what.
LEMMA HSyncStep ==
  ASSUME CInv, CInv', HInv, NEW s \in ChatSessions, NEW step \in {"done", "refresh"}, NEW c \in Chats,
         chatAt[s] = "commit", chatAt' = [chatAt EXCEPT ![s] = step], chat' = [chat EXCEPT ![s] = c],
         \A k \in ThreadIds : thread'[k].count = thread[k].count,
         \A k \in ThreadIds : k \in Rows => k \in Rows',
         \A k \in ThreadIds : thread'[k].status = "unused" => thread[k].status = "unused",
         \A k \in ThreadIds : k \in Rows' => k \in Rows \/ (thread[k].status = "unused" /\ chat[s].thread = k),
         \A t \in ChatSessions : message'[t].thread = message[t].thread
  PROVE  HInv'
<1>1. chatAt'[s] = step
      /\ \A t \in ChatSessions : t # s => chat'[t] = chat[t] /\ chatAt'[t] = chatAt[t]
  BY DEF CInv, ChatTypeOK
<1>2. \A k : Said(k)' = Said(k)
  BY DEF Said
<1>3. ASSUME NEW k \in Rows', k \notin Rows PROVE Said(k) = {} /\ thread'[k].count = 0
  <2>1. k \in ThreadIds /\ thread[k].status = "unused"
    BY <1>3 DEF Rows
  <2> QED
    BY <1>3, <2>1 DEF Said, HInv, TalkOK
<1>4. HistoryKeepsTalk'
  <2> SUFFICES ASSUME NEW k \in Rows'
               PROVE  /\ thread'[k].count <= Cardinality(Said(k))
                      /\ Said(k) # {} => thread'[k].count > 0
    BY <1>2 DEF HistoryKeepsTalk
  <2>1. CASE k \in Rows
    BY <2>1 DEF HInv, HistoryKeepsTalk, Rows
  <2>2. CASE k \notin Rows
    <3>1. Said(k) = {} /\ thread'[k].count = 0
      BY <1>3, <2>2
    <3>2. Cardinality(Said(k)) = 0
      BY <3>1, FS_EmptySet
    <3> QED
      BY <3>1, <3>2
  <2> QED
    BY <2>1, <2>2
<1>5. TalkOK'
  <2>1. \A t \in ChatSessions : message'[t].thread \in ThreadIds => message'[t].thread \in Rows'
    BY DEF HInv, TalkOK
  <2>2. \A t \in ChatSessions : chatAt'[t] # "done" => message'[t].thread = NoThread
    BY <1>1 DEF HInv, TalkOK
  <2>3. \A k \in ThreadIds : thread'[k].status = "unused" => thread'[k].count = 0
    BY DEF HInv, TalkOK
  <2>4. ASSUME NEW t \in ChatSessions, NEW k \in Rows', chatAt'[t] \in {"ride", "booking", "commit"},
               ~chat'[t].fresh, chat'[t].thread = k
        PROVE  chat'[t].copy.count <= Cardinality(Said(k))
    <3>1. t # s /\ chat'[t] = chat[t] /\ chatAt'[t] = chatAt[t]
      BY <1>1, <2>4
    <3>2. thread[k].status # "unused"
      BY <2>4, <3>1 DEF CInv, NamedOK, Working
    <3>3. k \in Rows
      BY <3>2 DEF Rows
    <3> QED
      BY <2>4, <3>1, <3>3 DEF HInv, TalkOK
  <2> QED
    BY <1>2, <2>1, <2>2, <2>3, <2>4 DEF TalkOK
<1> QED
  BY <1>4, <1>5 DEF HInv
\* A message and its row appear together, and the count is one more than the
\* copy's.
LEMMA HPostStep ==
  ASSUME CInv, CInv', HInv, NEW s \in ChatSessions, NEW k, k = chat[s].thread, CommitPost(s),
         ~(Gone(s) \/ ~CanSend(chat[s].ride, chat[s].booking))
  PROVE  HInv'
<1>0. /\ chatAt[s] = "commit" /\ k \in ThreadIds /\ chat[s] \in Chats /\ thread[k] \in ThreadRows
      /\ ~chat[s].fresh /\ ChatReturn(s)
  BY DEF CommitPost, CInv, NamedOK, Working, ChatTypeOK
<1>1. k \in Rows
  BY <1>0 DEF Rows, Gone, CInv, NamedOK, Working, ThreadRows
<1>2. /\ chatAt'[s] = "done" /\ chat'[s] = NoChat
      /\ \A t \in ChatSessions : t # s => chat'[t] = chat[t] /\ chatAt'[t] = chatAt[t]
  BY <1>0 DEF ChatReturn, ChatGoto, CInv, ChatTypeOK
<1>3. /\ message'[s].thread = k
      /\ \A t \in ChatSessions : t # s => message'[t] = message[t]
  BY DEF CommitPost, CInv, ChatTypeOK
<1>4. /\ \A x \in ThreadIds : x # k => thread'[x] = thread[x]
      /\ thread'[k].count = chat[s].copy.count + 1
      /\ thread'[k].status \in {"active", "locked"}
  <2>1. /\ Synced(thread[k], s) \in ThreadRows
        /\ Synced(thread[k], s).status \in {"active", "locked"}
    BY <1>0, <1>1, SyncedRow DEF Rows
  <2>2. thread' = [thread EXCEPT ![k] = Counted(Synced(thread[k], s), s)]
    BY <1>0 DEF CommitPost
  <2> QED
    BY <1>0, <2>1, <2>2 DEF Counted, CInv, ChatTypeOK, ThreadRows
<1>5. message[s].thread = NoThread
  BY <1>0 DEF HInv, TalkOK
<1>6. /\ Said(k)' = Said(k) \cup {s} /\ s \notin Said(k)
      /\ \A x \in ThreadIds : x # k => Said(x)' = Said(x)
  BY <1>0, <1>3, <1>5, NoThreadAssumption DEF Said
<1>7. Cardinality(Said(k))' = Cardinality(Said(k)) + 1
  <2>1. Cardinality(Said(k) \cup {s}) = Cardinality(Said(k)) + 1
    BY <1>6, SaidFinite, FS_AddElement
  <2> QED
    BY <1>6, <2>1
<1>8. Rows' = Rows
  BY <1>0, <1>1, <1>4 DEF Rows
<1>9. chat[s].copy.count <= Cardinality(Said(k)) /\ chat[s].copy.count \in Nat
  BY <1>0, <1>1, CopyFields DEF HInv, TalkOK, ThreadRows
<1>10. Cardinality(Said(k)) \in Nat
  BY SaidFinite
<1>11. HistoryKeepsTalk'
  <2> SUFFICES ASSUME NEW x \in Rows
               PROVE  /\ thread'[x].count <= Cardinality(Said(x))'
                      /\ Said(x)' # {} => thread'[x].count > 0
    BY <1>8 DEF HistoryKeepsTalk
  <2>1. CASE x = k
    BY <1>4, <1>7, <1>9, <1>10, <2>1
  <2>2. CASE x # k
    BY <1>4, <1>6, <2>2 DEF HInv, HistoryKeepsTalk, Rows
  <2> QED
    BY <2>1, <2>2
<1>12. TalkOK'
  <2>1. \A t \in ChatSessions : message'[t].thread \in ThreadIds => message'[t].thread \in Rows'
    BY <1>1, <1>3, <1>8 DEF HInv, TalkOK
  <2>2. \A t \in ChatSessions : chatAt'[t] # "done" => message'[t].thread = NoThread
    BY <1>2, <1>3 DEF HInv, TalkOK
  <2>3. \A x \in ThreadIds : thread'[x].status = "unused" => thread'[x].count = 0
    BY <1>4 DEF HInv, TalkOK
  <2>4. ASSUME NEW t \in ChatSessions, NEW x \in Rows, chatAt'[t] \in {"ride", "booking", "commit"},
               ~chat'[t].fresh, chat'[t].thread = x
        PROVE  chat'[t].copy.count <= Cardinality(Said(x))'
    <3>1. t # s /\ chat'[t] = chat[t] /\ chatAt'[t] = chatAt[t]
      BY <1>2, <2>4
    <3>2. chat[t].copy.count <= Cardinality(Said(x))
      BY <2>4, <3>1 DEF HInv, TalkOK
    <3>3. chat[t].copy.count \in Nat
      BY CopyFields DEF CInv, ChatTypeOK, ThreadRows
    <3>4. CASE x = k
      BY <1>7, <1>10, <3>1, <3>2, <3>3, <3>4
    <3>5. CASE x # k
      <4>1. Said(x)' = Said(x)
        BY <1>6, <3>5 DEF Rows
      <4> QED
        BY <3>1, <3>2, <4>1
    <3> QED
      BY <3>4, <3>5
  <2> QED
    BY <1>8, <2>1, <2>2, <2>3, <2>4 DEF TalkOK
<1> QED
  BY <1>11, <1>12 DEF HInv

LEMMA HCommitStep ==
  ASSUME CInv, CInv', HInv, NEW s \in ChatSessions, CommitSync(s) \/ CommitPost(s) \/ CommitRead(s)
  PROVE  HInv'
<1> DEFINE k == chat[s].thread
<1>0. /\ chatAt[s] = "commit" /\ k \in ThreadIds /\ chat[s] \in Chats /\ thread[k] \in ThreadRows
      /\ thread \in [ThreadIds -> ThreadRows] /\ message \in [ChatSessions -> Messages]
      /\ k \in Rows \/ thread[k].status \in {"unused", "deleted"}
  BY DEF CommitSync, CommitPost, CommitRead, CInv, NamedOK, Working, ChatTypeOK, Rows, ThreadRows
<1>1. PICK c \in Chats, step \in {"done", "refresh"} :
        chatAt' = [chatAt EXCEPT ![s] = step] /\ chat' = [chat EXCEPT ![s] = c]
  <2>1. CASE ChatReturn(s)
    BY <2>1, NoChatFields DEF ChatReturn, ChatGoto
  <2>2. CASE ChatGoto(s, "refresh") /\ chat' = [chat EXCEPT ![s].fresh = FALSE]
    <3>1. [chat[s] EXCEPT !.fresh = FALSE] \in Chats
      BY <1>0 DEF Chats
    <3> QED
      BY <2>2, <3>1 DEF ChatGoto
  <2> QED
    BY <2>1, <2>2 DEF CommitSync, CommitPost, CommitRead
<1>2. Synced(thread[k], s).count = thread[k].count /\ Synced(thread[k], s) \in ThreadRows
  BY <1>0, SyncedRow
<1>3. CASE UNCHANGED thread /\ \A t \in ChatSessions : message'[t].thread = message[t].thread
  <2>1. Rows' = Rows
    BY <1>3 DEF Rows
  <2> QED
    BY <1>0, <1>1, <1>3, <2>1, HSyncStep
<1>4. CASE /\ ~Gone(s) /\ thread' = [thread EXCEPT ![k] = Synced(thread[k], s)]
           /\ \A t \in ChatSessions : message'[t].thread = message[t].thread
  <2>1. thread'[k] = Synced(thread[k], s) /\ \A x \in ThreadIds : x # k => thread'[x] = thread[x]
    BY <1>0, <1>4
  <2>2. Synced(thread[k], s).status \in {"active", "locked"}
    <3>1. CASE k \in Rows
      BY <1>0, <3>1, SyncedRow DEF Rows
    <3>2. CASE k \notin Rows
      <4>1. chat[s].fresh
        BY <1>0, <1>4, <3>2 DEF Gone, CInv, NamedOK, Working
      <4>2. chat[s].copy.status = "unused"
        BY <4>1, NoRowYetFields DEF CInv, NamedOK
      <4> QED
        BY <1>0, <4>2, SyncedRow
    <3> QED
      BY <3>1, <3>2
  <2>3. /\ \A x \in ThreadIds : thread'[x].count = thread[x].count
        /\ \A x \in ThreadIds : thread'[x].status = "unused" => thread[x].status = "unused"
    BY <1>2, <2>1, <2>2
  <2>4. \A x \in ThreadIds : x \in Rows => x \in Rows'
    BY <2>1, <2>2 DEF Rows
  <2>5. ASSUME NEW x \in ThreadIds, x \in Rows', x \notin Rows
        PROVE  thread[x].status = "unused" /\ chat[s].thread = x
    <3>1. x = k
      BY <2>1, <2>5 DEF Rows
    <3> QED
      BY <1>0, <1>4, <2>5, <3>1 DEF Gone
  <2>6. \A x \in ThreadIds : x \in Rows' => x \in Rows \/ (thread[x].status = "unused" /\ chat[s].thread = x)
    BY <2>5
  <2>7. \A t \in ChatSessions : message'[t].thread = message[t].thread
    BY <1>4
  <2> HIDE DEF k
  <2> QED
    BY <1>0, <1>1, <2>3, <2>4, <2>6, <2>7, HSyncStep
<1>5. CASE CommitSync(s)
  <2>1. CASE Gone(s)
    BY <1>3, <1>5, <2>1 DEF CommitSync
  <2>2. CASE ~Gone(s)
    BY <1>4, <1>5, <2>2 DEF CommitSync
  <2> QED
    BY <2>1, <2>2
<1>6. CASE CommitPost(s)
  <2>1. CASE Gone(s) \/ ~CanSend(chat[s].ride, chat[s].booking)
    BY <1>3, <1>6, <2>1 DEF CommitPost
  <2> QED
    BY <1>6, <2>1, HPostStep
<1>7. CASE CommitRead(s)
  <2>1. \A t \in ChatSessions : message'[t].thread = message[t].thread
    BY <1>0, <1>7 DEF CommitRead, Messages
  <2>2. CASE chat[s].op = "mark" \/ Gone(s)
    BY <1>3, <1>7, <2>1, <2>2 DEF CommitRead
  <2>3. CASE ~(chat[s].op = "mark" \/ Gone(s))
    BY <1>4, <1>7, <2>1, <2>3 DEF CommitRead
  <2> QED
    BY <2>2, <2>3
<1> QED
  BY <1>5, <1>6, <1>7

LEMMA HOutsideStep ==
  ASSUME CInv, HInv, CancelBooking \/ DeleteRide \/ \E new \in RideStates \ {""} : MoveRide(new)
  PROVE  HInv'
<1>1. CASE UNCHANGED <<thread, message, chatAt, chat>>
  BY <1>1 DEF HInv, TalkOK, HistoryKeepsTalk, Rows, Said
<1>2. CASE DeleteRide
  <2>1. [NoRowYet EXCEPT !.status = "deleted"].status = "deleted"
    BY DEF NoRowYet
  <2>2. /\ Rows' = {}
        /\ \A k \in ThreadIds : thread'[k].status = "unused" => thread'[k] = thread[k]
    BY <1>2, <2>1 DEF DeleteRide, Rows, CInv, ChatTypeOK
  <2>3. \A s \in ChatSessions : message'[s].thread = NoThread
    BY <1>2 DEF DeleteRide, NoMessage
  <2>4. UNCHANGED chatAt
    BY <1>2 DEF DeleteRide
  <2>5. HistoryKeepsTalk'
    BY <2>2 DEF HistoryKeepsTalk
  <2>6. \A s \in ChatSessions : ~(message'[s].thread \in ThreadIds)
    BY <2>3, NoThreadAssumption
  <2>7. \A k \in ThreadIds : thread'[k].status = "unused" => thread'[k].count = 0
    BY <2>2 DEF HInv, TalkOK
  <2>8. TalkOK'
    BY <2>2, <2>3, <2>6, <2>7 DEF TalkOK
  <2> QED
    BY <2>5, <2>8 DEF HInv
<1> QED
  BY <1>1, <1>2 DEF CancelBooking, MoveRide

LEMMA HNextInv == CInv /\ CInv' /\ HInv /\ [ChatNext]_chatVars => HInv'
<1> SUFFICES ASSUME CInv, CInv', HInv, [ChatNext]_chatVars PROVE HInv'
  OBVIOUS
<1>1. ASSUME NEW s \in ChatSessions, ChatStep(s) PROVE HInv'
  BY <1>1, HReadStep, HCommitStep DEF ChatStep
<1>2. ASSUME NEW s \in ChatSessions, NEW op \in ChatOps, NEW who \in Parties, BeginChat(s, op, who) PROVE HInv'
  BY <1>2, HReadStep
<1>3. CASE UNCHANGED chatVars
  BY <1>3 DEF chatVars, chatTables, HInv, TalkOK, HistoryKeepsTalk, Rows, Said
<1> QED
  BY <1>1, <1>2, <1>3, HOutsideStep DEF ChatNext

\* A thread counts at most the messages there are, and is counted empty only
\* when it is: the history never leaves out a conversation.
THEOREM TalkIsNeverLost == ChatSpec => []HistoryKeepsTalk
<1>1. HInv => HistoryKeepsTalk
  BY DEF HInv
<1> QED
  BY <1>1, ChatInitInv, ChatNextInv, HInvInit, HNextInv, PTL DEF ChatSpec

-----------------------------------------------------------------------------
(* A chat that stays closed.                                                 *)

\* What a late request has read of the ride and of the booking, one after the
\* other, does not look open together.
LateOK ==
  \A s \in late :
    /\ ~CanSend(rideState, bookingState)
    /\ chatAt[s] \in {"insert", "booking"} => ~CanSend(chat[s].ride, bookingState)
    /\ chatAt[s] = "commit" /\ chat[s].op # "mark" => ~CanSend(chat[s].ride, chat[s].booking)

LEMMA LateInit == ChatInit => LateOK
  BY DEF ChatInit, LateOK

LEMMA NeverOpenUnbooked == \A r : ~CanSend(r, "cancelled") /\ ~CanSend(r, "")
  BY DEF CanSend, LockReason

LEMMA LateReadStep ==
  ASSUME CInv, LateOK, NEW s \in ChatSessions,
         \/ FindThread(s) \/ InsertThread(s) \/ LoadThread(s) \/ ReadRide(s) \/ ReadBooking(s) \/ Refresh(s)
         \/ CommitSync(s) \/ CommitPost(s) \/ CommitRead(s)
  PROVE  LateOK'
<1>0. /\ UNCHANGED <<rideState, bookingState, late>> /\ late \subseteq ChatSessions
      /\ \A t \in ChatSessions : t # s => chat'[t] = chat[t] /\ chatAt'[t] = chatAt[t]
      /\ chat \in [ChatSessions -> Chats] /\ chatAt \in [ChatSessions -> ChatSteps]
  BY DEF FindThread, InsertThread, LoadThread, ReadRide, ReadBooking, Refresh, CommitSync, CommitPost,
         CommitRead, ChatReturn, ChatGoto, CInv, ChatTypeOK, chatTables
<1> SUFFICES ASSUME s \in late
             PROVE  /\ chatAt'[s] \in {"insert", "booking"} => ~CanSend(chat'[s].ride, bookingState)
                    /\ chatAt'[s] = "commit" /\ chat'[s].op # "mark" => ~CanSend(chat'[s].ride, chat'[s].booking)
  BY <1>0 DEF LateOK
<1>1. ~CanSend(rideState, bookingState)
  BY DEF LateOK
<1>2. CASE chatAt'[s] \in {"done", "refresh", "ride"}
  BY <1>2
<1>3. CASE FindThread(s)
  <2>1. chatAt'[s] = "done" \/ (chatAt'[s] \in {"insert", "booking"} /\ chat'[s].ride = rideState)
    <3>1. CASE rideState = ""
      BY <1>0, <1>3, <3>1 DEF FindThread, ChatReturn, ChatGoto
    <3>2. CASE rideState # "" /\ Rows = {}
      <4>1. chatAt' = [chatAt EXCEPT ![s] = "insert"] /\ chat' = [chat EXCEPT ![s].ride = rideState]
        BY <1>3, <3>2 DEF FindThread, ChatGoto
      <4> QED
        BY <1>0, <4>1 DEF Chats
    <3>3. CASE rideState # "" /\ Rows # {}
      <4>1. PICK k \in Rows :
               /\ chat' = [chat EXCEPT ![s].ride = rideState, ![s].thread = k, ![s].copy = thread[k]]
               /\ chatAt' = [chatAt EXCEPT ![s] = "booking"]
        BY <1>3, <3>3 DEF FindThread, ChatGoto
      <4> QED
        BY <1>0, <4>1 DEF Chats
    <3> QED
      BY <3>1, <3>2, <3>3
  <2> QED
    BY <1>1, <2>1
<1>4. CASE InsertThread(s)
  <2>1. chatAt'[s] = "done" \/ (chatAt'[s] = "booking" /\ chat'[s].ride = chat[s].ride)
    BY <1>0, <1>4 DEF InsertThread, ChatReturn, ChatGoto, Chats
  <2> QED
    BY <1>4, <2>1 DEF LateOK, InsertThread
<1>5. CASE LoadThread(s)
  <2>1. chatAt'[s] \in {"done", "ride"} \/ (chatAt'[s] = "commit" /\ chat'[s].op = "mark")
    BY <1>0, <1>5 DEF LoadThread, ChatReturn, ChatGoto, Chats
  <2> QED
    BY <2>1
<1>6. CASE ReadRide(s)
  <2>1. chatAt'[s] = "booking" /\ chat'[s].ride = rideState
    BY <1>0, <1>6 DEF ReadRide, ChatGoto, Chats
  <2> QED
    BY <1>1, <2>1
<1>7. CASE ReadBooking(s)
  <2>1. chatAt'[s] = "commit" /\ chat'[s].ride = chat[s].ride /\ chat'[s].booking = bookingState
    BY <1>0, <1>7 DEF ReadBooking, ChatGoto, Chats
  <2> QED
    BY <1>7, <2>1 DEF LateOK, ReadBooking
<1>8. ASSUME Refresh(s) \/ CommitSync(s) \/ CommitPost(s) \/ CommitRead(s)
      PROVE  chatAt'[s] \in {"done", "refresh", "ride"}
  BY <1>0, <1>8 DEF Refresh, CommitSync, CommitPost, CommitRead, ChatReturn, ChatGoto
<1> QED
  BY <1>2, <1>3, <1>4, <1>5, <1>6, <1>7, <1>8

LEMMA LateBeginStep ==
  ASSUME CInv, LateOK, NEW s \in ChatSessions, NEW op \in ChatOps, NEW who \in Parties, BeginChat(s, op, who)
  PROVE  LateOK'
<1>1. /\ UNCHANGED <<rideState, bookingState>> /\ late \subseteq ChatSessions
      /\ chatAt'[s] \in {"find", "load"}
      /\ \A t \in ChatSessions : t # s => chat'[t] = chat[t] /\ chatAt'[t] = chatAt[t]
  BY DEF BeginChat, ChatGoto, CInv, ChatTypeOK, chatTables
<1>2. late' = IF CanSend(rideState, bookingState) THEN late ELSE late \cup {s}
  BY DEF BeginChat
<1> QED
  BY <1>1, <1>2 DEF LateOK

LEMMA LateOutsideStep ==
  ASSUME CInv, LateOK, CancelBooking \/ DeleteRide \/ \E new \in RideStates \ {""} : MoveRide(new)
  PROVE  LateOK'
<1>1. CASE CancelBooking
  BY <1>1, NeverOpenUnbooked DEF CancelBooking, Stays, LateOK
<1>2. CASE DeleteRide
  BY <1>2, NeverOpenUnbooked DEF DeleteRide, Stays, LateOK
<1>3. ASSUME NEW new \in RideStates \ {""}, MoveRide(new) PROVE LateOK'
  BY <1>3 DEF MoveRide, Stays, LateOK
<1> QED
  BY <1>1, <1>2, <1>3

LEMMA LateNext == CInv /\ LateOK /\ [ChatNext]_chatVars => LateOK'
<1> SUFFICES ASSUME CInv, LateOK, [ChatNext]_chatVars PROVE LateOK'
  OBVIOUS
<1>1. ASSUME NEW s \in ChatSessions, ChatStep(s) PROVE LateOK'
  BY <1>1, LateReadStep DEF ChatStep
<1>2. CASE UNCHANGED chatVars
  BY <1>2 DEF chatVars, chatTables, LateOK
<1> QED
  BY <1>1, <1>2, LateBeginStep, LateOutsideStep DEF ChatNext

\* Nobody for whom the chat was closed all along adds a message to it.
Silent == \A s \in late : message'[s].by = NoThread \/ message'[s] = message[s] \/ message[s].by # NoThread

LEMMA LateIsSilent == CInv /\ LateOK /\ [ChatNext]_chatVars => [Silent]_chatVars
<1> SUFFICES ASSUME CInv, LateOK, [ChatNext]_chatVars PROVE Silent
  OBVIOUS
<1>0. late \subseteq ChatSessions /\ message \in [ChatSessions -> Messages]
  BY DEF CInv, ChatTypeOK
<1>1. CASE UNCHANGED message
  BY <1>1 DEF Silent
<1>2. ASSUME NEW s \in ChatSessions, CommitPost(s) PROVE Silent
  <2>1. CASE Gone(s) \/ ~CanSend(chat[s].ride, chat[s].booking)
    BY <1>2, <2>1 DEF CommitPost, Silent
  <2>2. CASE ~(Gone(s) \/ ~CanSend(chat[s].ride, chat[s].booking))
    <3>1. s \notin late
      BY <1>2, <2>2 DEF CommitPost, LateOK
    <3>2. \A t \in ChatSessions : t # s => message'[t] = message[t]
      BY <1>0, <1>2, <2>2 DEF CommitPost
    <3> QED
      BY <1>0, <3>1, <3>2 DEF Silent
  <2> QED
    BY <2>1, <2>2
<1>3. ASSUME NEW s \in ChatSessions, CommitRead(s) PROVE Silent
  <2>1. \A t \in ChatSessions : message'[t].by = message[t].by
    BY <1>0, <1>3 DEF CommitRead, Messages
  <2> QED
    BY <1>0, <2>1 DEF Silent
<1>4. CASE DeleteRide
  BY <1>0, <1>4 DEF DeleteRide, NoMessage, Silent
<1>5. ASSUME NEW s \in ChatSessions, ChatStep(s), ~CommitPost(s), ~CommitRead(s) PROVE UNCHANGED message
  BY <1>5 DEF ChatStep, FindThread, InsertThread, LoadThread, ReadRide, ReadBooking, Refresh, CommitSync, chatTables
<1>6. ASSUME NEW s \in ChatSessions, NEW op \in ChatOps, NEW who \in Parties, BeginChat(s, op, who)
      PROVE  UNCHANGED message
  BY <1>6 DEF BeginChat, chatTables
<1>7. CancelBooking \/ (\E new \in RideStates \ {""} : MoveRide(new)) \/ UNCHANGED chatVars => UNCHANGED message
  BY DEF CancelBooking, MoveRide, chatVars, chatTables
<1>8. CASE \E s \in ChatSessions : ChatStep(s)
  BY <1>1, <1>2, <1>3, <1>5, <1>8
<1> QED
  BY <1>1, <1>4, <1>6, <1>7, <1>8 DEF ChatNext

\* A request that finds the chat closed, and closed it stays, posts nothing.
THEOREM LateRequestsAreSilent == ChatSpec => ClosedStaysSilent
  BY ChatInitInv, ChatNextInv, LateInit, LateNext, LateIsSilent, PTL DEF ChatSpec, ClosedStaysSilent, Silent
=============================================================================
