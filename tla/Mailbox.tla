------------------------------ MODULE Mailbox ------------------------------
(***************************************************************************)
(* The live connection of one user and the notifications sent to it        *)
(* (backend/app/modules/notifications: websocket_manager.py,               *)
(* notification_service.py, the endpoint of routers.py).  All of it runs   *)
(* as coroutines of one event loop: a coroutine keeps the loop until it    *)
(* awaits something that suspends it, so `running` names the one that has  *)
(* the loop and the others move only while it is Nobody.                   *)
(***************************************************************************)
EXTENDS Integers, FiniteSets

CONSTANTS
  Sockets,     \* connections the user's clients open, one after or beside another
  Notes,       \* notifications to deliver to the user
  MaxQueue,    \* MAX_QUEUE_SIZE, 100 in the code
  MaxAttempts, \* retry_max
  Nobody

ASSUME MailboxAssumption ==
  /\ MaxQueue \in Nat \ {0} /\ MaxAttempts \in Nat \ {0}
  /\ Nobody \notin Sockets \cup ({"endpoint", "beat", "delivery"} \X (Sockets \cup Notes))

VARIABLES
  sock,       \* each connection, as server and client have it
  registered, \* _connections[user], whose keys _connection_metadata shares
  pulse,      \* _heartbeat_tasks[user]
  queued,     \* length of _offline_queue[user]; absent when 0
  deadLetters,\* notifications in _dlq
  running,    \* the coroutine that has the loop
  mailAt,     \* next statement of each coroutine
  frame       \* its local variables

mailVars == <<sock, registered, pulse, queued, deadLetters, running, mailAt, frame>>

\* dropped: the client is gone and the server has not noticed.
SocketState == {"new", "open", "dropped", "closed"}
Endpoint(c) == <<"endpoint", c>>
Beat(c)     == <<"beat", c>>
Delivery(n) == <<"delivery", n>>
Coroutines == {Endpoint(c) : c \in Sockets} \cup {Beat(c) : c \in Sockets} \cup {Delivery(n) : n \in Notes}

MailSteps == {"idle", "check", "register", "flush", "drop", "confirm", "listen", "send", "write",
              "queue", "disconnect", "unregister", "sleep", "ping", "channel", "sent", "fcm",
              "backoff", "ended"}
\* ws: the socket in hand; next: where send_to_user returns to; back: where
\* disconnect returns to; i: index into the list being flushed, and kept its
\* length once another coroutine has deleted the entry of the queue.
Frames == [ws : Sockets \cup {Nobody}, next : MailSteps, back : MailSteps, ok : BOOLEAN,
           i : Nat, kept : Nat, attempt : Nat]
NoFrame == [ws |-> Nobody, next |-> "idle", back |-> "idle", ok |-> FALSE,
            i |-> 0, kept |-> 0, attempt |-> 0]

MailInit ==
  /\ sock = [c \in Sockets |-> "new"]
  /\ registered = Nobody /\ pulse = Nobody /\ queued = 0 /\ deadLetters = {}
  /\ running = Nobody
  /\ mailAt = [t \in Coroutines |-> "idle"]
  /\ frame = [t \in Coroutines |-> NoFrame]

-----------------------------------------------------------------------------
At(t, step) == running \in {Nobody, t} /\ mailAt[t] = step
\* On to the next statement, keeping the loop; or awaiting there; or done.
GoOn(t, step)  == mailAt' = [mailAt EXCEPT ![t] = step] /\ running' = t
Await(t, step) == mailAt' = [mailAt EXCEPT ![t] = step] /\ running' = Nobody
Finish(t) == Await(t, "ended") /\ frame' = [frame EXCEPT ![t] = NoFrame]

EndpointEnds(c) == Finish(Endpoint(c))

-----------------------------------------------------------------------------
(* WebSocketManager.send_to_user and disconnect, called by every coroutine.  *)

Send(t) ==
  /\ At(t, "send")
  /\ IF registered = Nobody THEN GoOn(t, "queue") /\ UNCHANGED frame
     ELSE Await(t, "write") /\ frame' = [frame EXCEPT ![t].ws = registered]
  /\ UNCHANGED <<sock, registered, pulse, queued, deadLetters>>

\* send_json returns, or raises WebSocketDisconnect, or (on a socket the
\* server has closed) another exception.  Counting the message raises too,
\* and reports a failure, when the user was unregistered meanwhile.
Write(t) ==
  LET ws == frame[t].ws IN
  /\ At(t, "write")
  /\ IF sock[ws] = "dropped"
       THEN /\ sock' = [sock EXCEPT ![ws] = "closed"]
            /\ GoOn(t, "disconnect") /\ frame' = [frame EXCEPT ![t].back = "queue", ![t].ws = Nobody]
       ELSE /\ GoOn(t, frame[t].next)
            /\ frame' = [frame EXCEPT ![t].ok = sock[ws] = "open" /\ registered # Nobody,
                                      ![t].ws = Nobody]
            /\ UNCHANGED sock
  /\ UNCHANGED <<registered, pulse, queued, deadLetters>>

\* Variant: no bound.
QueueUnbounded(t) ==
  /\ At(t, "queue")
  /\ queued' = queued + 1
  /\ GoOn(t, frame[t].next) /\ frame' = [frame EXCEPT ![t].ok = FALSE]
  /\ UNCHANGED <<sock, registered, pulse, deadLetters>>

\* _queue_message drops the oldest message of a full queue.
Queue(t) ==
  /\ At(t, "queue")
  /\ queued' = IF queued >= MaxQueue THEN queued ELSE queued + 1
  /\ GoOn(t, frame[t].next) /\ frame' = [frame EXCEPT ![t].ok = FALSE]
  /\ UNCHANGED <<sock, registered, pulse, deadLetters>>

\* Closing a socket that is closed raises at once; otherwise the close frame
\* is awaited, where a heartbeat that has cancelled itself ends.
Disconnect(t) ==
  LET waits == sock[registered] # "closed" IN
  /\ At(t, "disconnect")
  /\ IF registered = Nobody
       THEN GoOn(t, frame[t].back) /\ UNCHANGED <<sock, pulse, frame>>
       ELSE /\ pulse' = Nobody
            /\ sock' = [sock EXCEPT ![registered] = "closed"]
            /\ LET victim == IF pulse = Nobody THEN t ELSE Beat(pulse)
                   self   == pulse # Nobody /\ victim = t IN
               /\ running' = IF waits THEN Nobody ELSE t
               /\ mailAt' = [mailAt EXCEPT ![victim] = IF victim = t THEN @ ELSE "ended",
                                           ![t] = IF self /\ waits THEN "ended" ELSE "unregister"]
               /\ frame' = [frame EXCEPT ![victim] = IF victim = t THEN @ ELSE NoFrame,
                                         ![t] = IF self /\ waits THEN NoFrame ELSE @]
  /\ UNCHANGED <<registered, queued, deadLetters>>

\* Whoever is registered by now goes; nobody being there is a KeyError, which
\* ends a connection and a heartbeat, and a delivery's attempt at the channel.
Unregister(t) ==
  /\ At(t, "unregister")
  /\ IF registered # Nobody
       THEN registered' = Nobody /\ GoOn(t, frame[t].back) /\ UNCHANGED <<sock, frame>>
       ELSE /\ UNCHANGED registered
            /\ IF t[1] = "delivery"
                 THEN GoOn(t, "fcm") /\ UNCHANGED <<sock, frame>>
                 ELSE /\ Finish(t)
                      /\ sock' = IF t[1] = "endpoint" THEN [sock EXCEPT ![t[2]] = "closed"] ELSE sock
  /\ UNCHANGED <<pulse, queued, deadLetters>>

-----------------------------------------------------------------------------
(* The endpoint of a connection, and its heartbeat.                          *)

\* connect, after the socket is accepted.
Arrive(c) ==
  /\ At(Endpoint(c), "idle")
  /\ sock' = [sock EXCEPT ![c] = "open"]
  /\ GoOn(Endpoint(c), "check")
  /\ UNCHANGED <<registered, pulse, queued, deadLetters, frame>>

Check(c) ==
  LET t == Endpoint(c) IN
  /\ At(t, "check")
  /\ IF registered = Nobody THEN GoOn(t, "register") /\ UNCHANGED frame
     ELSE GoOn(t, "disconnect") /\ frame' = [frame EXCEPT ![t].back = "register"]
  /\ UNCHANGED <<sock, registered, pulse, queued, deadLetters>>

Register(c) ==
  LET t == Endpoint(c) IN
  /\ At(t, "register")
  /\ registered' = c /\ pulse' = c
  /\ mailAt' = [mailAt EXCEPT ![Beat(c)] = "sleep", ![t] = IF queued = 0 THEN "confirm" ELSE "flush"]
  /\ running' = t /\ frame' = [frame EXCEPT ![t].i = 1]
  /\ UNCHANGED <<sock, queued, deadLetters>>

\* _send_queued_messages iterates over the live list, to which send_to_user
\* may append.
Flush(c) ==
  LET t == Endpoint(c)
      length == IF frame[t].kept > 0 THEN frame[t].kept ELSE queued IN
  /\ At(t, "flush")
  /\ IF frame[t].i <= length
       THEN GoOn(t, "send") /\ frame' = [frame EXCEPT ![t].next = "flush", ![t].i = @ + 1]
       ELSE GoOn(t, "drop") /\ UNCHANGED frame
  /\ UNCHANGED <<sock, registered, pulse, queued, deadLetters>>

Flushing == {t \in Coroutines : frame[t].next = "flush" /\ frame[t].kept = 0 /\ mailAt[t] # "ended"}

\* The queue's entry is deleted with all it has got by now; the lists other
\* connections are iterating over stay as they are.  An entry that is gone
\* is a KeyError: connect fails, and with it the connection.
Drop(c) ==
  LET t == Endpoint(c) IN
  /\ At(t, "drop")
  /\ IF queued = 0
       THEN EndpointEnds(c) /\ sock' = [sock EXCEPT ![c] = "closed"]
       ELSE /\ GoOn(t, "confirm") /\ UNCHANGED sock
            /\ frame' = [u \in Coroutines |-> IF u \in Flushing \ {t}
                                                THEN [frame[u] EXCEPT !.kept = queued] ELSE frame[u]]
  /\ queued' = 0
  /\ UNCHANGED <<registered, pulse, deadLetters>>

Confirm(c) ==
  LET t == Endpoint(c) IN
  /\ At(t, "confirm")
  /\ GoOn(t, "send") /\ frame' = [frame EXCEPT ![t] = [NoFrame EXCEPT !.next = "listen"]]
  /\ UNCHANGED <<sock, registered, pulse, queued, deadLetters>>

\* receive_json: the client is gone, or the server has closed the socket, or
\* the message cannot be handled.
Leave(c) ==
  LET t == Endpoint(c) IN
  /\ At(t, "listen")
  /\ GoOn(t, "disconnect") /\ frame' = [frame EXCEPT ![t].back = "ended"]
  /\ UNCHANGED <<sock, registered, pulse, queued, deadLetters>>

\* Back from disconnect, or nothing to receive yet.
Depart(t) ==
  /\ running = t /\ mailAt[t] \in {"ended", "listen"}
  /\ Await(t, mailAt[t]) /\ frame' = [frame EXCEPT ![t] = NoFrame]
  /\ sock' = IF mailAt[t] = "ended" /\ t[1] = "endpoint" THEN [sock EXCEPT ![t[2]] = "closed"] ELSE sock
  /\ UNCHANGED <<registered, pulse, queued, deadLetters>>

\* _heartbeat_loop
WakeUp(c) ==
  LET t == Beat(c) IN
  /\ At(t, "sleep")
  /\ IF registered = Nobody THEN Finish(t)
     ELSE Await(t, "ping") /\ frame' = [frame EXCEPT ![t].ws = registered]
  /\ UNCHANGED <<sock, registered, pulse, queued, deadLetters>>

\* Variant: a failed ping ends the loop and leaves the user registered.
PingGivesUp(c) ==
  LET t == Beat(c)  ws == frame[t].ws IN
  /\ At(t, "ping")
  /\ IF sock[ws] = "open" THEN Await(t, "sleep") /\ frame' = [frame EXCEPT ![t] = NoFrame]
     ELSE Finish(t)
  /\ UNCHANGED <<sock, registered, pulse, queued, deadLetters>>

Ping(c) ==
  LET t == Beat(c)  ws == frame[t].ws IN
  /\ At(t, "ping")
  /\ IF sock[ws] = "open" /\ registered # Nobody
       THEN Await(t, "sleep") /\ frame' = [frame EXCEPT ![t] = NoFrame] /\ UNCHANGED sock
       ELSE /\ GoOn(t, "disconnect") /\ frame' = [frame EXCEPT ![t] = [NoFrame EXCEPT !.back = "ended"]]
            /\ sock' = IF sock[ws] = "dropped" THEN [sock EXCEPT ![ws] = "closed"] ELSE sock
  /\ UNCHANGED <<registered, pulse, queued, deadLetters>>

-----------------------------------------------------------------------------
(* NotificationService.send over the channels websocket and fcm.             *)

BeginDelivery(n) ==
  LET t == Delivery(n) IN
  /\ At(t, "idle")
  /\ GoOn(t, "channel") /\ frame' = [frame EXCEPT ![t].attempt = 1]
  /\ UNCHANGED <<sock, registered, pulse, queued, deadLetters>>

Channel(n) ==
  LET t == Delivery(n) IN
  /\ At(t, "channel")
  /\ IF registered # Nobody
       THEN GoOn(t, "send") /\ frame' = [frame EXCEPT ![t].next = "sent"]
       ELSE Await(t, "fcm") /\ UNCHANGED frame
  /\ UNCHANGED <<sock, registered, pulse, queued, deadLetters>>

Sent(n) ==
  LET t == Delivery(n) IN
  /\ At(t, "sent")
  /\ IF frame[t].ok THEN Finish(t)
     ELSE Await(t, "fcm") /\ frame' = [frame EXCEPT ![t] = [NoFrame EXCEPT !.attempt = frame[t].attempt]]
  /\ UNCHANGED <<sock, registered, pulse, queued, deadLetters>>

\* The push is accepted, or the channels are tried again after a pause, or
\* the notification becomes a dead letter.
Push(n) ==
  LET t == Delivery(n) IN
  /\ At(t, "fcm")
  /\ \/ Finish(t) /\ UNCHANGED deadLetters
     \/ /\ frame[t].attempt < MaxAttempts
        /\ Await(t, "backoff") /\ UNCHANGED <<frame, deadLetters>>
     \/ /\ frame[t].attempt >= MaxAttempts
        /\ Finish(t) /\ deadLetters' = deadLetters \cup {n}
  /\ UNCHANGED <<sock, registered, pulse, queued>>

\* Variant: the attempt is not counted.
RetryForever(n) ==
  LET t == Delivery(n) IN
  /\ At(t, "backoff")
  /\ GoOn(t, "channel") /\ UNCHANGED frame
  /\ UNCHANGED <<sock, registered, pulse, queued, deadLetters>>

Retry(n) ==
  LET t == Delivery(n) IN
  /\ At(t, "backoff")
  /\ GoOn(t, "channel") /\ frame' = [frame EXCEPT ![t].attempt = @ + 1]
  /\ UNCHANGED <<sock, registered, pulse, queued, deadLetters>>

-----------------------------------------------------------------------------
ClientDrops(c) ==
  /\ running = Nobody /\ sock[c] = "open"
  /\ sock' = [sock EXCEPT ![c] = "dropped"]
  /\ UNCHANGED <<registered, pulse, queued, deadLetters, running, mailAt, frame>>

Call(t) == Send(t) \/ Write(t) \/ Queue(t) \/ Disconnect(t) \/ Unregister(t) \/ Depart(t)
Handshake(c) == Check(c) \/ Register(c) \/ Flush(c) \/ Drop(c) \/ Confirm(c)
Heartbeat(c) == WakeUp(c) \/ Ping(c)
Deliver(n) == Channel(n) \/ Sent(n) \/ Push(n) \/ Retry(n)

\* What a coroutine that has begun does next; it may also leave.
CoroutineStep(t) ==
  /\ mailAt[t] # "idle"
  /\ \/ Call(t)
     \/ t[1] = "endpoint" /\ Handshake(t[2])
     \/ t[1] = "beat" /\ Heartbeat(t[2])
     \/ t[1] = "delivery" /\ Deliver(t[2])

MailNext ==
  \/ \E t \in Coroutines : CoroutineStep(t)
  \/ \E c \in Sockets : Arrive(c) \/ Leave(c) \/ ClientDrops(c)
  \/ \E n \in Notes : BeginDelivery(n)

MailSpec == MailInit /\ [][MailNext]_mailVars

\* The loop resumes every coroutine whose await is over; an endpoint may
\* listen for ever, a dropped client included.
MailFairness == \A t \in Coroutines : WF_mailVars(CoroutineStep(t))
MailLiveSpec == MailSpec /\ MailFairness

-----------------------------------------------------------------------------
\* Connections, registry and coroutines keep their shape, and the queue its
\* bound.
MailTypeOK ==
  /\ sock \in [Sockets -> SocketState]
  /\ registered \in Sockets \cup {Nobody} /\ pulse \in Sockets \cup {Nobody}
  /\ queued \in 0 .. MaxQueue /\ deadLetters \subseteq Notes
  /\ running \in Coroutines \cup {Nobody}
  /\ mailAt \in [Coroutines -> MailSteps]
  /\ frame \in [Coroutines -> Frames]

\* However connections, heartbeats and deliveries disconnect one another, a
\* registered connection has a heartbeat that will notice its end, or a
\* coroutine about to remove it.
RegisteredIsWatched ==
  registered # Nobody =>
    \/ \E c \in Sockets : mailAt[Beat(c)] \in {"sleep", "ping", "disconnect"}
    \/ \E t \in Coroutines : mailAt[t] = "unregister"

\* Flushing a queue that grows while it is flushed comes to an end, and so do
\* deliveries and disconnections: what has begun is over, or listens.
MailCallsEnd ==
  <>[](\A t \in Coroutines : t[1] # "beat" => mailAt[t] \in {"idle", "listen", "ended"})
=============================================================================
