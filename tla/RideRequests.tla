---------------------------- MODULE RideRequests ----------------------------
(***************************************************************************)
(* Ride requests of passengers, the drivers who accept them, and the       *)
(* guards that keep the rides of one driver apart (backend/app/modules/    *)
(* rides/service.py, crud.py, schema_compat.py).  Rides are published,     *)
(* created by accepting a request, retimed and reactivated by requests     *)
(* that run concurrently; every write of `rides` passes the trigger        *)
(* enforce_ride_time_overlap, which takes an advisory lock of the driver   *)
(* up to the commit, and the handlers take other advisory locks above it.  *)
(***************************************************************************)
EXTENDS Integers, FiniteSets

CONSTANTS
  Drivers,
  Riders,       \* passengers
  Trips,        \* primary keys of `rides`: bound the rides
  AskIds,       \* primary keys of `ride_requests`: bound the requests
  AskSessions,  \* HTTP requests: each serves one operation and is then "done"
  Starts,       \* departure times
  Length,       \* duration of a ride, and of a request
  Free          \* no row, nobody

AskOps == {"publish", "insert", "accept", "retime", "reactivate", "ask", "withdraw"}

ASSUME AsksAssumption ==
  /\ Starts \subseteq Nat
  /\ Length \in Nat \ {0}
  /\ Free \notin [driver : Drivers, start : Starts]
  /\ Free \notin Drivers \cup Riders \cup Trips \cup AskIds \cup AskSessions \cup AskOps

VARIABLES
  trip,   \* rows of `rides`, each with the row of the legacy table `bookings`
          \* an acceptance made: its passenger, and whether it is active
  aboard, \* passengers with an active row of `ride_bookings` on each ride
  ask,    \* rows of ride_requests
  askAt,  \* next statement of each session
  deal    \* its local variables

askTables == <<trip, aboard, ask>>
askVars   == <<trip, aboard, ask, askAt, deal>>

TripStatus == {"unused", "open", "in_progress", "cancelled", "completed", "deleted"}
Occupying  == {"open", "in_progress"}   \* what the trigger and the queries look for
TripRows == [status : TripStatus, driver : Drivers \cup {Free},
             start : Nat, rider : Riders \cup {Free}, riding : BOOLEAN]
NoTrip == [status |-> "unused", driver |-> Free, start |-> 0, rider |-> Free, riding |-> FALSE]

AskStatus == {"unused", "pending", "accepted", "cancelled"}
AskRows == [status : AskStatus, owner : Riders \cup {Free}, start : Nat,
            driver : Drivers \cup {Free}, trip : Trips \cup {Free}]
NoAsk == [status |-> "unused", owner |-> Free, start |-> 0, driver |-> Free, trip |-> Free]

AskSteps == {"idle", "done", "query", "trigger", "commit", "askQuery", "askInsert", "askCancel"}
Deals == [op : AskOps \cup {Free}, driver : Drivers \cup {Free}, rider : Riders \cup {Free},
          trip : Trips \cup {Free}, ask : AskIds \cup {Free}, start : Nat]
NoDeal == [op |-> Free, driver |-> Free, rider |-> Free, trip |-> Free, ask |-> Free, start |-> 0]

Overlaps(a, b) == a < b + Length /\ b < a + Length

AsksInit ==
  /\ trip = [r \in Trips |-> NoTrip]
  /\ aboard = [r \in Trips |-> {}]
  /\ ask = [q \in AskIds |-> NoAsk]
  /\ askAt = [s \in AskSessions |-> "idle"]
  /\ deal = [s \in AskSessions |-> NoDeal]

AskGoto(s, step) == askAt' = [askAt EXCEPT ![s] = step]

\* The transaction ends, and with it the locks the session holds.
AskReturn(s) == AskGoto(s, "done") /\ deal' = [deal EXCEPT ![s] = NoDeal]

Inserts == {"publish", "insert", "accept"}
Inserting == {s \in AskSessions : deal[s].op \in Inserts}
UnusedTrips == {r \in Trips : trip[r].status = "unused"}
UnusedAsks  == {q \in AskIds : ask[q].status = "unused"}
FreshOf(keys) == IF keys = {} THEN {} ELSE {CHOOSE k \in keys : TRUE}

\* Bound: an insert begins only when a key will be left for it.
KeyLeft == Cardinality(UnusedTrips) > Cardinality(Inserting)
AskKeyLeft == Cardinality(UnusedAsks) > Cardinality({s \in AskSessions : deal[s].op = "ask"})

BeginDeal(s, d, step) ==
  /\ askAt[s] = "idle"
  /\ deal' = [deal EXCEPT ![s] = d]
  /\ AskGoto(s, step)
  /\ UNCHANGED askTables

-----------------------------------------------------------------------------
(* Rides of drivers.                                                         *)

\* _find_driver_overlap, and the query of the trigger.
DriverEngaged(d, w, but) ==
  \E r \in Trips \ {but} : /\ trip[r].status \in Occupying
                           /\ trip[r].driver = d
                           /\ Overlaps(trip[r].start, w)

\* v1 create_ride_service, and v2 create_ride or a materialized instance,
\* which go straight to the insert.
BeginPublish(s, d, w) ==
  KeyLeft /\ BeginDeal(s, [NoDeal EXCEPT !.op = "publish", !.driver = d, !.start = w], "query")
BeginInsert(s, d, w) ==
  KeyLeft /\ BeginDeal(s, [NoDeal EXCEPT !.op = "insert", !.driver = d, !.start = w], "trigger")

\* pg_advisory_xact_lock of the scope "driver-create-ride".
CreateLockFree(s) ==
  \A t \in AskSessions \ {s} :
    ~(deal[t].op = "publish" /\ deal[t].driver = deal[s].driver /\ askAt[t] \in {"trigger", "commit"})

QueryRides(s) ==
  /\ askAt[s] = "query" /\ CreateLockFree(s)
  /\ IF DriverEngaged(deal[s].driver, deal[s].start, Free)
       THEN AskReturn(s)
       ELSE AskGoto(s, "trigger") /\ UNCHANGED deal
  /\ UNCHANGED askTables

\* v1 update_ride changes the departure, also of a ride the driver has
\* cancelled; the v2 patch sets any ride back to open.
BeginRetime(s, r, w) ==
  /\ trip[r].status \in {"open", "cancelled"} /\ w # trip[r].start
  /\ BeginDeal(s, [NoDeal EXCEPT !.op = "retime", !.driver = trip[r].driver,
                                 !.trip = r, !.start = w], "trigger")
BeginReactivate(s, r) ==
  /\ trip[r].status \in {"cancelled", "completed"}
  /\ BeginDeal(s, [NoDeal EXCEPT !.op = "reactivate", !.driver = trip[r].driver, !.trip = r], "trigger")

\* Variant: the request is claimed before its ride exists.
AcceptClaims(s, d, q) ==
  /\ ask[q].status = "pending" /\ KeyLeft /\ askAt[s] = "idle"
  /\ ask' = [ask EXCEPT ![q].status = "accepted", ![q].driver = d]
  /\ deal' = [deal EXCEPT ![s] = [NoDeal EXCEPT !.op = "accept", !.driver = d, !.rider = ask[q].owner,
                                                !.ask = q, !.start = ask[q].start]]
  /\ AskGoto(s, "trigger")
  /\ UNCHANGED <<trip, aboard>>

\* accept_ride_request_service: loads the request without a lock, then asks
\* the maps service for the route.
BeginAccept(s, d, q) ==
  /\ ask[q].status = "pending" /\ KeyLeft
  /\ BeginDeal(s, [NoDeal EXCEPT !.op = "accept", !.driver = d, !.rider = ask[q].owner,
                                 !.ask = q, !.start = ask[q].start], "trigger")

\* The row the statement of s writes, as the trigger sees it in NEW.
Departure(s) == IF deal[s].op = "reactivate" THEN trip[deal[s].trip].start ELSE deal[s].start

\* Variant: the trigger watches inserts only.
OccupiesInsert(s) == deal[s].op \in Inserts

Occupies(s) == deal[s].op = "retime" => trip[deal[s].trip].status \in Occupying

\* pg_advisory_xact_lock of 'ride-overlap:' and the driver, inside the trigger.
Guarded(s) == askAt[s] = "commit" /\ Occupies(s)

\* Variant: the lock is taken ahead of the statement, by whoever means to write.
OverlapLockEarly(s, d) ==
  \A t \in AskSessions \ {s} : ~(askAt[t] \in {"trigger", "commit"} /\ deal[t].driver = d)

OverlapLockFree(s, d) == \A t \in AskSessions \ {s} : ~(Guarded(t) /\ deal[t].driver = d)

\* The row lock of an UPDATE that is not committed yet.
RowFree(s, r) ==
  \A t \in AskSessions \ {s} : ~(askAt[t] = "commit" /\ deal[t].trip = r /\ r # Free)

Vanished(s) == deal[s].trip # Free /\ trip[deal[s].trip].status = "deleted"

\* Variant: the trigger does not serialize the writers of one driver.
TriggerUnlocked(s) ==
  /\ askAt[s] = "trigger"
  /\ IF Vanished(s) \/ (Occupies(s) /\ DriverEngaged(deal[s].driver, Departure(s), deal[s].trip))
       THEN AskReturn(s)
       ELSE AskGoto(s, "commit") /\ UNCHANGED deal
  /\ UNCHANGED askTables

\* INSERT or UPDATE up to the end of the trigger.  A row that occupies no
\* slot is neither locked nor compared; an overlap raises 23P01, which the
\* handlers turn into a refusal.
Trigger(s) ==
  /\ askAt[s] = "trigger"
  /\ RowFree(s, deal[s].trip)
  /\ Vanished(s) \/ (Occupies(s) => OverlapLockFree(s, deal[s].driver))
  /\ IF Vanished(s) \/ (Occupies(s) /\ DriverEngaged(deal[s].driver, Departure(s), deal[s].trip))
       THEN AskReturn(s)
       ELSE AskGoto(s, "commit") /\ UNCHANGED deal
  /\ UNCHANGED askTables

\* The ride, and for an acceptance the rider's legacy booking and the request
\* row, whatever has become of the request since it was loaded.
CommitInsert(s) ==
  /\ askAt[s] = "commit" /\ deal[s].op \in Inserts
  /\ \E r \in FreshOf(UnusedTrips) :
       /\ trip' = [trip EXCEPT ![r] = [status |-> "open", driver |-> deal[s].driver,
                                       start |-> deal[s].start, rider |-> deal[s].rider,
                                       riding |-> deal[s].rider # Free]]
       /\ ask' = IF deal[s].op # "accept" THEN ask
                 ELSE [ask EXCEPT ![deal[s].ask].status = "accepted",
                                  ![deal[s].ask].driver = deal[s].driver,
                                  ![deal[s].ask].trip = r]
  /\ AskReturn(s)
  /\ UNCHANGED aboard

CommitUpdate(s) ==
  /\ askAt[s] = "commit" /\ deal[s].op \in {"retime", "reactivate"}
  /\ trip' = IF deal[s].op = "retime"
               THEN [trip EXCEPT ![deal[s].trip].start = deal[s].start]
               ELSE [trip EXCEPT ![deal[s].trip].status = "open"]
  /\ AskReturn(s)
  /\ UNCHANGED <<aboard, ask>>

ValidMoves == {<<"open", "in_progress">>, <<"open", "cancelled">>, <<"in_progress", "completed">>}

\* v1 update_ride_status_service: completing a ride completes its bookings.
SetStatus(r, new) ==
  /\ <<trip[r].status, new>> \in ValidMoves
  /\ RowFree(Free, r)
  /\ new \in Occupying => (/\ OverlapLockFree(Free, trip[r].driver)
                           /\ ~DriverEngaged(trip[r].driver, trip[r].start, r))
  /\ trip' = [trip EXCEPT ![r].status = new,
                          ![r].riding = IF new = "completed" THEN FALSE ELSE @]
  /\ aboard' = IF new = "completed" THEN [aboard EXCEPT ![r] = {}] ELSE aboard
  /\ UNCHANGED <<ask, askAt, deal>>

\* v1 delete_ride, once no booking is active: bookings go with the ride, a
\* request that led to it stays accepted without it (SET NULL).
DeleteTrip(r) ==
  /\ trip[r].status \notin {"unused", "deleted"} /\ ~trip[r].riding /\ aboard[r] = {}
  /\ RowFree(Free, r)
  /\ trip' = [trip EXCEPT ![r].status = "deleted", ![r].rider = Free]
  /\ ask' = [q \in AskIds |-> IF ask[q].trip = r THEN [ask[q] EXCEPT !.trip = Free] ELSE ask[q]]
  /\ UNCHANGED <<aboard, askAt, deal>>

-----------------------------------------------------------------------------
(* Requests of passengers.                                                   *)

\* _find_passenger_overlap: ride_bookings, bookings, ride_requests.
RiderEngaged(p, w) ==
  \/ \E r \in Trips : /\ trip[r].status \in Occupying /\ Overlaps(trip[r].start, w)
                      /\ (p = trip[r].rider /\ trip[r].riding) \/ p \in aboard[r]
  \/ \E q \in AskIds : /\ ask[q].status \in {"pending", "accepted"}
                       /\ ask[q].owner = p /\ Overlaps(ask[q].start, w)

BeginAsk(s, p, w) ==
  AskKeyLeft /\ BeginDeal(s, [NoDeal EXCEPT !.op = "ask", !.rider = p, !.start = w], "askQuery")

\* Variant: the advisory lock is not waited for.
AskLockIgnored(s) == TRUE

\* pg_advisory_xact_lock of the scope "passenger-create-request".
AskLockFree(s) ==
  \A t \in AskSessions \ {s} : ~(askAt[t] = "askInsert" /\ deal[t].rider = deal[s].rider)

QueryAsks(s) ==
  /\ askAt[s] = "askQuery" /\ AskLockFree(s)
  /\ IF RiderEngaged(deal[s].rider, deal[s].start)
       THEN AskReturn(s)
       ELSE AskGoto(s, "askInsert") /\ UNCHANGED deal
  /\ UNCHANGED askTables

InsertAsk(s) ==
  /\ askAt[s] = "askInsert"
  /\ \E q \in FreshOf(UnusedAsks) :
       ask' = [ask EXCEPT ![q] = [NoAsk EXCEPT !.status = "pending", !.owner = deal[s].rider,
                                               !.start = deal[s].start]]
  /\ AskReturn(s)
  /\ UNCHANGED <<trip, aboard>>

\* cancel_ride_request_service reads the row, of any status, and writes it
\* unless the status read was CANCELLED already.
BeginWithdraw(s, q) ==
  /\ ask[q].status \in {"pending", "accepted"}
  /\ BeginDeal(s, [NoDeal EXCEPT !.op = "withdraw", !.ask = q], "askCancel")

CommitWithdraw(s) ==
  /\ askAt[s] = "askCancel"
  /\ ask' = [ask EXCEPT ![deal[s].ask].status = "cancelled"]
  /\ AskReturn(s)
  /\ UNCHANGED <<trip, aboard>>

\* book_ride_service: its lock has another scope than that of the requests
\* (RideBooking has its steps).
BoardTrip(p, r) ==
  /\ trip[r].status = "open" /\ ~RiderEngaged(p, trip[r].start)
  /\ aboard' = [aboard EXCEPT ![r] = @ \cup {p}]
  /\ UNCHANGED <<trip, ask, askAt, deal>>

BeginAny(s) ==
  \/ \E d \in Drivers, w \in Starts : BeginPublish(s, d, w) \/ BeginInsert(s, d, w)
  \/ \E r \in Trips, w \in Starts : BeginRetime(s, r, w)
  \/ \E r \in Trips : BeginReactivate(s, r)
  \/ \E d \in Drivers, q \in AskIds : BeginAccept(s, d, q)
  \/ \E p \in Riders, w \in Starts : BeginAsk(s, p, w)
  \/ \E q \in AskIds : BeginWithdraw(s, q)

AskStep(s) ==
  /\ askAt[s] \notin {"idle", "done"}
  /\ \/ QueryRides(s) \/ Trigger(s) \/ CommitInsert(s) \/ CommitUpdate(s)
     \/ QueryAsks(s) \/ InsertAsk(s) \/ CommitWithdraw(s)

AsksNext ==
  \/ \E s \in AskSessions : BeginAny(s) \/ AskStep(s)
  \/ \E r \in Trips, new \in TripStatus : SetStatus(r, new)
  \/ \E r \in Trips : DeleteTrip(r) \/ \E p \in Riders : BoardTrip(p, r)

AsksSpec == AsksInit /\ [][AsksNext]_askVars

\* A request that was begun is carried on.
AsksFairness == \A s \in AskSessions : WF_askVars(AskStep(s))
AsksLiveSpec == AsksSpec /\ AsksFairness

-----------------------------------------------------------------------------
\* Rows and sessions keep the shape the models give them.
AsksTypeOK ==
  /\ trip \in [Trips -> TripRows]
  /\ aboard \in [Trips -> SUBSET Riders]
  /\ ask \in [AskIds -> AskRows]
  /\ askAt \in [AskSessions -> AskSteps]
  /\ deal \in [AskSessions -> Deals]

\* The drivers' calendars, read off the rows of `rides`.
Calendar == INSTANCE DriverCalendar WITH
  calendar <- [r \in Trips |-> IF trip[r].status \in Occupying
                                 THEN [driver |-> trip[r].driver, start |-> trip[r].start]
                                 ELSE Free]

\* Publishing, accepting, retiming, reactivating and giving up rides in any
\* interleaving is a run of the calendar: a driver is never on two rides at
\* once, although three of those paths query no overlap of their own.
ImplementsCalendar == Calendar!CalendarSpec

\* The consequence a driver cares about: no two of his rides that are open or
\* under way overlap.
NoDriverDoubleBooked == Calendar!NeverDoubleBooked

\* Two requests of a passenger wait for drivers only in windows that do not
\* meet, however their creation is interleaved with anything else.
NoClashingPending ==
  \A q1, q2 \in {q \in AskIds : ask[q].status = "pending"} :
    q1 # q2 /\ ask[q1].owner = ask[q2].owner => ~Overlaps(ask[q1].start, ask[q2].start)

\* An accepted request names the driver of the ride that came of it, and its
\* passenger has the booking there, also after two drivers accepted it or
\* its passenger cancelled it meanwhile; only the ride's deletion ends that.
AcceptedIsServed ==
  \A q \in AskIds : ask[q].status = "accepted" =>
    /\ ask[q].driver # Free
    /\ ask[q].trip # Free => /\ trip[ask[q].trip].driver = ask[q].driver
                             /\ trip[ask[q].trip].rider = ask[q].owner
    /\ ask[q].trip = Free => \E r \in Trips : trip[r].status = "deleted" /\ trip[r].driver = ask[q].driver

\* The locks of drivers, rows and passengers never leave a request waiting
\* for ever.
AskCallsEnd == <>[](\A s \in AskSessions : askAt[s] \in {"idle", "done"})
=============================================================================
