----------------------------- MODULE RideBooking -----------------------------
(***************************************************************************)
(* Rides and their seat bookings: the HTTP handlers of /api/v1/rides that  *)
(* book, cancel, execute, start, complete, cancel and delete, the two trip *)
(* handlers of /api/v2/trips and the status patch of /api/v2/rides, run by *)
(* concurrent requests against one PostgreSQL database.                    *)
(*                                                                         *)
(* A request is a session s with a program counter pc[s] and the rows it   *)
(* has loaded, txn[s].  The database runs at READ COMMITTED and a request  *)
(* commits several times, so every action is one statement group that      *)
(* ends at a lock acquisition or at a commit.  The ORM session keeps the   *)
(* first version it loads of a row: a later SELECT of the same row, the    *)
(* one that says FOR UPDATE included, returns the attributes loaded first  *)
(* (autoflush and expire_on_commit are off, nothing asks for               *)
(* populate_existing).  The seen... fields of txn are those attributes.    *)
(*                                                                         *)
(* Every transaction that writes a ride_bookings row also locks or writes  *)
(* its rides row, so the rides row lock stands for both.  The completion   *)
(* of a ride alone updates the bookings first and the ride at its commit:  *)
(* until then it holds the bookings and not the ride.                      *)
(***************************************************************************)
EXTENDS Integers, FiniteSets

CONSTANTS
  Rides, Passengers, Drivers,
  BookingIds,   \* identities of ride_bookings rows; bounds the inserts
  Sessions,     \* requests that can be in flight together
  None,
  DriverOf,     \* the driver of each ride
  Clashes,      \* pairs of rides whose time windows overlap
  Capacity,     \* seats_available of a ride when it is published
  MaxParty,     \* largest booked_seats of a request
  Ops,          \* the endpoints that clients call
  Faults,       \* whether a request may die between two of its commits
  MaxTotal      \* bound on total_rides of a driver

Endpoints == {"book", "cancel", "route", "status", "delete", "pickup",
              "dropoff", "start_trip", "complete_trip", "patch"}

ASSUME RidesAssumption ==
  /\ DriverOf \in [Rides -> Drivers]
  /\ Clashes \subseteq Rides \X Rides
  /\ \A r \in Rides : <<r, r>> \in Clashes
  /\ None \notin Rides \cup Passengers \cup BookingIds \cup Sessions
ASSUME FiniteAssumption == IsFiniteSet(Rides) /\ IsFiniteSet(BookingIds)
ASSUME BoundsAssumption ==
  /\ Capacity \in Nat
  /\ MaxParty \in Nat
  /\ MaxTotal \in Nat
  /\ Ops \subseteq Endpoints
  /\ Faults \in BOOLEAN

VARIABLES
  rideStatus,      \* rides.status, "deleted" once the row is gone
  seatsAvailable,  \* rides.seats_available
  plan,            \* bookings the persisted route plan of a ride visits
  booking,         \* ride_bookings rows
  totalRides,      \* driver profile: total_rides
  rowLock,         \* session that holds the row lock of a ride
  slotLock,        \* session that holds passenger-book-ride:<user>
  pc, txn

tables == <<rideStatus, seatsAvailable, plan, booking, totalRides>>
vars == <<tables, rowLock, slotLock, pc, txn>>

RideStatus == {"open", "in_progress", "completed", "cancelled"}

Bookings == [status : {"unused", "booked", "cancelled", "completed", "deleted"},
             ride : Rides \cup {None}, passenger : Passengers \cup {None},
             seats : 0 .. MaxParty, pickedUp : BOOLEAN, droppedOff : BOOLEAN]

NoBooking == [status |-> "unused", ride |-> None, passenger |-> None,
              seats |-> 0, pickedUp |-> FALSE, droppedOff |-> FALSE]

Steps == {"idle", "bookSlotLock", "bookSlots", "bookRow", "bookCheck",
          "bookCommit", "cancelCommit", "planRead", "planWrite",
          "statusCheck", "statusCommit", "completeCommit", "statsCommit",
          "deleteCommit", "execCommit", "tripCommit", "patchCommit"}

Txns == [op : Endpoints \cup {None}, ride : Rides \cup {None},
         passenger : Passengers \cup {None}, party : 0 .. MaxParty,
         booking : BookingIds \cup {None}, target : RideStatus \cup {None},
         seenStatus : RideStatus \cup {None}, seenSeats : Nat,
         seenTotal : Nat, stops : SUBSET BookingIds, again : BOOLEAN]

NoTxn == [op |-> None, ride |-> None, passenger |-> None, party |-> 0,
          booking |-> None, target |-> None, seenStatus |-> None,
          seenSeats |-> 0, seenTotal |-> 0, stops |-> {}, again |-> FALSE]

Init ==
  /\ rideStatus = [r \in Rides |-> "open"]
  /\ seatsAvailable = [r \in Rides |-> Capacity]
  /\ plan = [r \in Rides |-> {}]
  /\ booking = [b \in BookingIds |-> NoBooking]
  /\ totalRides = [d \in Drivers |-> 0]
  /\ rowLock = [r \in Rides |-> None]
  /\ slotLock = [p \in Passengers |-> None]
  /\ pc = [s \in Sessions |-> "idle"]
  /\ txn = [s \in Sessions |-> NoTxn]

-----------------------------------------------------------------------------
(* Queries on the committed tables.                                        *)

Exists(r) == rideStatus[r] # "deleted"

BookingsOf(r) == {b \in BookingIds : booking[b].ride = r
                                     /\ booking[b].status # "deleted"}

ActiveBookings(r) == {b \in BookingsOf(r) : booking[b].status = "booked"}

HasActiveBooking(p, r) ==
  \E b \in ActiveBookings(r) : booking[b].passenger = p

\* An active booking of p on an open or started ride that overlaps r.
SlotTaken(p, r) ==
  \E o \in Rides : /\ <<o, r>> \in Clashes
                   /\ rideStatus[o] \in {"open", "in_progress"}
                   /\ HasActiveBooking(p, o)

\* Bookings not cancelled that lack a pickup or a dropoff time.
PendingStops(r) ==
  {b \in BookingsOf(r) : /\ booking[b].status # "cancelled"
                         /\ ~(booking[b].pickedUp /\ booking[b].droppedOff)}

-----------------------------------------------------------------------------
(* Sessions: begin, lock, commit, roll back.                               *)

Load(s, t, next) ==
  /\ pc[s] = "idle"
  /\ t.op \in Ops
  /\ txn' = [txn EXCEPT ![s] = t]
  /\ pc' = [pc EXCEPT ![s] = next]

Goto(s, next) == pc' = [pc EXCEPT ![s] = next]

RowFree(r) == rowLock[r] = None

\* Variant: a completion reads the bookings instead of updating them.
BookingNotHeld(b) == TRUE

\* No completion has updated the booking, and no pickup or dropoff locked it.
BookingFree(b) ==
  \A s \in Sessions : /\ pc[s] = "completeCommit" => b \notin txn[s].stops
                      /\ pc[s] = "execCommit" => b # txn[s].booking

\* Variant: SELECT without FOR UPDATE.
LockRowNot(s, r) == UNCHANGED rowLock

LockRow(s, r) == RowFree(r) /\ rowLock' = [rowLock EXCEPT ![r] = s]

\* Variant: the advisory lock outlives the transaction.
ReleaseRowsOnly(s) ==
  /\ rowLock' = [r \in Rides |-> IF rowLock[r] = s THEN None ELSE rowLock[r]]
  /\ UNCHANGED slotLock

ReleaseLocks(s) ==
  /\ rowLock' = [r \in Rides |-> IF rowLock[r] = s THEN None ELSE rowLock[r]]
  /\ slotLock' = [p \in Passengers |->
                    IF slotLock[p] = s THEN None ELSE slotLock[p]]

\* The end of the request: what was not committed is rolled back.
Finish(s) ==
  /\ Goto(s, "idle")
  /\ txn' = [txn EXCEPT ![s] = NoTxn]
  /\ ReleaseLocks(s)

Refuse(s) == Finish(s) /\ UNCHANGED tables

\* On to the route plan, with the ride object and the rows still loaded.
GotoPlan(s) ==
  /\ Goto(s, "planRead")
  /\ txn' = [txn EXCEPT ![s] =
       [NoTxn EXCEPT !.ride = txn[s].ride, !.stops = txn[s].stops,
                     !.seenStatus = txn[s].seenStatus]]

-----------------------------------------------------------------------------
(* POST /bookings                                                          *)

\* Bound: a request for a booking begins while an identity is left for it.
IdentityLeft ==
  Cardinality({s \in Sessions : txn[s].op = "book"})
    < Cardinality({b \in BookingIds : booking[b].status = "unused"})

BookLoad(s, p, r, n) ==
  /\ IdentityLeft
  /\ Exists(r)
  /\ Load(s, [NoTxn EXCEPT !.op = "book", !.ride = r, !.passenger = p,
                           !.party = n, !.seenStatus = rideStatus[r],
                           !.seenSeats = seatsAvailable[r]], "bookSlotLock")
  /\ UNCHANGED <<tables, rowLock, slotLock>>

\* Variant: the advisory lock is not waited for.
SlotAlwaysFree(p) == TRUE

SlotFree(p) == slotLock[p] = None

BookSlotLock(s) ==
  /\ pc[s] = "bookSlotLock"
  /\ SlotFree(txn[s].passenger)
  /\ slotLock' = [slotLock EXCEPT ![txn[s].passenger] = s]
  /\ Goto(s, "bookSlots")
  /\ UNCHANGED <<tables, rowLock, txn>>

\* The overlap query, then the detour guard against the other passengers,
\* whose rows stay loaded in the session.  The guard's geometry is left
\* open: with other passengers aboard it may refuse.
BookSlots(s) ==
  LET t == txn[s]
      aboard == IF t.seenStatus = "open" THEN ActiveBookings(t.ride) ELSE {}
  IN /\ pc[s] = "bookSlots"
     /\ \/ SlotTaken(t.passenger, t.ride) /\ Refuse(s)
        \/ aboard # {} /\ Refuse(s)
        \/ /\ ~SlotTaken(t.passenger, t.ride)
           /\ txn' = [txn EXCEPT ![s].stops = aboard]
           /\ Goto(s, "bookRow")
           /\ UNCHANGED <<tables, rowLock, slotLock>>

\* SELECT ... FOR UPDATE of the ride.
BookRow(s) ==
  LET r == txn[s].ride
  IN /\ pc[s] = "bookRow"
     /\ \/ ~Exists(r) /\ RowFree(r) /\ Refuse(s)
        \/ /\ Exists(r)
           /\ LockRow(s, r)
           /\ Goto(s, "bookCheck")
           /\ UNCHANGED <<tables, slotLock, txn>>

\* Variant: the seats are not compared.
SeatsUnchecked(t) == TRUE

SeatsSuffice(t) == t.seenSeats >= t.party

\* Variant: the overlap query is trusted to find the passenger's booking.
BookAllowedUnlessSlot(t) == t.seenStatus = "open" /\ SeatsSuffice(t)

\* Status and seats are the attributes loaded by BookLoad; the query for a
\* booking of the same passenger reads the table.
BookAllowed(t) ==
  /\ t.seenStatus = "open"
  /\ SeatsSuffice(t)
  /\ ~HasActiveBooking(t.passenger, t.ride)

BookCheck(s) ==
  LET t == txn[s]
  IN /\ pc[s] = "bookCheck"
     /\ \/ ~BookAllowed(t) /\ Refuse(s)
        \/ /\ BookAllowed(t)
           /\ Goto(s, "bookCommit")
           /\ UNCHANGED <<tables, rowLock, slotLock, txn>>

BookCommit(s) ==
  LET t == txn[s]
  IN /\ pc[s] = "bookCommit"
     /\ \E b \in BookingIds :
          /\ booking[b].status = "unused"
          /\ booking' = [booking EXCEPT ![b] =
               [NoBooking EXCEPT !.status = "booked", !.ride = t.ride,
                                 !.passenger = t.passenger, !.seats = t.party]]
     /\ seatsAvailable' = [seatsAvailable EXCEPT
                             ![t.ride] = t.seenSeats - t.party]
     /\ GotoPlan(s)
     /\ ReleaseLocks(s)
     /\ UNCHANGED <<rideStatus, plan, totalRides>>

-----------------------------------------------------------------------------
(* The route plan, recomputed after a booking, a cancellation or a route   *)
(* selection; a failure of it is logged and dropped.                       *)

\* Variant: only the rows loaded by the detour guard.
StopsStale(t) == t.stops \cap BookingsOf(t.ride)

\* Rows already loaded keep the status they were loaded with.
StopsToPlan(t) ==
  ActiveBookings(t.ride) \cup (t.stops \cap BookingsOf(t.ride))

PlanRead(s) ==
  LET t == txn[s]
  IN /\ pc[s] = "planRead"
     /\ \/ t.seenStatus # "open" /\ Refuse(s)
        \/ /\ t.seenStatus = "open"
           /\ txn' = [txn EXCEPT ![s].stops = StopsToPlan(t)]
           /\ Goto(s, "planWrite")
           /\ UNCHANGED <<tables, rowLock, slotLock>>

\* A route selection on a ride without alternatives plans twice: first to
\* obtain the alternatives, then with the chosen one.
PlanWrite(s) ==
  LET t == txn[s]
      replan == t.again /\ t.stops # {}
  IN /\ pc[s] = "planWrite"
     /\ RowFree(t.ride)
     /\ IF Exists(t.ride) THEN plan' = [plan EXCEPT ![t.ride] = t.stops]
                          ELSE UNCHANGED plan
     /\ \/ /\ replan
           /\ txn' = [txn EXCEPT ![s] = [@ EXCEPT !.again = FALSE, !.stops = {}]]
           /\ Goto(s, "planRead")
           /\ UNCHANGED <<rowLock, slotLock>>
        \/ ~replan /\ Finish(s)
     /\ UNCHANGED <<rideStatus, seatsAvailable, booking, totalRides>>

\* PUT /{ride_id}/route-selection
RouteLoad(s, r) ==
  /\ rideStatus[r] = "open"
  /\ Load(s, [NoTxn EXCEPT !.op = "route", !.ride = r, !.seenStatus = "open",
                           !.again = (plan[r] = {})], "planRead")
  /\ UNCHANGED <<tables, rowLock, slotLock>>

-----------------------------------------------------------------------------
(* PUT /bookings/{booking_id}/cancel                                       *)

CancelAllowed(b) ==
  /\ booking[b].status # "cancelled"
  /\ rideStatus[booking[b].ride] \notin {"in_progress", "completed"}

CancelLoad(s, b) ==
  LET r == booking[b].ride
  IN /\ booking[b].status \notin {"unused", "deleted"}
     /\ Exists(r)
     /\ CancelAllowed(b)
     /\ Load(s, [NoTxn EXCEPT !.op = "cancel", !.ride = r, !.booking = b,
                              !.party = booking[b].seats,
                              !.seenStatus = rideStatus[r],
                              !.seenSeats = seatsAvailable[r]], "cancelCommit")
     /\ UNCHANGED <<tables, rowLock, slotLock>>

\* Variant: a cancellation gives no seats back.
SeatsKept(t) == t.seenSeats

RestoredSeats(t) == t.seenSeats + t.party

\* If the ride and its bookings were deleted the UPDATE matches no row.
CancelCommit(s) ==
  LET t == txn[s]
  IN /\ pc[s] = "cancelCommit"
     /\ RowFree(t.ride) /\ BookingFree(t.booking)
     /\ \/ ~Exists(t.ride) /\ Refuse(s)
        \/ /\ Exists(t.ride)
           /\ booking' = [booking EXCEPT ![t.booking].status = "cancelled"]
           /\ seatsAvailable' = [seatsAvailable EXCEPT
                                   ![t.ride] = RestoredSeats(t)]
           /\ GotoPlan(s)
           /\ UNCHANGED <<rideStatus, plan, totalRides, rowLock, slotLock>>

-----------------------------------------------------------------------------
(* PUT /{ride_id}/status: the driver starts, completes or cancels a ride.  *)

ValidTransitions == {<<"open", "in_progress">>, <<"open", "cancelled">>,
                     <<"in_progress", "completed">>}

\* Loads the ride and the driver profile.
StatusLoad(s, r, new) ==
  /\ <<rideStatus[r], new>> \in ValidTransitions
  /\ new = "completed" => totalRides[DriverOf[r]] < MaxTotal
  /\ Load(s, [NoTxn EXCEPT !.op = "status", !.ride = r, !.target = new,
                           !.seenTotal = totalRides[DriverOf[r]]],
          "statusCheck")
  /\ UNCHANGED <<tables, rowLock, slotLock>>

\* Variant: a ride may be completed with passengers aboard.
StatusAllowedAboard(t) == t.target = "in_progress" => ActiveBookings(t.ride) # {}

StatusAllowed(t) ==
  /\ t.target = "in_progress" => ActiveBookings(t.ride) # {}
  /\ t.target = "completed" => PendingStops(t.ride) = {}

StatusCheck(s) ==
  /\ pc[s] = "statusCheck"
  /\ \/ ~StatusAllowed(txn[s]) /\ Refuse(s)
     \/ /\ StatusAllowed(txn[s])
        /\ Goto(s, "statusCommit")
        /\ UNCHANGED <<tables, rowLock, slotLock, txn>>

StatusCommit(s) ==
  LET t == txn[s]
  IN /\ pc[s] = "statusCommit" /\ t.target # "completed"
     /\ RowFree(t.ride)
     /\ \/ ~Exists(t.ride) /\ Refuse(s)
        \/ /\ Exists(t.ride)
           /\ rideStatus' = [rideStatus EXCEPT ![t.ride] = t.target]
           /\ Finish(s)
           /\ UNCHANGED <<seatsAvailable, plan, booking, totalRides>>

\* Completing the ride completes the bookings that are active by then: one
\* UPDATE sent before the ride's own, which waits for the commit.
CompleteBookings(s) ==
  LET t == txn[s]
  IN /\ pc[s] = "statusCommit" /\ t.target = "completed"
     /\ \A b \in ActiveBookings(t.ride) : BookingFree(b)
     /\ txn' = [txn EXCEPT ![s].stops = ActiveBookings(t.ride)]
     /\ Goto(s, "completeCommit")
     /\ UNCHANGED <<tables, rowLock, slotLock>>

CompleteCommit(s) ==
  LET t == txn[s]
  IN /\ pc[s] = "completeCommit"
     /\ RowFree(t.ride)
     /\ \/ ~Exists(t.ride) /\ Refuse(s)
        \/ /\ Exists(t.ride)
           /\ rideStatus' = [rideStatus EXCEPT ![t.ride] = t.target]
           /\ booking' = [b \in BookingIds |->
                            IF b \in t.stops
                            THEN [booking[b] EXCEPT !.status = "completed"]
                            ELSE booking[b]]
           /\ Goto(s, "statsCommit")
           /\ UNCHANGED <<seatsAvailable, plan, totalRides, rowLock, slotLock, txn>>

\* Variant: the counter is written back as it was read.
TotalUnchanged(t) == t.seenTotal

CreditedTotal(t) == t.seenTotal + 1

\* The second commit of a completion: the driver's counters.
StatsCommit(s) ==
  LET d == DriverOf[txn[s].ride]
  IN /\ pc[s] = "statsCommit"
     /\ totalRides' = [totalRides EXCEPT ![d] = CreditedTotal(txn[s])]
     /\ Finish(s)
     /\ UNCHANGED <<rideStatus, seatsAvailable, plan, booking>>

-----------------------------------------------------------------------------
(* DELETE /{ride_id}                                                       *)

DeleteLoad(s, r) ==
  /\ Exists(r)
  /\ ActiveBookings(r) = {}
  /\ Load(s, [NoTxn EXCEPT !.op = "delete", !.ride = r], "deleteCommit")
  /\ UNCHANGED <<tables, rowLock, slotLock>>

\* The foreign key deletes the bookings with the ride.
DeleteCommit(s) ==
  LET r == txn[s].ride
  IN /\ pc[s] = "deleteCommit"
     /\ RowFree(r) /\ \A b \in BookingsOf(r) : BookingFree(b)
     /\ rideStatus' = [rideStatus EXCEPT ![r] = "deleted"]
     /\ plan' = [plan EXCEPT ![r] = {}]
     /\ booking' = [b \in BookingIds |->
                      IF b \in BookingsOf(r)
                      THEN [booking[b] EXCEPT !.status = "deleted"]
                      ELSE booking[b]]
     /\ Finish(s)
     /\ UNCHANGED <<seatsAvailable, totalRides>>

-----------------------------------------------------------------------------
(* PUT /bookings/{booking_id}/pickup-complete and /dropoff-complete        *)

\* Variant: the status of the ride is not looked at.
ExecAllowedAnyRide(b) == booking[b].status = "booked"

ExecAllowed(b) ==
  /\ booking[b].status = "booked"
  /\ rideStatus[booking[b].ride] = "in_progress"

\* SELECT booking JOIN ride FOR UPDATE, then the guards on the locked rows.
ExecLock(s, b, op) ==
  LET r == booking[b].ride
  IN /\ ExecAllowed(b) /\ BookingFree(b)
     /\ Load(s, [NoTxn EXCEPT !.op = op, !.ride = r, !.booking = b],
             "execCommit")
     /\ LockRow(s, r)
     /\ UNCHANGED <<tables, slotLock>>

ExecCommit(s) ==
  LET t == txn[s]
  IN /\ pc[s] = "execCommit"
     /\ booking' = [booking EXCEPT ![t.booking] =
          IF t.op = "pickup"
          THEN [@ EXCEPT !.pickedUp = TRUE]
          ELSE [@ EXCEPT !.pickedUp = TRUE, !.droppedOff = TRUE,
                         !.status = "completed"]]
     /\ Finish(s)
     /\ UNCHANGED <<rideStatus, seatsAvailable, plan, totalRides>>

-----------------------------------------------------------------------------
(* POST /api/v2/trips/{ride_id}/start and /complete                        *)

TripAllowed(op, r) ==
  \/ op = "start_trip" /\ rideStatus[r] = "open"
  \/ op = "complete_trip" /\ rideStatus[r] \in {"open", "in_progress"}

\* SELECT ride FOR UPDATE, the first load of the row in this session.
TripLock(s, r, op) ==
  /\ TripAllowed(op, r)
  /\ Load(s, [NoTxn EXCEPT !.op = op, !.ride = r,
                !.target = IF op = "start_trip" THEN "in_progress"
                                                ELSE "completed"],
          "tripCommit")
  /\ LockRow(s, r)
  /\ UNCHANGED <<tables, slotLock>>

\* The bookings it completes are those of the legacy table.
TripCommit(s) ==
  /\ pc[s] = "tripCommit"
  /\ rideStatus' = [rideStatus EXCEPT ![txn[s].ride] = txn[s].target]
  /\ Finish(s)
  /\ UNCHANGED <<seatsAvailable, plan, booking, totalRides>>

-----------------------------------------------------------------------------
(* PATCH /api/v2/rides/{ride_id} with a status.  The guard compares the    *)
(* status with "COMPLETED" and "CANCELLED", which no row holds.            *)

PatchLoad(s, r, new) ==
  /\ Exists(r)
  /\ Load(s, [NoTxn EXCEPT !.op = "patch", !.ride = r, !.target = new],
          "patchCommit")
  /\ UNCHANGED <<tables, rowLock, slotLock>>

PatchCommit(s) ==
  LET t == txn[s]
  IN /\ pc[s] = "patchCommit"
     /\ RowFree(t.ride)
     /\ IF Exists(t.ride)
        THEN rideStatus' = [rideStatus EXCEPT ![t.ride] = t.target]
        ELSE UNCHANGED rideStatus
     /\ Finish(s)
     /\ UNCHANGED <<seatsAvailable, plan, booking, totalRides>>

-----------------------------------------------------------------------------
\* The worker dies, the client disconnects or PostgreSQL aborts the
\* transaction (a deadlock victim included).
Abort(s) ==
  /\ Faults
  /\ pc[s] # "idle"
  /\ Refuse(s)

Begin(s) ==
  \/ \E p \in Passengers, r \in Rides, n \in 1 .. MaxParty : BookLoad(s, p, r, n)
  \/ \E r \in Rides : RouteLoad(s, r) \/ DeleteLoad(s, r)
  \/ \E b \in BookingIds : CancelLoad(s, b)
  \/ \E r \in Rides, new \in RideStatus : StatusLoad(s, r, new)
  \/ \E r \in Rides, new \in RideStatus : PatchLoad(s, r, new)
  \/ \E b \in BookingIds, op \in {"pickup", "dropoff"} : ExecLock(s, b, op)
  \/ \E r \in Rides, op \in {"start_trip", "complete_trip"} : TripLock(s, r, op)

Advance(s) ==
  \/ BookSlotLock(s) \/ BookSlots(s) \/ BookRow(s) \/ BookCheck(s)
  \/ BookCommit(s)
  \/ PlanRead(s) \/ PlanWrite(s)
  \/ CancelCommit(s)
  \/ StatusCheck(s) \/ StatusCommit(s) \/ StatsCommit(s)
  \/ CompleteBookings(s) \/ CompleteCommit(s)
  \/ DeleteCommit(s)
  \/ ExecCommit(s)
  \/ TripCommit(s)
  \/ PatchCommit(s)

Next == \E s \in Sessions : Begin(s) \/ Advance(s) \/ Abort(s)

Spec == Init /\ [][Next]_vars

LiveSpec == Spec /\ \A s \in Sessions : SF_vars(Advance(s))

-----------------------------------------------------------------------------
(* What the code keeps true whatever the interleaving.                     *)

\* Every table and every loaded row has its declared shape; in particular
\* rides.seats_available never drops below zero, because book_ride compares
\* and subtracts the same loaded value.
TypeOK ==
  /\ rideStatus \in [Rides -> RideStatus \cup {"deleted"}]
  /\ seatsAvailable \in [Rides -> Nat]
  /\ plan \in [Rides -> SUBSET BookingIds]
  /\ booking \in [BookingIds -> Bookings]
  /\ totalRides \in [Drivers -> Nat]
  /\ rowLock \in [Rides -> Sessions \cup {None}]
  /\ slotLock \in [Passengers -> Sessions \cup {None}]
  /\ pc \in [Sessions -> Steps]
  /\ txn \in [Sessions -> Txns]

\* book_ride "prevents double booking by same passenger": two requests of
\* one passenger for one ride never both end with an active booking,
\* although each only queries the table before it inserts.
NoDuplicateActiveBooking ==
  \A r \in Rides : \A a, b \in ActiveBookings(r) :
    booking[a].passenger = booking[b].passenger => a = b

\* A passenger holds no two active bookings on overlapping rides that are
\* open or under way: the slot query of book_ride_service runs under the
\* passenger's advisory lock, which lasts until the booking is committed.
NoClashingBookings ==
  \A q, r \in Rides : \A a \in ActiveBookings(q), b \in ActiveBookings(r) :
    /\ <<q, r>> \in Clashes
    /\ {rideStatus[q], rideStatus[r]} \subseteq {"open", "in_progress"}
    /\ booking[a].passenger = booking[b].passenger
    => a = b

\* A cancelled booking is never revived: neither a dropoff nor a ride
\* completion that raced with the cancellation turns it to completed.
CancelledIsFinal ==
  [][\A b \in BookingIds : booking[b].status = "cancelled" =>
       booking'[b].status \in {"cancelled", "deleted"}]_booking

\* A pickup or dropoff time is only ever recorded while the ride is in
\* progress and the booking active, at the instant of the commit and not
\* merely when the driver's request looked.
ExecutionOnlyInProgress ==
  [][\A b \in BookingIds :
       \/ booking'[b].pickedUp /\ ~booking[b].pickedUp
       \/ booking'[b].droppedOff /\ ~booking[b].droppedOff
       => /\ rideStatus[booking[b].ride] = "in_progress"
          /\ booking[b].status = "booked"]_booking

\* The trip handlers re-read the ride under its row lock: as long as only
\* they write the status, it moves forward, whatever passengers do.
TripStatusMonotone ==
  [][\A r \in Rides : rideStatus'[r] # rideStatus[r] =>
       <<rideStatus[r], rideStatus'[r]>> \in
         {<<"open", "in_progress">>, <<"open", "completed">>,
          <<"in_progress", "completed">>}]_rideStatus

\* Every request ends: the advisory lock, then the row lock, then the
\* commits, are taken in an order that cannot leave requests waiting for
\* each other, and every refusal releases what it holds.
EveryRequestEnds == \A s \in Sessions : pc[s] # "idle" ~> pc[s] = "idle"

-----------------------------------------------------------------------------
(* What holds when requests come one after the other.                      *)

\* The seats that the bookings of B hold, each counted once.
Held(B) == {x \in B \X (1 .. MaxParty) : x[2] <= booking[x[1]].seats}

SeatsOf(B) == Cardinality(Held(B))

AllIdle == \A s \in Sessions : pc[s] = "idle"

\* The counter rides.seats_available, which every booking and cancellation
\* rewrites, agrees with the bookings it summarises.
SeatConservation ==
  \A r \in Rides : Exists(r) =>
    seatsAvailable[r] + SeatsOf({b \in BookingsOf(r) :
                                   booking[b].status # "cancelled"}) = Capacity

\* Between requests the persisted plan of an open ride stops for exactly
\* the passengers aboard: a booking and a cancellation each replan in a
\* commit of their own.
PlanCoversActive ==
  AllIdle => \A r \in Rides :
               rideStatus[r] = "open" => plan[r] = ActiveBookings(r)

\* Between requests a driver is credited once for each ride completed
\* (a completed ride may since have been deleted).
RidesCredited ==
  LET Count(d, st) ==
        Cardinality({r \in Rides : DriverOf[r] = d /\ rideStatus[r] = st})
  IN AllIdle => \A d \in Drivers :
       totalRides[d] \in Count(d, "completed") ..
                         Count(d, "completed") + Count(d, "deleted")

Contract == INSTANCE RideContract

\* One request at a time implements RideContract: each handler, with all its
\* reads, locks and commits, takes effect on rides and bookings at once and
\* under guards that are true of the tables at that instant.
ImplementsContract == Contract!Spec

-----------------------------------------------------------------------------
(* What the repository states and concurrent or failing requests break.    *)

\* "booked_seats must be <= ride.available_seats at booking time": the
\* seats held on a ride never exceed the seats it was published with.
NoOverbooking ==
  \A r \in Rides : SeatsOf(ActiveBookings(r)) <= Capacity

\* "Allowed transitions" of update_ride_status_service.
AllowedTransitions ==
  [][\A r \in Rides : rideStatus'[r] \notin {rideStatus[r], "deleted"} =>
       <<rideStatus[r], rideStatus'[r]>> \in ValidTransitions]_rideStatus

\* "When status becomes completed, all bookings are marked completed".
CompletionClosesBookings ==
  \A r \in Rides : rideStatus[r] = "completed" => ActiveBookings(r) = {}

=============================================================================
