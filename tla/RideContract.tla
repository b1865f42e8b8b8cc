----------------------------- MODULE RideContract -----------------------------
(***************************************************************************)
(* What the ride endpoints promise a client who sees each request take     *)
(* effect at one instant: the guards of the handlers of /api/v1/rides,     *)
(* judged on the committed tables.  RideBooking is the detailed version.   *)
(***************************************************************************)
EXTENDS Integers, FiniteSets

CONSTANTS Rides, Passengers, BookingIds, None, Clashes, Capacity, MaxParty

VARIABLES rideStatus, booking

Init ==
  /\ rideStatus = [r \in Rides |-> "open"]
  /\ booking = [b \in BookingIds |->
       [status |-> "unused", ride |-> None, passenger |-> None,
        seats |-> 0, pickedUp |-> FALSE, droppedOff |-> FALSE]]

ActiveOn(r) == {b \in BookingIds : /\ booking[b].ride = r
                                   /\ booking[b].status = "booked"}

\* Seats nobody aboard holds, each held seat counted once.
FreeSeats(r) ==
  Capacity - Cardinality({x \in ActiveOn(r) \X (1 .. MaxParty) :
                            x[2] <= booking[x[1]].seats})

\* A passenger is busy while r runs: an active booking on a ride that
\* overlaps r and is open or under way.
Busy(p, r) ==
  \E o \in Rides : /\ <<o, r>> \in Clashes
                   /\ rideStatus[o] \in {"open", "in_progress"}
                   /\ \E b \in ActiveOn(o) : booking[b].passenger = p

Book(b, p, r, n) ==
  /\ booking[b].status = "unused"
  /\ rideStatus[r] = "open"
  /\ n <= FreeSeats(r)
  /\ ~Busy(p, r)
  /\ booking' = [booking EXCEPT ![b] =
       [status |-> "booked", ride |-> r, passenger |-> p, seats |-> n,
        pickedUp |-> FALSE, droppedOff |-> FALSE]]
  /\ UNCHANGED rideStatus

Cancel(b) ==
  /\ booking[b].status = "booked"
  /\ rideStatus[booking[b].ride] \in {"open", "cancelled"}
  /\ booking' = [booking EXCEPT ![b].status = "cancelled"]
  /\ UNCHANGED rideStatus

Start(r) ==
  /\ rideStatus[r] = "open"
  /\ ActiveOn(r) # {}
  /\ rideStatus' = [rideStatus EXCEPT ![r] = "in_progress"]
  /\ UNCHANGED booking

Pickup(b) ==
  /\ booking[b].status = "booked"
  /\ rideStatus[booking[b].ride] = "in_progress"
  /\ booking' = [booking EXCEPT ![b].pickedUp = TRUE]
  /\ UNCHANGED rideStatus

\* A dropoff without a pickup records both.
Dropoff(b) ==
  /\ booking[b].status = "booked"
  /\ rideStatus[booking[b].ride] = "in_progress"
  /\ booking' = [booking EXCEPT ![b].pickedUp = TRUE, ![b].droppedOff = TRUE,
                                ![b].status = "completed"]
  /\ UNCHANGED rideStatus

\* Nobody is left aboard.
Complete(r) ==
  /\ rideStatus[r] = "in_progress"
  /\ ActiveOn(r) = {}
  /\ rideStatus' = [rideStatus EXCEPT ![r] = "completed"]
  /\ UNCHANGED booking

\* The bookings of a cancelled ride stay as they are.
CancelRide(r) ==
  /\ rideStatus[r] = "open"
  /\ rideStatus' = [rideStatus EXCEPT ![r] = "cancelled"]
  /\ UNCHANGED booking

Delete(r) ==
  /\ rideStatus[r] # "deleted"
  /\ ActiveOn(r) = {}
  /\ rideStatus' = [rideStatus EXCEPT ![r] = "deleted"]
  /\ booking' = [b \in BookingIds |->
       IF booking[b].ride = r THEN [booking[b] EXCEPT !.status = "deleted"]
                              ELSE booking[b]]

Next ==
  \/ \E b \in BookingIds, p \in Passengers, r \in Rides, n \in 1 .. MaxParty :
       Book(b, p, r, n)
  \/ \E b \in BookingIds : Cancel(b) \/ Pickup(b) \/ Dropoff(b)
  \/ \E r \in Rides : Start(r) \/ Complete(r) \/ CancelRide(r) \/ Delete(r)

Spec == Init /\ [][Next]_<<rideStatus, booking>>

=============================================================================
