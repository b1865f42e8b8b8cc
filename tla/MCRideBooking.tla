---------------------------- MODULE MCRideBooking ----------------------------
(***************************************************************************)
(* Instances of RideBooking for TLC.                                       *)
(***************************************************************************)
EXTENDS RideBooking, TLC

CONSTANTS d1

\* One driver publishes every ride.
OneDriver == [r \in Rides |-> d1]

\* Rides at different times of the day, or all at the same time.
Disjoint == {<<r, r>> : r \in Rides}
AllClash == Rides \X Rides

Symmetry == Permutations(Passengers) \cup Permutations(BookingIds)
              \cup Permutations(Sessions) \cup Permutations(Rides)

V1Ops == Endpoints \ {"start_trip", "complete_trip", "patch"}
BookOps == {"book"}
BookStatusOps == {"book", "status"}
TwoPathOps == {"book", "status", "start_trip", "complete_trip"}
LockedOps == {"book", "cancel", "pickup", "dropoff", "start_trip", "complete_trip"}

=============================================================================
