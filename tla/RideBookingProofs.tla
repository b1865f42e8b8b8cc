-------------------------- MODULE RideBookingProofs --------------------------
(***************************************************************************)
(* Theorems about RideBooking for every value of its constants.            *)
(***************************************************************************)
EXTENDS RideBooking, TLAPS

(***************************************************************************)
(* Type correctness.  A request's own record must support it: the status   *)
(* it will write exists, and the seats it will subtract were compared with *)
(* those it saw.                                                           *)
(***************************************************************************)
SessionsOK ==
  /\ rowLock \in [Rides -> Sessions \cup {None}]
  /\ slotLock \in [Passengers -> Sessions \cup {None}]
  /\ pc \in [Sessions -> Steps]
  /\ txn \in [Sessions -> Txns]

TablesOK ==
  /\ rideStatus \in [Rides -> RideStatus \cup {"deleted"}]
  /\ seatsAvailable \in [Rides -> Nat]
  /\ plan \in [Rides -> SUBSET BookingIds]
  /\ booking \in [BookingIds -> Bookings]
  /\ totalRides \in [Drivers -> Nat]

RequestOK ==
  \A s \in Sessions :
    /\ pc[s] # "idle" => txn[s].ride \in Rides
    /\ pc[s] = "bookCommit" => txn[s].seenSeats >= txn[s].party
    /\ pc[s] \in {"statusCheck", "statusCommit", "completeCommit", "tripCommit",
                  "patchCommit"}
         => txn[s].target \in RideStatus
    /\ pc[s] \in {"cancelCommit", "execCommit"}
         => /\ txn[s].booking \in BookingIds
            /\ booking[txn[s].booking].status # "unused"
    /\ pc[s] = "completeCommit"
         => \A b \in BookingIds : b \in txn[s].stops => booking[b].status # "unused"

\* No step returns a booking to the unused state.
UsedKept ==
  \A b \in BookingIds : booking[b].status # "unused" => booking'[b].status # "unused"

BookingsOK ==
  \A b \in BookingIds : booking[b].status # "unused" => booking[b].ride \in Rides

TypeInv == TablesOK /\ BookingsOK /\ SessionsOK /\ RequestOK

LEMMA NoTxnType == NoTxn \in Txns
  BY BoundsAssumption DEF NoTxn, Txns

\* The records the requests are built from.
LEMMA DeleteTxn ==
  ASSUME NEW x \in Txns, NEW o \in Endpoints, NEW r \in Rides
  PROVE  [x EXCEPT !.op = o, !.ride = r] \in Txns
  BY DEF Txns

LEMMA ExecTxn ==
  ASSUME NEW x \in Txns, NEW o \in Endpoints, NEW r \in Rides, NEW b \in BookingIds
  PROVE  [x EXCEPT !.op = o, !.ride = r, !.booking = b] \in Txns
  BY DEF Txns

LEMMA TargetTxn ==
  ASSUME NEW x \in Txns, NEW o \in Endpoints, NEW r \in Rides,
         NEW st \in RideStatus \cup {None}
  PROVE  [x EXCEPT !.op = o, !.ride = r, !.target = st] \in Txns
  BY DEF Txns

LEMMA StatusTxn ==
  ASSUME NEW x \in Txns, NEW o \in Endpoints, NEW r \in Rides,
         NEW st \in RideStatus \cup {None}, NEW k \in Nat
  PROVE  [x EXCEPT !.op = o, !.ride = r, !.target = st, !.seenTotal = k] \in Txns
  BY DEF Txns

LEMMA RouteTxn ==
  ASSUME NEW x \in Txns, NEW o \in Endpoints, NEW r \in Rides,
         NEW st \in RideStatus \cup {None}, NEW a \in BOOLEAN
  PROVE  [x EXCEPT !.op = o, !.ride = r, !.seenStatus = st,
                   !.again = a] \in Txns
  BY DEF Txns

LEMMA PlanTxn ==
  ASSUME NEW x \in Txns, NEW r \in Rides, NEW q \in SUBSET BookingIds,
         NEW st \in RideStatus \cup {None}
  PROVE  [x EXCEPT !.ride = r, !.stops = q, !.seenStatus = st] \in Txns
  BY DEF Txns

LEMMA BookTxn ==
  ASSUME NEW x \in Txns, NEW o \in Endpoints, NEW r \in Rides,
         NEW p \in Passengers, NEW n \in 0 .. MaxParty,
         NEW st \in RideStatus \cup {None}, NEW k \in Nat
  PROVE  [x EXCEPT !.op = o, !.ride = r, !.passenger = p, !.party = n,
                   !.seenStatus = st, !.seenSeats = k] \in Txns
  BY DEF Txns

LEMMA CancelTxn ==
  ASSUME NEW x \in Txns, NEW o \in Endpoints, NEW r \in Rides, NEW b \in BookingIds,
         NEW n \in 0 .. MaxParty, NEW st \in RideStatus \cup {None},
         NEW k \in Nat
  PROVE  [x EXCEPT !.op = o, !.ride = r, !.booking = b, !.party = n,
                   !.seenStatus = st, !.seenSeats = k] \in Txns
  BY DEF Txns

LEMMA InitType == Init => TypeInv
  BY RidesAssumption, BoundsAssumption
  DEF Init, TypeInv, TablesOK, BookingsOK, SessionsOK, RequestOK, RideStatus, Bookings,
      NoBooking, Steps, Txns, NoTxn, Endpoints

\* A session that begins keeps the records well typed.
LEMMA LoadType ==
  ASSUME NEW s \in Sessions, NEW t \in Txns, NEW next \in Steps,
         TypeInv, Load(s, t, next), UNCHANGED booking,
         next # "bookCommit",
         next \in {"statusCheck", "statusCommit", "completeCommit", "tripCommit",
                   "patchCommit"}
           => t.target \in RideStatus,
         next \in {"cancelCommit", "execCommit"}
           => t.booking \in BookingIds /\ booking[t.booking].status # "unused",
         next # "completeCommit",
         t.ride \in Rides
  PROVE  pc' \in [Sessions -> Steps] /\ txn' \in [Sessions -> Txns] /\ RequestOK'
  BY DEF Load, TypeInv, SessionsOK, RequestOK, Steps

LEMMA GotoType ==
  ASSUME NEW s \in Sessions, NEW next \in Steps, TypeInv, Goto(s, next),
         UNCHANGED <<txn, booking>>, pc[s] # "idle",
         next = "bookCommit" => txn[s].seenSeats >= txn[s].party,
         next = "statusCommit" => pc[s] = "statusCheck",
         next \notin {"statusCheck", "completeCommit", "tripCommit", "patchCommit",
                      "cancelCommit", "execCommit"}
  PROVE  pc' \in [Sessions -> Steps] /\ RequestOK'
  BY DEF Goto, TypeInv, SessionsOK, RequestOK, Steps

LEMMA ReleaseType ==
  ASSUME NEW s \in Sessions, TypeInv, ReleaseLocks(s)
  PROVE  /\ rowLock' \in [Rides -> Sessions \cup {None}]
         /\ slotLock' \in [Passengers -> Sessions \cup {None}]
  BY DEF ReleaseLocks, TypeInv, SessionsOK

LEMMA FinishType ==
  ASSUME NEW s \in Sessions, TypeInv, UsedKept, Finish(s)
  PROVE  SessionsOK' /\ RequestOK'
  BY NoTxnType, ReleaseType
  DEF Finish, Goto, TypeInv, SessionsOK, RequestOK, UsedKept, Steps

LEMMA RefuseType ==
  ASSUME NEW s \in Sessions, TypeInv, Refuse(s)
  PROVE  TypeInv'
  BY FinishType DEF Refuse, TypeInv, TablesOK, BookingsOK, UsedKept, tables

LEMMA GotoPlanType ==
  ASSUME NEW s \in Sessions, TypeInv, UsedKept, pc[s] # "idle", GotoPlan(s)
  PROVE  pc' \in [Sessions -> Steps] /\ txn' \in [Sessions -> Txns] /\ RequestOK'
<1> DEFINE t == [NoTxn EXCEPT !.ride = txn[s].ride, !.stops = txn[s].stops,
                              !.seenStatus = txn[s].seenStatus]
<1>1. /\ txn[s].ride \in Rides
      /\ txn[s].stops \in SUBSET BookingIds
      /\ txn[s].seenStatus \in RideStatus \cup {None}
  BY DEF TypeInv, SessionsOK, RequestOK, Txns
<1>2. txn' = [txn EXCEPT ![s] = t] /\ pc' = [pc EXCEPT ![s] = "planRead"]
  BY DEF GotoPlan, Goto
<1>3. t \in Txns
  BY <1>1, NoTxnType, PlanTxn
<1>4. t.ride = txn[s].ride
  BY DEF NoTxn
<1> HIDE DEF t
<1> QED
  BY <1>1, <1>2, <1>3, <1>4
  DEF TypeInv, SessionsOK, RequestOK, UsedKept, Steps

\* The rows a request loads when it begins.
LEMMA BookLoadType ==
  ASSUME NEW s \in Sessions, NEW p \in Passengers, NEW r \in Rides,
         NEW n \in 1 .. MaxParty, TypeInv,
         BookLoad(s, p, r, n)
  PROVE  TypeInv'
<1> DEFINE t == [NoTxn EXCEPT !.op = "book", !.ride = r, !.passenger = p,
                         !.party = n, !.seenStatus = rideStatus[r],
                         !.seenSeats = seatsAvailable[r]]
<1>1. /\ "book" \in Endpoints
      /\ rideStatus[r] \in RideStatus \cup {None}
      /\ seatsAvailable[r] \in Nat
      /\ n \in 0 .. MaxParty
  BY BoundsAssumption DEF BookLoad, Exists, TypeInv, TablesOK, Endpoints
<1>2. t \in Txns
  BY <1>1, NoTxnType, BookTxn
<1>3. t.ride \in Rides
  BY <1>1 DEF NoTxn
<1>4. Load(s, t, "bookSlotLock")
  BY DEF BookLoad
<1> HIDE DEF t
<1>5. pc' \in [Sessions -> Steps] /\ txn' \in [Sessions -> Txns] /\ RequestOK'
  BY <1>2, <1>3, <1>4, LoadType DEF Steps, tables, BookLoad
<1> QED
  BY <1>1, <1>5 DEF BookLoad, TypeInv, TablesOK, BookingsOK, SessionsOK, tables

LEMMA RouteLoadType ==
  ASSUME NEW s \in Sessions, NEW r \in Rides, TypeInv,
         RouteLoad(s, r)
  PROVE  TypeInv'
<1> DEFINE t == [NoTxn EXCEPT !.op = "route", !.ride = r, !.seenStatus = "open",
                         !.again = (plan[r] = {})]
<1>1. /\ "route" \in Endpoints
      /\ "open" \in RideStatus \cup {None}
      /\ (plan[r] = {}) \in BOOLEAN
  BY DEF Endpoints, RideStatus
<1>2. t \in Txns
  BY <1>1, NoTxnType, RouteTxn
<1>3. t.ride \in Rides
  BY <1>1 DEF NoTxn
<1>4. Load(s, t, "planRead")
  BY DEF RouteLoad
<1> HIDE DEF t
<1>5. pc' \in [Sessions -> Steps] /\ txn' \in [Sessions -> Txns] /\ RequestOK'
  BY <1>2, <1>3, <1>4, LoadType DEF Steps, tables, RouteLoad
<1> QED
  BY <1>1, <1>5 DEF RouteLoad, TypeInv, TablesOK, BookingsOK, SessionsOK, tables

LEMMA DeleteLoadType ==
  ASSUME NEW s \in Sessions, NEW r \in Rides, TypeInv,
         DeleteLoad(s, r)
  PROVE  TypeInv'
<1> DEFINE t == [NoTxn EXCEPT !.op = "delete", !.ride = r]
<1>1. "delete" \in Endpoints
  BY DEF Endpoints
<1>2. t \in Txns
  BY <1>1, NoTxnType, DeleteTxn
<1>3. t.ride \in Rides
  BY <1>1 DEF NoTxn
<1>4. Load(s, t, "deleteCommit")
  BY DEF DeleteLoad
<1> HIDE DEF t
<1>5. pc' \in [Sessions -> Steps] /\ txn' \in [Sessions -> Txns] /\ RequestOK'
  BY <1>2, <1>3, <1>4, LoadType DEF Steps, tables, DeleteLoad
<1> QED
  BY <1>1, <1>5 DEF DeleteLoad, TypeInv, TablesOK, BookingsOK, SessionsOK, tables

LEMMA CancelLoadType ==
  ASSUME NEW s \in Sessions, NEW b \in BookingIds, TypeInv,
         CancelLoad(s, b)
  PROVE  TypeInv'
<1> DEFINE t == [NoTxn EXCEPT !.op = "cancel", !.ride = booking[b].ride,
                         !.booking = b, !.party = booking[b].seats,
                         !.seenStatus = rideStatus[booking[b].ride],
                         !.seenSeats = seatsAvailable[booking[b].ride]]
<1>1. /\ "cancel" \in Endpoints
      /\ booking[b].ride \in Rides
      /\ rideStatus[booking[b].ride] \in RideStatus \cup {None}
      /\ seatsAvailable[booking[b].ride] \in Nat
      /\ booking[b].seats \in 0 .. MaxParty
  BY DEF CancelLoad, Exists, TypeInv, TablesOK, BookingsOK, Bookings, Endpoints
<1>2. t \in Txns
  BY <1>1, NoTxnType, CancelTxn
<1>3. /\ t.ride \in Rides
      /\ t.booking = b /\ booking[b].status # "unused"
  BY <1>1 DEF NoTxn, CancelLoad
<1>4. Load(s, t, "cancelCommit")
  BY DEF CancelLoad
<1> HIDE DEF t
<1>5. pc' \in [Sessions -> Steps] /\ txn' \in [Sessions -> Txns] /\ RequestOK'
  BY <1>2, <1>3, <1>4, LoadType DEF Steps, tables, CancelLoad
<1> QED
  BY <1>1, <1>5 DEF CancelLoad, TypeInv, TablesOK, BookingsOK, SessionsOK, tables

LEMMA StatusLoadType ==
  ASSUME NEW s \in Sessions, NEW r \in Rides, NEW new \in RideStatus, TypeInv,
         StatusLoad(s, r, new)
  PROVE  TypeInv'
<1> DEFINE t == [NoTxn EXCEPT !.op = "status", !.ride = r, !.target = new,
                         !.seenTotal = totalRides[DriverOf[r]]]
<1>1. /\ "status" \in Endpoints
      /\ new \in RideStatus \cup {None}
      /\ totalRides[DriverOf[r]] \in Nat
  BY RidesAssumption DEF TypeInv, TablesOK, Endpoints
<1>2. t \in Txns
  BY <1>1, NoTxnType, StatusTxn
<1>3. t.ride \in Rides /\ t.target \in RideStatus
  BY <1>1 DEF NoTxn
<1>4. Load(s, t, "statusCheck")
  BY DEF StatusLoad
<1> HIDE DEF t
<1>5. pc' \in [Sessions -> Steps] /\ txn' \in [Sessions -> Txns] /\ RequestOK'
  BY <1>2, <1>3, <1>4, LoadType DEF Steps, tables, StatusLoad
<1> QED
  BY <1>1, <1>5 DEF StatusLoad, TypeInv, TablesOK, BookingsOK, SessionsOK, tables

LEMMA PatchLoadType ==
  ASSUME NEW s \in Sessions, NEW r \in Rides, NEW new \in RideStatus, TypeInv,
         PatchLoad(s, r, new)
  PROVE  TypeInv'
<1> DEFINE t == [NoTxn EXCEPT !.op = "patch", !.ride = r, !.target = new]
<1>1. /\ "patch" \in Endpoints
      /\ new \in RideStatus \cup {None}
  BY DEF Endpoints
<1>2. t \in Txns
  BY <1>1, NoTxnType, TargetTxn
<1>3. t.ride \in Rides /\ t.target \in RideStatus
  BY <1>1 DEF NoTxn
<1>4. Load(s, t, "patchCommit")
  BY DEF PatchLoad
<1> HIDE DEF t
<1>5. pc' \in [Sessions -> Steps] /\ txn' \in [Sessions -> Txns] /\ RequestOK'
  BY <1>2, <1>3, <1>4, LoadType DEF Steps, tables, PatchLoad
<1> QED
  BY <1>1, <1>5 DEF PatchLoad, TypeInv, TablesOK, BookingsOK, SessionsOK, tables

LEMMA ExecLockType ==
  ASSUME NEW s \in Sessions, NEW b \in BookingIds,
         NEW op \in {"pickup", "dropoff"}, TypeInv,
         ExecLock(s, b, op)
  PROVE  TypeInv'
<1> DEFINE t == [NoTxn EXCEPT !.op = op, !.ride = booking[b].ride, !.booking = b]
<1>1. /\ op \in Endpoints
      /\ booking[b].ride \in Rides
  BY DEF ExecLock, ExecAllowed, TypeInv, BookingsOK, Endpoints
<1>2. t \in Txns
  BY <1>1, NoTxnType, ExecTxn
<1>3. /\ t.ride \in Rides
      /\ t.booking = b /\ booking[b].status # "unused"
  BY <1>1 DEF NoTxn, ExecLock, ExecAllowed
<1>4. Load(s, t, "execCommit")
  BY DEF ExecLock
<1> HIDE DEF t
<1>5. pc' \in [Sessions -> Steps] /\ txn' \in [Sessions -> Txns] /\ RequestOK'
  BY <1>2, <1>3, <1>4, LoadType DEF Steps, tables, ExecLock
<1> QED
  BY <1>1, <1>5 DEF ExecLock, TypeInv, TablesOK, BookingsOK, SessionsOK, tables, LockRow

LEMMA TripLockType ==
  ASSUME NEW s \in Sessions, NEW r \in Rides,
         NEW op \in {"start_trip", "complete_trip"}, TypeInv,
         TripLock(s, r, op)
  PROVE  TypeInv'
<1> DEFINE t == [NoTxn EXCEPT !.op = op, !.ride = r,
                         !.target = IF op = "start_trip" THEN "in_progress"
                                                         ELSE "completed"]
<1>1. /\ op \in Endpoints
      /\ (IF op = "start_trip" THEN "in_progress" ELSE "completed") \in RideStatus
  BY DEF Endpoints, RideStatus
<1>2. t \in Txns
  BY <1>1, NoTxnType, TargetTxn
<1>3. t.ride \in Rides /\ t.target \in RideStatus
  BY <1>1 DEF NoTxn
<1>4. Load(s, t, "tripCommit")
  BY DEF TripLock
<1> HIDE DEF t
<1>5. pc' \in [Sessions -> Steps] /\ txn' \in [Sessions -> Txns] /\ RequestOK'
  BY <1>2, <1>3, <1>4, LoadType DEF Steps, tables, TripLock
<1> QED
  BY <1>1, <1>5 DEF TripLock, TypeInv, TablesOK, BookingsOK, SessionsOK, tables, LockRow

\* The steps of a request under way.  A step that ends it is FinishType.
LEMMA BookingStepType ==
  ASSUME NEW s \in Sessions, TypeInv,
         BookSlotLock(s) \/ BookSlots(s) \/ BookRow(s) \/ BookCheck(s)
  PROVE  TypeInv'
<1> USE DEF TypeInv
<1>1. CASE BookSlotLock(s)
  <2>1. pc' \in [Sessions -> Steps] /\ RequestOK'
    BY <1>1, GotoType DEF BookSlotLock, Steps, tables
  <2> QED
    BY <1>1, <2>1 DEF BookSlotLock, TablesOK, BookingsOK, SessionsOK, tables
<1>2. CASE BookSlots(s)
  <2>1. CASE Refuse(s)
    BY <2>1, RefuseType
  <2>2. CASE ~Refuse(s)
    <3> DEFINE aboard == IF txn[s].seenStatus = "open"
                         THEN ActiveBookings(txn[s].ride) ELSE {}
    <3>1. aboard \in SUBSET BookingIds
      BY DEF ActiveBookings, BookingsOf
    <3>2. /\ pc[s] = "bookSlots"
          /\ txn' = [txn EXCEPT ![s].stops = aboard]
          /\ pc' = [pc EXCEPT ![s] = "bookRow"]
          /\ UNCHANGED <<tables, rowLock, slotLock>>
      BY <1>2, <2>2 DEF BookSlots, Goto
    <3> HIDE DEF aboard
    <3>3. txn' \in [Sessions -> Txns] /\ txn'[s].ride = txn[s].ride
      BY <3>1, <3>2 DEF SessionsOK, Txns
    <3> QED
      BY <3>2, <3>3 DEF TablesOK, BookingsOK, SessionsOK, RequestOK, tables, Steps
  <2> QED
    BY <2>1, <2>2
<1>3. CASE BookRow(s)
  <2>1. CASE Refuse(s)
    BY <2>1, RefuseType
  <2>2. CASE ~Refuse(s)
    <3>1. pc' \in [Sessions -> Steps] /\ RequestOK'
      BY <1>3, <2>2, GotoType DEF BookRow, Steps, tables
    <3> QED
      BY <1>3, <2>2, <3>1
      DEF BookRow, LockRow, TablesOK, BookingsOK, SessionsOK, tables
  <2> QED
    BY <2>1, <2>2
<1>4. CASE BookCheck(s)
  <2>1. CASE Refuse(s)
    BY <2>1, RefuseType
  <2>2. CASE ~Refuse(s)
    <3>1. pc' \in [Sessions -> Steps] /\ RequestOK'
      BY <1>4, <2>2, GotoType DEF BookCheck, BookAllowed, SeatsSuffice, Steps, tables
    <3> QED
      BY <1>4, <2>2, <3>1 DEF BookCheck, TablesOK, BookingsOK, SessionsOK, tables
  <2> QED
    BY <2>1, <2>2
<1> QED
  BY <1>1, <1>2, <1>3, <1>4

LEMMA BookCommitType ==
  ASSUME NEW s \in Sessions, TypeInv, BookCommit(s)
  PROVE  TypeInv'
<1> USE DEF TypeInv
<1>1. pc[s] = "bookCommit" /\ GotoPlan(s) /\ ReleaseLocks(s)
  BY DEF BookCommit
<1>2. UsedKept
  BY DEF BookCommit, UsedKept, NoBooking, TablesOK
<1>3. /\ pc' \in [Sessions -> Steps] /\ txn' \in [Sessions -> Txns] /\ RequestOK'
      /\ rowLock' \in [Rides -> Sessions \cup {None}]
      /\ slotLock' \in [Passengers -> Sessions \cup {None}]
  BY <1>1, <1>2, GotoPlanType, ReleaseType
<1>4. /\ txn[s].ride \in Rides
      /\ txn[s].passenger \in Passengers \cup {None}
      /\ txn[s].party \in 0 .. MaxParty
      /\ txn[s].seenSeats - txn[s].party \in Nat
  BY <1>1, BoundsAssumption DEF SessionsOK, RequestOK, Txns
<1>5. seatsAvailable' \in [Rides -> Nat]
  BY <1>4 DEF BookCommit, TablesOK
<1> DEFINE row == [NoBooking EXCEPT !.status = "booked", !.ride = txn[s].ride,
                                    !.passenger = txn[s].passenger,
                                    !.seats = txn[s].party]
<1>6. row \in Bookings /\ row.ride \in Rides
  BY <1>4 DEF NoBooking, Bookings
<1>7. PICK b \in BookingIds : booking' = [booking EXCEPT ![b] = row]
  BY DEF BookCommit
<1> HIDE DEF row
<1>8. booking' \in [BookingIds -> Bookings] /\ BookingsOK'
  BY <1>6, <1>7 DEF TablesOK, BookingsOK
<1> QED
  BY <1>3, <1>5, <1>8 DEF BookCommit, TablesOK, SessionsOK

LEMMA PlanStepType ==
  ASSUME NEW s \in Sessions, TypeInv, PlanRead(s) \/ PlanWrite(s)
  PROVE  TypeInv'
<1> USE DEF TypeInv
<1>1. CASE PlanRead(s)
  <2>1. CASE Refuse(s)
    BY <2>1, RefuseType
  <2>2. CASE ~Refuse(s)
    <3> DEFINE q == StopsToPlan(txn[s])
    <3>1. q \in SUBSET BookingIds
      BY DEF StopsToPlan, ActiveBookings, BookingsOf
    <3>2. /\ pc[s] = "planRead"
          /\ txn' = [txn EXCEPT ![s].stops = q]
          /\ pc' = [pc EXCEPT ![s] = "planWrite"]
          /\ UNCHANGED <<tables, rowLock, slotLock>>
      BY <1>1, <2>2 DEF PlanRead, Goto
    <3> HIDE DEF q
    <3>3. txn' \in [Sessions -> Txns] /\ txn'[s].ride = txn[s].ride
      BY <3>1, <3>2 DEF SessionsOK, Txns
    <3> QED
      BY <3>2, <3>3 DEF TablesOK, BookingsOK, SessionsOK, RequestOK, tables, Steps
  <2> QED
    BY <2>1, <2>2
<1>2. CASE PlanWrite(s)
  <2>1. plan' \in [Rides -> SUBSET BookingIds]
    BY <1>2 DEF PlanWrite, TablesOK, SessionsOK, Txns
  <2>2. CASE Finish(s)
    BY <1>2, <2>1, <2>2, FinishType DEF PlanWrite, TablesOK, BookingsOK, UsedKept
  <2>3. CASE ~Finish(s)
    <3>1. /\ pc[s] = "planWrite"
          /\ txn' = [txn EXCEPT ![s].again = FALSE, ![s].stops = {}]
          /\ pc' = [pc EXCEPT ![s] = "planRead"]
          /\ UNCHANGED <<rowLock, slotLock>>
      BY <1>2, <2>3 DEF PlanWrite, Goto
    <3>2. ASSUME NEW x \in Txns
          PROVE  /\ [x EXCEPT !.again = FALSE, !.stops = {}] \in Txns
                 /\ [x EXCEPT !.again = FALSE, !.stops = {}].ride = x.ride
      BY DEF Txns
    <3>3. txn' \in [Sessions -> Txns] /\ txn'[s].ride = txn[s].ride
      BY <3>1, <3>2 DEF SessionsOK
    <3> QED
      BY <1>2, <2>1, <3>1, <3>3
      DEF PlanWrite, TablesOK, BookingsOK, SessionsOK, RequestOK, Steps
  <2> QED
    BY <2>2, <2>3
<1> QED
  BY <1>1, <1>2

LEMMA CancelCommitType ==
  ASSUME NEW s \in Sessions, TypeInv, CancelCommit(s)
  PROVE  TypeInv'
<1> USE DEF TypeInv
<1>1. CASE Refuse(s)
  BY <1>1, RefuseType
<1>2. CASE ~Refuse(s)
  <2>1. /\ pc[s] = "cancelCommit"
        /\ booking' = [booking EXCEPT ![txn[s].booking].status = "cancelled"]
        /\ seatsAvailable' = [seatsAvailable EXCEPT
                                ![txn[s].ride] = RestoredSeats(txn[s])]
        /\ GotoPlan(s)
        /\ UNCHANGED <<rideStatus, plan, totalRides, rowLock, slotLock>>
    BY <1>2 DEF CancelCommit
  <2>2. UsedKept
    BY <2>1 DEF UsedKept, TablesOK, Bookings
  <2>3. pc' \in [Sessions -> Steps] /\ txn' \in [Sessions -> Txns] /\ RequestOK'
    BY <2>1, <2>2, GotoPlanType
  <2>4. RestoredSeats(txn[s]) \in Nat
    BY BoundsAssumption DEF RestoredSeats, SessionsOK, Txns
  <2>5. booking' \in [BookingIds -> Bookings]
    <3>1. PICK b \in BookingIds : b = txn[s].booking
      BY <2>1 DEF RequestOK
    <3>2. booking' = [booking EXCEPT ![b] = [booking[b] EXCEPT !.status = "cancelled"]]
      BY <2>1, <3>1
    <3>3. booking[b] \in Bookings
      BY DEF TablesOK
    <3>4. [booking[b] EXCEPT !.status = "cancelled"] \in Bookings
      BY <3>3 DEF Bookings
    <3> QED
      BY <3>2, <3>4 DEF TablesOK
  <2>6. TablesOK' /\ SessionsOK'
    BY <2>1, <2>3, <2>4, <2>5 DEF TablesOK, SessionsOK
  <2>7. \A b \in BookingIds :
          booking'[b].ride = booking[b].ride
            /\ (booking'[b].status # "unused" => booking[b].status # "unused")
    <3>1. txn[s].booking \in BookingIds /\ booking[txn[s].booking].status # "unused"
      BY <2>1 DEF RequestOK
    <3> QED
      BY <2>1, <3>1 DEF TablesOK, Bookings
  <2>8. BookingsOK'
    BY <2>7 DEF BookingsOK
  <2> QED
    BY <2>3, <2>6, <2>8
<1> QED
  BY <1>1, <1>2

LEMMA StatusStepType ==
  ASSUME NEW s \in Sessions, TypeInv,
         StatusCheck(s) \/ StatusCommit(s) \/ StatsCommit(s)
  PROVE  TypeInv'
<1> USE DEF TypeInv
<1>1. CASE StatusCheck(s)
  <2>1. CASE Refuse(s)
    BY <2>1, RefuseType
  <2>2. CASE ~Refuse(s)
    <3>1. pc' \in [Sessions -> Steps] /\ RequestOK'
      BY <1>1, <2>2, GotoType DEF StatusCheck, Steps, tables
    <3> QED
      BY <1>1, <2>2, <3>1 DEF StatusCheck, TablesOK, BookingsOK, SessionsOK, tables
  <2> QED
    BY <2>1, <2>2
<1>2. CASE StatusCommit(s)
  <2>1. CASE Refuse(s)
    BY <2>1, RefuseType
  <2>2. CASE ~Refuse(s)
    <3>1. /\ pc[s] = "statusCommit" /\ Finish(s)
          /\ rideStatus' = [rideStatus EXCEPT ![txn[s].ride] = txn[s].target]
          /\ UNCHANGED <<seatsAvailable, plan, booking, totalRides>>
      BY <1>2, <2>2 DEF StatusCommit
    <3>2. rideStatus' \in [Rides -> RideStatus \cup {"deleted"}]
      BY <3>1 DEF TablesOK, RequestOK
    <3> QED
      BY <3>1, <3>2, FinishType DEF TablesOK, BookingsOK, UsedKept
  <2> QED
    BY <2>1, <2>2
<1>3. CASE StatsCommit(s)
  <2>1. CreditedTotal(txn[s]) \in Nat
    BY DEF CreditedTotal, SessionsOK, Txns
  <2> QED
    BY <1>3, <2>1, FinishType DEF StatsCommit, TablesOK, BookingsOK, UsedKept
<1> QED
  BY <1>1, <1>2, <1>3

\* The bookings updated by a completion.
LEMMA StopsTxn ==
  ASSUME NEW x \in Txns, NEW q \in SUBSET BookingIds
  PROVE  /\ [x EXCEPT !.stops = q] \in Txns /\ [x EXCEPT !.stops = q].stops = q
         /\ [x EXCEPT !.stops = q].op = x.op
         /\ [x EXCEPT !.stops = q].ride = x.ride
         /\ [x EXCEPT !.stops = q].target = x.target
         /\ [x EXCEPT !.stops = q].booking = x.booking
         /\ [x EXCEPT !.stops = q].seenSeats = x.seenSeats
         /\ [x EXCEPT !.stops = q].party = x.party
  BY DEF Txns

LEMMA CompletionType ==
  ASSUME NEW s \in Sessions, TypeInv, CompleteBookings(s) \/ CompleteCommit(s)
  PROVE  TypeInv'
<1> USE DEF TypeInv
<1>1. CASE CompleteBookings(s)
  <2> DEFINE q == ActiveBookings(txn[s].ride)
  <2>1. /\ pc[s] = "statusCommit"
        /\ txn' = [txn EXCEPT ![s] = [txn[s] EXCEPT !.stops = q]]
        /\ pc' = [pc EXCEPT ![s] = "completeCommit"]
        /\ UNCHANGED <<tables, rowLock, slotLock>>
    BY <1>1 DEF CompleteBookings, Goto
  <2>2. q \in SUBSET BookingIds
    BY DEF ActiveBookings, BookingsOf
  <2> HIDE DEF q
  <2>3. txn' \in [Sessions -> Txns] /\ pc' \in [Sessions -> Steps]
    BY <2>1, <2>2, StopsTxn DEF SessionsOK, Steps
  <2>4. \A b \in q : booking[b].status # "unused"
    BY DEF q, ActiveBookings
  <2>5. txn[s] \in Txns /\ txn'[s] = [txn[s] EXCEPT !.stops = q]
    BY <2>1 DEF SessionsOK
  <2>6. RequestOK'
    BY <2>1, <2>2, <2>4, <2>5, StopsTxn DEF SessionsOK, RequestOK, tables
  <2> QED
    BY <2>1, <2>3, <2>6 DEF TablesOK, BookingsOK, SessionsOK, tables
<1>2. CASE CompleteCommit(s)
  <2>1. CASE Refuse(s)
    BY <2>1, RefuseType
  <2>2. CASE ~Refuse(s)
    <3>1. /\ pc[s] = "completeCommit"
          /\ rideStatus' = [rideStatus EXCEPT ![txn[s].ride] = txn[s].target]
          /\ booking' = [b \in BookingIds |->
                           IF b \in txn[s].stops
                           THEN [booking[b] EXCEPT !.status = "completed"]
                           ELSE booking[b]]
          /\ Goto(s, "statsCommit")
          /\ UNCHANGED <<seatsAvailable, plan, totalRides, rowLock, slotLock, txn>>
      BY <1>2, <2>2 DEF CompleteCommit
    <3>2. rideStatus' \in [Rides -> RideStatus \cup {"deleted"}]
      BY <3>1 DEF TablesOK, RequestOK
    <3>3. \A b \in txn[s].stops : b \in BookingIds /\ booking[b].status # "unused"
      BY <3>1 DEF RequestOK, SessionsOK, Txns
    <3>4. booking' \in [BookingIds -> Bookings] /\ BookingsOK' /\ UsedKept
      BY <3>1, <3>3 DEF TablesOK, BookingsOK, Bookings, UsedKept
    <3>5. pc' \in [Sessions -> Steps] /\ RequestOK'
      BY <3>1, <3>4 DEF Goto, SessionsOK, RequestOK, UsedKept, Steps
    <3> QED
      BY <3>1, <3>2, <3>4, <3>5 DEF TablesOK, SessionsOK
  <2> QED
    BY <2>1, <2>2
<1> QED
  BY <1>1, <1>2

LEMMA LastStepType ==
  ASSUME NEW s \in Sessions, TypeInv,
         DeleteCommit(s) \/ ExecCommit(s) \/ TripCommit(s) \/ PatchCommit(s)
  PROVE  TypeInv'
<1> USE DEF TypeInv
<1>1. CASE DeleteCommit(s)
  <2> DEFINE D == BookingsOf(txn[s].ride)
  <2>1. booking' = [b \in BookingIds |->
                      IF b \in D THEN [booking[b] EXCEPT !.status = "deleted"]
                                 ELSE booking[b]]
    BY <1>1 DEF DeleteCommit
  <2>2. ASSUME NEW x \in Bookings
        PROVE  /\ [x EXCEPT !.status = "deleted"] \in Bookings
               /\ [x EXCEPT !.status = "deleted"].ride = x.ride
               /\ [x EXCEPT !.status = "deleted"].status # "unused"
    BY DEF Bookings
  <2>3. \A b \in D : booking[b].ride \in Rides
    BY <1>1 DEF DeleteCommit, BookingsOf, RequestOK
  <2> HIDE DEF D
  <2>4. booking' \in [BookingIds -> Bookings] /\ UsedKept
    BY <2>1, <2>2 DEF TablesOK, UsedKept
  <2>5. BookingsOK'
    BY <2>1, <2>2, <2>3 DEF TablesOK, BookingsOK
  <2> QED
    BY <1>1, <2>4, <2>5, FinishType DEF DeleteCommit, TablesOK
<1>2. CASE ExecCommit(s)
  <2> DEFINE b == txn[s].booking
             row == IF txn[s].op = "pickup"
                    THEN [booking[b] EXCEPT !.pickedUp = TRUE]
                    ELSE [booking[b] EXCEPT !.pickedUp = TRUE, !.droppedOff = TRUE,
                                            !.status = "completed"]
  <2>1. b \in BookingIds /\ booking[b].status # "unused"
    BY <1>2 DEF ExecCommit, RequestOK
  <2>2. ASSUME NEW x \in Bookings, x.status # "unused"
        PROVE  /\ [x EXCEPT !.pickedUp = TRUE] \in Bookings
               /\ [x EXCEPT !.pickedUp = TRUE].ride = x.ride
               /\ [x EXCEPT !.pickedUp = TRUE].status = x.status
               /\ [x EXCEPT !.pickedUp = TRUE, !.droppedOff = TRUE,
                            !.status = "completed"] \in Bookings
               /\ [x EXCEPT !.pickedUp = TRUE, !.droppedOff = TRUE,
                            !.status = "completed"].ride = x.ride
               /\ [x EXCEPT !.pickedUp = TRUE, !.droppedOff = TRUE,
                            !.status = "completed"].status # "unused"
    BY <2>2 DEF Bookings
  <2>3. row \in Bookings /\ row.ride = booking[b].ride /\ row.status # "unused"
    BY <2>1, <2>2 DEF TablesOK
  <2>4. booking' = [booking EXCEPT ![b] = row]
    BY <1>2 DEF ExecCommit
  <2> HIDE DEF b, row
  <2>5. booking' \in [BookingIds -> Bookings] /\ BookingsOK' /\ UsedKept
    BY <2>1, <2>3, <2>4 DEF TablesOK, BookingsOK, UsedKept
  <2> QED
    BY <1>2, <2>5, FinishType DEF ExecCommit, TablesOK
<1>3. CASE TripCommit(s)
  <2>1. rideStatus' \in [Rides -> RideStatus \cup {"deleted"}]
    BY <1>3 DEF TripCommit, TablesOK, RequestOK
  <2> QED
    BY <1>3, <2>1, FinishType DEF TripCommit, TablesOK, BookingsOK, UsedKept
<1>4. CASE PatchCommit(s)
  <2>1. rideStatus' \in [Rides -> RideStatus \cup {"deleted"}]
    BY <1>4 DEF PatchCommit, TablesOK, RequestOK
  <2> QED
    BY <1>4, <2>1, FinishType DEF PatchCommit, TablesOK, BookingsOK, UsedKept
<1> QED
  BY <1>1, <1>2, <1>3, <1>4

LEMMA TypeStep == TypeInv /\ [Next]_vars => TypeInv'
<1> SUFFICES ASSUME TypeInv, [Next]_vars PROVE TypeInv'
  OBVIOUS
<1>1. CASE UNCHANGED vars
  BY <1>1 DEF vars, tables, TypeInv, TablesOK, BookingsOK, SessionsOK, RequestOK
<1>2. ASSUME NEW s \in Sessions, Begin(s) PROVE TypeInv'
  BY <1>2, BookLoadType, RouteLoadType, DeleteLoadType, CancelLoadType,
     StatusLoadType, PatchLoadType, ExecLockType, TripLockType DEF Begin
<1>3. ASSUME NEW s \in Sessions, Advance(s) PROVE TypeInv'
  BY <1>3, BookingStepType, BookCommitType, PlanStepType, CancelCommitType,
     StatusStepType, CompletionType, LastStepType DEF Advance
<1>4. ASSUME NEW s \in Sessions, Abort(s) PROVE TypeInv'
  BY <1>4, RefuseType DEF Abort
<1> QED
  BY <1>1, <1>2, <1>3, <1>4 DEF Next

\* Every table and every record of a request in flight keeps its shape, the
\* free seats of a ride included, which never go below zero.
THEOREM TypeCorrect == Spec => []TypeOK
<1>1. TypeInv => TypeOK
  BY DEF TypeInv, TypeOK, TablesOK, SessionsOK
<1> QED
  BY <1>1, InitType, TypeStep, PTL DEF Spec

(***************************************************************************)
(* Row locks.  A request past its SELECT ... FOR UPDATE holds the row of   *)
(* its ride, and what it has checked under the lock stays true until it    *)
(* commits, since every other writer waits for the row.  A completion      *)
(* holds the bookings it has updated, which are active until it commits.   *)
(***************************************************************************)
RequestRow(s) ==
  /\ pc[s] \in {"bookCheck", "bookCommit", "execCommit", "tripCommit"}
       => rowLock[txn[s].ride] = s
  /\ pc[s] \in {"cancelCommit", "execCommit"}
       => booking[txn[s].booking].ride = txn[s].ride
  /\ pc[s] = "bookCommit"
       => ~HasActiveBooking(txn[s].passenger, txn[s].ride)
  /\ pc[s] = "execCommit" => ExecAllowed(txn[s].booking)
  /\ pc[s] = "completeCommit" =>
       \A b \in txn[s].stops : booking[b].ride = txn[s].ride
                               /\ booking[b].status = "booked"

\* The bookings whose rows the request holds.
Holding(s) ==
  {b \in BookingIds : \/ pc[s] = "completeCommit" /\ b \in txn[s].stops
                      \/ pc[s] = "execCommit" /\ b = txn[s].booking}

RowInv ==
  /\ \A b \in BookingIds : booking[b].status = "unused" => booking[b].ride = None
  /\ \A s \in Sessions : RequestRow(s)
  /\ \A s \in Sessions : \A u \in Sessions \ {s} : Holding(s) \cap Holding(u) = {}

\* What a step of s leaves alone: the other requests, the rides they have
\* locked with the bookings on them, the bookings they hold, and the ride and
\* passenger of a booking.
Frame(s) ==
  /\ \A u \in Sessions \ {s} : pc'[u] = pc[u] /\ txn'[u] = txn[u]
  /\ \A r \in Rides : rowLock[r] \in Sessions \ {s} =>
       /\ rowLock'[r] = rowLock[r]
       /\ rideStatus'[r] = rideStatus[r]
       /\ \A b \in BookingIds : booking[b].ride = r \/ booking'[b].ride = r
                                  => booking'[b] = booking[b]
  /\ \A u \in Sessions \ {s} : \A b \in Holding(u) : booking'[b] = booking[b]
  /\ \A b \in BookingIds : booking[b].status # "unused" =>
       /\ booking'[b].status # "unused"
       /\ booking'[b].ride = booking[b].ride
       /\ booking'[b].passenger = booking[b].passenger
  /\ \A b \in BookingIds : booking'[b].status = "unused" => booking'[b] = booking[b]

\* The step does not put s past a lock, nor make a booking active.
Plain(s) ==
  /\ pc'[s] \notin {"bookCheck", "bookCommit", "execCommit", "tripCommit",
                    "cancelCommit", "completeCommit"}
  /\ \A b \in BookingIds : booking'[b].status = "booked" =>
       /\ booking[b].status = "booked"
       /\ booking'[b].ride = booking[b].ride
       /\ booking'[b].passenger = booking[b].passenger

LEMMA FrameOthers ==
  ASSUME NEW s \in Sessions, TypeInv, RowInv, Frame(s),
         NEW u \in Sessions \ {s}
  PROVE  RequestRow(u)'
<1> DEFINE r == txn[u].ride
<1>1. pc'[u] = pc[u] /\ txn'[u] = txn[u] /\ RequestRow(u)
  BY DEF Frame, RowInv
<1>2. pc[u] # "idle" => r \in Rides
  BY DEF TypeInv, RequestOK
<1>3. pc[u] \in {"bookCheck", "bookCommit", "execCommit", "tripCommit"}
        => /\ rowLock[r] = u /\ rowLock'[r] = u /\ rideStatus'[r] = rideStatus[r]
           /\ \A b \in BookingIds : booking[b].ride = r \/ booking'[b].ride = r
                                      => booking'[b] = booking[b]
  BY <1>1, <1>2 DEF RequestRow, Frame
<1>4. pc[u] \in {"cancelCommit", "execCommit"}
        => /\ txn[u].booking \in BookingIds
           /\ booking[txn[u].booking].status # "unused"
           /\ booking[txn[u].booking].ride = r
           /\ booking'[txn[u].booking].ride = r
  BY <1>1 DEF RequestRow, TypeInv, RequestOK, Frame
<1>5. pc[u] = "bookCommit" => ~HasActiveBooking(txn[u].passenger, txn[u].ride)'
  BY <1>1, <1>3 DEF RequestRow, HasActiveBooking, ActiveBookings, BookingsOf
<1>6. pc[u] = "execCommit" => ExecAllowed(txn[u].booking)'
  BY <1>1, <1>2, <1>3, <1>4 DEF RequestRow, ExecAllowed
<1>7. pc[u] = "completeCommit" =>
        \A b \in txn[u].stops : booking'[b].ride = txn[u].ride
                                /\ booking'[b].status = "booked"
  BY <1>1 DEF RequestRow, Frame, Holding, TypeInv, SessionsOK, Txns
<1> QED
  BY <1>1, <1>3, <1>4, <1>5, <1>6, <1>7 DEF RequestRow

LEMMA FreeBooking ==
  ASSUME NEW b \in BookingIds, BookingFree(b), NEW u \in Sessions
  PROVE  b \notin Holding(u)
  BY DEF BookingFree, Holding

LEMMA FrameRow ==
  ASSUME NEW s \in Sessions, TypeInv, RowInv, Frame(s), RequestRow(s)',
         \A b \in Holding(s)' : BookingFree(b)
  PROVE  RowInv'
<1>1. \A b \in BookingIds : booking'[b].status = "unused" => booking'[b].ride = None
  BY DEF Frame, RowInv
<1>2. ASSUME NEW u \in Sessions PROVE RequestRow(u)'
  BY FrameOthers
<1>3. ASSUME NEW u \in Sessions \ {s} PROVE Holding(u)' = Holding(u)
  BY DEF Frame, Holding
<1>4. ASSUME NEW u \in Sessions \ {s} PROVE Holding(s)' \cap Holding(u) = {}
  BY FreeBooking DEF Holding
<1>5. \A t \in Sessions : \A u \in Sessions \ {t} : Holding(t)' \cap Holding(u)' = {}
  BY <1>3, <1>4 DEF RowInv
<1> QED
  BY <1>1, <1>2, <1>5 DEF RowInv

LEMMA FramePlain ==
  ASSUME NEW s \in Sessions, TypeInv, RowInv, Frame(s), Plain(s)
  PROVE  RowInv'
  BY FrameRow DEF Plain, RequestRow, Holding

\* The bodies of CancelledIsFinal and ExecutionOnlyInProgress.
CancelledKept ==
  \A b \in BookingIds : booking[b].status = "cancelled" =>
    booking'[b].status \in {"cancelled", "deleted"}

ExecutionInProgress ==
  \A b \in BookingIds :
    \/ booking'[b].pickedUp /\ ~booking[b].pickedUp
    \/ booking'[b].droppedOff /\ ~booking[b].droppedOff
    => /\ rideStatus[booking[b].ride] = "in_progress"
       /\ booking[b].status = "booked"

StepProps == CancelledKept /\ ExecutionInProgress

\* What s does to the sessions and the row locks.
Own(s) ==
  /\ \A u \in Sessions \ {s} : pc'[u] = pc[u] /\ txn'[u] = txn[u]
  /\ \A r \in Rides : rowLock[r] \in Sessions \ {s} => rowLock'[r] = rowLock[r]

LEMMA OwnFinish ==
  ASSUME NEW s \in Sessions, TypeInv, Finish(s)
  PROVE  Own(s) /\ pc'[s] = "idle"
  BY DEF Finish, Goto, ReleaseLocks, Own, TypeInv, SessionsOK

LEMMA OwnGotoPlan ==
  ASSUME NEW s \in Sessions, TypeInv, GotoPlan(s),
         ReleaseLocks(s) \/ UNCHANGED rowLock
  PROVE  Own(s) /\ pc'[s] = "planRead"
  BY DEF GotoPlan, Goto, ReleaseLocks, Own, TypeInv, SessionsOK

\* A step that writes neither rides nor bookings.
LEMMA QuietFrame ==
  ASSUME NEW s \in Sessions, TypeInv, Own(s), UNCHANGED <<rideStatus, booking>>
  PROVE  /\ Frame(s) /\ StepProps
         /\ UNCHANGED booking
  BY DEF Own, Frame, Holding, StepProps, CancelledKept, ExecutionInProgress, TypeInv,
         TablesOK

LEMMA PlainRefuse ==
  ASSUME NEW s \in Sessions, TypeInv, RowInv, Refuse(s)
  PROVE  Frame(s) /\ RowInv' /\ StepProps /\ Plain(s)
  BY OwnFinish, QuietFrame, FramePlain DEF Refuse, tables, Plain

\* The steps that lock or check without writing rides or bookings.
LEMMA LoadRow ==
  ASSUME NEW s \in Sessions, NEW t, NEW next,
         next \notin {"bookCheck", "bookCommit", "execCommit", "tripCommit",
                      "cancelCommit", "completeCommit"},
         TypeInv, RowInv, Load(s, t, next),
         UNCHANGED <<tables, rowLock>>
  PROVE  Frame(s) /\ RowInv' /\ StepProps /\ Plain(s)
<1>1. Own(s) /\ pc'[s] = next
  BY DEF Load, Own, TypeInv, SessionsOK
<1> QED
  BY <1>1, QuietFrame, FramePlain DEF tables, Plain

LEMMA GotoRow ==
  ASSUME NEW s \in Sessions, NEW next,
         next \notin {"bookCheck", "bookCommit", "execCommit", "tripCommit",
                      "cancelCommit", "completeCommit"},
         TypeInv, RowInv, Goto(s, next), UNCHANGED <<rideStatus, booking, rowLock>>,
         \A u \in Sessions \ {s} : txn'[u] = txn[u]
  PROVE  Frame(s) /\ RowInv' /\ StepProps /\ Plain(s)
<1>1. Own(s) /\ pc'[s] = next
  BY DEF Goto, Own, TypeInv, SessionsOK
<1> QED
  BY <1>1, QuietFrame, FramePlain DEF Plain

LEMMA FinishRow ==
  ASSUME NEW s \in Sessions, TypeInv, RowInv, Finish(s),
         UNCHANGED <<rideStatus, booking>>
  PROVE  Frame(s) /\ RowInv' /\ StepProps /\ Plain(s)
  BY OwnFinish, QuietFrame, FramePlain DEF Plain

\* SELECT ... FOR UPDATE.
LEMMA LockOwn ==
  ASSUME NEW s \in Sessions, NEW r \in Rides, TypeInv, LockRow(s, r),
         \A u \in Sessions \ {s} : pc'[u] = pc[u] /\ txn'[u] = txn[u]
  PROVE  Own(s) /\ rowLock'[r] = s
  BY RidesAssumption DEF LockRow, RowFree, Own, TypeInv, SessionsOK

LEMMA BookRowRow ==
  ASSUME NEW s \in Sessions, TypeInv, RowInv, BookRow(s), ~Refuse(s)
  PROVE  Frame(s) /\ RowInv' /\ StepProps
<1> DEFINE r == txn[s].ride
<1>1. /\ pc[s] = "bookRow"
      /\ LockRow(s, r)
      /\ pc' = [pc EXCEPT ![s] = "bookCheck"]
      /\ UNCHANGED <<tables, slotLock, txn>>
  BY DEF BookRow, Goto
<1>2. r \in Rides
  BY <1>1 DEF TypeInv, RequestOK
<1>3. Own(s) /\ rowLock'[r] = s /\ pc'[s] = "bookCheck"
  BY <1>1, <1>2, LockOwn DEF TypeInv, SessionsOK
<1>4. Frame(s) /\ StepProps
  BY <1>1, <1>3, QuietFrame DEF tables
<1> QED
  BY <1>1, <1>3, <1>4, FrameRow DEF RequestRow, Holding

LEMMA BookCheckRow ==
  ASSUME NEW s \in Sessions, TypeInv, RowInv, BookCheck(s), ~Refuse(s)
  PROVE  Frame(s) /\ RowInv' /\ StepProps
<1>1. /\ pc[s] = "bookCheck"
      /\ ~HasActiveBooking(txn[s].passenger, txn[s].ride)
      /\ pc' = [pc EXCEPT ![s] = "bookCommit"]
      /\ UNCHANGED <<tables, rowLock, slotLock, txn>>
  BY DEF BookCheck, BookAllowed, Goto
<1>2. Own(s) /\ pc'[s] = "bookCommit"
  BY <1>1 DEF Own, TypeInv, SessionsOK
<1>3. Frame(s) /\ StepProps
  BY <1>1, <1>2, QuietFrame DEF tables
<1>4. rowLock'[txn'[s].ride] = s
  BY <1>1 DEF RowInv, RequestRow
<1>5. ~HasActiveBooking(txn[s].passenger, txn[s].ride)'
  BY <1>1 DEF tables, HasActiveBooking, ActiveBookings, BookingsOf
<1> QED
  BY <1>2, <1>3, <1>4, <1>5, FrameRow DEF RequestRow, Holding

LEMMA ExecLockRow ==
  ASSUME NEW s \in Sessions, NEW b \in BookingIds,
         NEW op \in {"pickup", "dropoff"}, TypeInv, RowInv, ExecLock(s, b, op)
  PROVE  Frame(s) /\ RowInv' /\ StepProps
<1> DEFINE t == [NoTxn EXCEPT !.op = op, !.ride = booking[b].ride, !.booking = b]
<1>1. /\ ExecAllowed(b) /\ BookingFree(b) /\ Load(s, t, "execCommit")
      /\ LockRow(s, booking[b].ride)
      /\ UNCHANGED <<tables, slotLock>>
  BY DEF ExecLock
<1>2. booking[b].ride \in Rides
  BY <1>1 DEF ExecAllowed, TypeInv, BookingsOK
<1>3. t.ride = booking[b].ride /\ t.booking = b
  BY DEF NoTxn
<1> HIDE DEF t
<1>4. /\ txn'[s] = t /\ pc'[s] = "execCommit"
      /\ \A u \in Sessions \ {s} : pc'[u] = pc[u] /\ txn'[u] = txn[u]
  BY <1>1 DEF Load, TypeInv, SessionsOK
<1>5. Own(s) /\ rowLock'[booking[b].ride] = s
  BY <1>1, <1>2, <1>4, LockOwn
<1>6. Frame(s) /\ StepProps
  BY <1>1, <1>5, QuietFrame DEF tables
<1>7. ExecAllowed(txn[s].booking)'
  BY <1>1, <1>3, <1>4 DEF ExecAllowed, tables
<1>8. \A c \in Holding(s)' : BookingFree(c)
  BY <1>1, <1>3, <1>4 DEF Holding
<1> QED
  BY <1>1, <1>3, <1>4, <1>5, <1>6, <1>7, <1>8, FrameRow DEF RequestRow, tables

LEMMA TripLockRow ==
  ASSUME NEW s \in Sessions, NEW r \in Rides,
         NEW op \in {"start_trip", "complete_trip"}, TypeInv, RowInv,
         TripLock(s, r, op)
  PROVE  Frame(s) /\ RowInv' /\ StepProps
<1> DEFINE t == [NoTxn EXCEPT !.op = op, !.ride = r,
                   !.target = IF op = "start_trip" THEN "in_progress"
                                                   ELSE "completed"]
<1>1. /\ Load(s, t, "tripCommit") /\ LockRow(s, r)
      /\ UNCHANGED <<tables, slotLock>>
  BY DEF TripLock
<1>2. t.ride = r
  BY DEF NoTxn
<1> HIDE DEF t
<1>3. /\ txn'[s] = t /\ pc'[s] = "tripCommit"
      /\ \A u \in Sessions \ {s} : pc'[u] = pc[u] /\ txn'[u] = txn[u]
  BY <1>1 DEF Load, TypeInv, SessionsOK
<1>4. Own(s) /\ rowLock'[r] = s
  BY <1>1, <1>3, LockOwn
<1>5. Frame(s) /\ StepProps
  BY <1>1, <1>4, QuietFrame DEF tables
<1> QED
  BY <1>2, <1>3, <1>4, <1>5, FrameRow DEF RequestRow, Holding

LEMMA CancelLoadRow ==
  ASSUME NEW s \in Sessions, NEW b \in BookingIds, TypeInv, RowInv,
         CancelLoad(s, b)
  PROVE  Frame(s) /\ RowInv' /\ StepProps
<1> DEFINE t == [NoTxn EXCEPT !.op = "cancel", !.ride = booking[b].ride,
                         !.booking = b, !.party = booking[b].seats,
                         !.seenStatus = rideStatus[booking[b].ride],
                         !.seenSeats = seatsAvailable[booking[b].ride]]
<1>1. Load(s, t, "cancelCommit") /\ UNCHANGED <<tables, rowLock, slotLock>>
  BY DEF CancelLoad
<1>2. t.ride = booking[b].ride /\ t.booking = b
  BY DEF NoTxn
<1> HIDE DEF t
<1>3. Own(s) /\ txn'[s] = t /\ pc'[s] = "cancelCommit"
  BY <1>1 DEF Load, Own, TypeInv, SessionsOK
<1>4. Frame(s) /\ StepProps
  BY <1>1, <1>3, QuietFrame DEF tables
<1> QED
  BY <1>1, <1>2, <1>3, <1>4, FrameRow DEF RequestRow, Holding, tables

\* The UPDATE of the bookings of a completion.
LEMMA CompleteBookingsRow ==
  ASSUME NEW s \in Sessions, TypeInv, RowInv, CompleteBookings(s)
  PROVE  Frame(s) /\ RowInv' /\ StepProps
<1> DEFINE q == ActiveBookings(txn[s].ride)
<1>1. /\ \A b \in q : BookingFree(b)
      /\ txn' = [txn EXCEPT ![s] = [txn[s] EXCEPT !.stops = q]]
      /\ pc' = [pc EXCEPT ![s] = "completeCommit"]
      /\ UNCHANGED <<tables, rowLock, slotLock>>
  BY DEF CompleteBookings, Goto
<1>2. /\ q \in SUBSET BookingIds
      /\ \A b \in q : booking[b].ride = txn[s].ride /\ booking[b].status = "booked"
  BY DEF ActiveBookings, BookingsOf
<1> HIDE DEF q
<1>3. txn[s] \in Txns /\ txn'[s] = [txn[s] EXCEPT !.stops = q]
  BY <1>1 DEF TypeInv, SessionsOK
<1>4. txn'[s].stops = q /\ txn'[s].ride = txn[s].ride
  BY <1>2, <1>3, StopsTxn
<1>5. Own(s) /\ pc'[s] = "completeCommit"
  BY <1>1 DEF Own, TypeInv, SessionsOK
<1>6. Frame(s) /\ StepProps /\ UNCHANGED booking
  BY <1>1, <1>5, QuietFrame DEF tables
<1>7. RequestRow(s)'
  BY <1>2, <1>4, <1>5, <1>6 DEF RequestRow
<1>8. \A b \in Holding(s)' : BookingFree(b)
  BY <1>1, <1>4, <1>5 DEF Holding
<1> QED
  BY <1>6, <1>7, <1>8, FrameRow

\* The commits that write rides or bookings.
LEMMA BookCommitRow ==
  ASSUME NEW s \in Sessions, TypeInv, RowInv, BookCommit(s)
  PROVE  /\ Frame(s) /\ RowInv' /\ StepProps
         /\ \E b \in BookingIds :
              /\ booking[b].status = "unused"
              /\ booking'[b].ride = txn[s].ride
              /\ booking'[b].passenger = txn[s].passenger
              /\ \A c \in BookingIds \ {b} : booking'[c] = booking[c]
         /\ ~HasActiveBooking(txn[s].passenger, txn[s].ride)
<1> DEFINE r == txn[s].ride
           row == [NoBooking EXCEPT !.status = "booked", !.ride = r,
                                    !.passenger = txn[s].passenger,
                                    !.seats = txn[s].party]
<1>1. /\ pc[s] = "bookCommit" /\ GotoPlan(s) /\ ReleaseLocks(s)
      /\ UNCHANGED rideStatus
  BY DEF BookCommit
<1>2. /\ rowLock[r] = s /\ r \in Rides
      /\ ~HasActiveBooking(txn[s].passenger, r)
  BY <1>1 DEF RowInv, RequestRow, TypeInv, RequestOK
<1>3. Own(s) /\ pc'[s] = "planRead"
  BY <1>1, OwnGotoPlan
<1>4. PICK b \in BookingIds : /\ booking[b].status = "unused"
                              /\ booking' = [booking EXCEPT ![b] = row]
  BY DEF BookCommit
<1>5. /\ row.ride = r /\ row.status = "booked"
      /\ row.passenger = txn[s].passenger
      /\ ~row.pickedUp /\ ~row.droppedOff
  BY DEF NoBooking
<1> HIDE DEF row
<1>6. booking'[b] = row /\ \A c \in BookingIds \ {b} : booking'[c] = booking[c]
  BY <1>4 DEF TypeInv, TablesOK
<1>7. booking[b].ride = None
  BY <1>4 DEF RowInv
<1>8. \A q \in Rides : rowLock[q] \in Sessions \ {s} => q # r /\ q # None
  BY <1>2, RidesAssumption
<1>12. \A u \in Sessions : b \notin Holding(u)
  BY <1>4 DEF RowInv, RequestRow, Holding, ExecAllowed
<1>9. Frame(s)
  BY <1>1, <1>3, <1>4, <1>5, <1>6, <1>7, <1>8, <1>12 DEF Frame, Own, Holding
<1>10. StepProps
  BY <1>4, <1>5, <1>6 DEF StepProps, CancelledKept, ExecutionInProgress
<1>11. RowInv'
  BY <1>3, <1>9, FrameRow DEF RequestRow, Holding
<1> QED
  BY <1>2, <1>4, <1>5, <1>6, <1>9, <1>10, <1>11

\* A step that rewrites a ride whose row is free, or that s itself has
\* locked, and bookings on it whose rows are free or held by s.
LEMMA WriteFrame ==
  ASSUME NEW s \in Sessions, NEW r \in Rides, TypeInv, RowInv, Own(s),
         RowFree(r) \/ rowLock[r] = s,
         \A q \in Rides \ {r} : rideStatus'[q] = rideStatus[q],
         \A b \in BookingIds :
           \/ booking'[b] = booking[b]
           \/ /\ booking[b].ride = r /\ (BookingFree(b) \/ b \in Holding(s))
              /\ booking[b].status # "unused" /\ booking'[b].status # "unused"
              /\ booking'[b].ride = booking[b].ride
              /\ booking'[b].passenger = booking[b].passenger
  PROVE  Frame(s)
<1>1. \A q \in Rides : rowLock[q] \in Sessions \ {s} => q # r
  BY RidesAssumption DEF RowFree
<1>2. \A u \in Sessions \ {s} : \A b \in Holding(u) : booking'[b] = booking[b]
  BY FreeBooking DEF RowInv, Holding
<1> QED
  BY <1>1, <1>2 DEF Frame, Own

LEMMA CancelCommitRow ==
  ASSUME NEW s \in Sessions, TypeInv, RowInv, CancelCommit(s), ~Refuse(s)
  PROVE  Frame(s) /\ RowInv' /\ StepProps /\ Plain(s)
<1> DEFINE r == txn[s].ride
           b == txn[s].booking
<1>1. /\ pc[s] = "cancelCommit" /\ RowFree(r) /\ BookingFree(b) /\ GotoPlan(s)
      /\ booking' = [booking EXCEPT ![b].status = "cancelled"]
      /\ UNCHANGED <<rideStatus, rowLock>>
  BY DEF CancelCommit
<1>2. /\ r \in Rides /\ b \in BookingIds
      /\ booking[b].ride = r /\ booking[b].status # "unused"
  BY <1>1 DEF RowInv, RequestRow, TypeInv, RequestOK
<1>3. Own(s) /\ pc'[s] = "planRead"
  BY <1>1, OwnGotoPlan
<1>4. \A x \in Bookings : /\ [x EXCEPT !.status = "cancelled"].status = "cancelled"
                          /\ [x EXCEPT !.status = "cancelled"].ride = x.ride
                          /\ [x EXCEPT !.status = "cancelled"].passenger = x.passenger
                          /\ [x EXCEPT !.status = "cancelled"].pickedUp = x.pickedUp
                          /\ [x EXCEPT !.status = "cancelled"].droppedOff = x.droppedOff
  BY DEF Bookings
<1>5. /\ booking'[b] = [booking[b] EXCEPT !.status = "cancelled"]
      /\ \A c \in BookingIds \ {b} : booking'[c] = booking[c]
      /\ booking[b] \in Bookings
  BY <1>1, <1>2 DEF TypeInv, TablesOK
<1> HIDE DEF r, b
<1>6. /\ booking'[b].status = "cancelled" /\ booking'[b].ride = booking[b].ride
      /\ booking'[b].passenger = booking[b].passenger
      /\ booking'[b].pickedUp = booking[b].pickedUp
      /\ booking'[b].droppedOff = booking[b].droppedOff
  BY <1>4, <1>5
<1>7. \A q \in Rides \ {r} : rideStatus'[q] = rideStatus[q]
  BY <1>1
<1>8. Frame(s)
  BY <1>1, <1>2, <1>3, <1>5, <1>6, <1>7, WriteFrame
<1>9. StepProps /\ Plain(s)
  BY <1>3, <1>5, <1>6 DEF StepProps, CancelledKept, ExecutionInProgress, Plain
<1> QED
  BY <1>8, <1>9, FramePlain

LEMMA ExecCommitRow ==
  ASSUME NEW s \in Sessions, TypeInv, RowInv, ExecCommit(s)
  PROVE  Frame(s) /\ RowInv' /\ StepProps /\ Plain(s)
<1> DEFINE r == txn[s].ride
           b == txn[s].booking
           row == IF txn[s].op = "pickup"
                  THEN [booking[b] EXCEPT !.pickedUp = TRUE]
                  ELSE [booking[b] EXCEPT !.pickedUp = TRUE, !.droppedOff = TRUE,
                                          !.status = "completed"]
<1>1. /\ pc[s] = "execCommit" /\ Finish(s)
      /\ booking' = [booking EXCEPT ![b] = row]
      /\ UNCHANGED rideStatus
  BY DEF ExecCommit
<1>2. /\ r \in Rides /\ b \in BookingIds
      /\ booking[b].ride = r /\ rowLock[r] = s
      /\ ExecAllowed(b) /\ booking[b] \in Bookings
  BY <1>1 DEF RowInv, RequestRow, TypeInv, RequestOK, TablesOK
<1>3. booking[b].status = "booked" /\ rideStatus[r] = "in_progress"
  BY <1>2 DEF ExecAllowed
<1>4. /\ row.ride = r /\ row.passenger = booking[b].passenger
      /\ row.status \in {"booked", "completed"}
  BY <1>2, <1>3 DEF Bookings
<1>5. booking'[b] = row /\ \A c \in BookingIds \ {b} : booking'[c] = booking[c]
  BY <1>1, <1>2 DEF TypeInv, TablesOK
<1>6. /\ Own(s) /\ pc'[s] = "idle"
      /\ b \in Holding(s)
  BY <1>1, <1>2, OwnFinish DEF Holding
<1> HIDE DEF r, b, row
<1>7. Frame(s)
  BY <1>1, <1>2, <1>3, <1>4, <1>5, <1>6, WriteFrame
<1>8. StepProps /\ Plain(s)
  BY <1>2, <1>3, <1>4, <1>5, <1>6
  DEF StepProps, CancelledKept, ExecutionInProgress, Plain
<1> QED
  BY <1>7, <1>8, FramePlain

\* Trips and the patch write the status alone.
LEMMA StatusOnlyRow ==
  ASSUME NEW s \in Sessions, TypeInv, RowInv, TripCommit(s) \/ PatchCommit(s)
  PROVE  Frame(s) /\ RowInv' /\ StepProps /\ Plain(s)
<1> DEFINE r == txn[s].ride
<1>1. /\ Finish(s) /\ UNCHANGED booking
      /\ RowFree(r) \/ rowLock[r] = s
      /\ r \in Rides
      /\ \A q \in Rides \ {r} : rideStatus'[q] = rideStatus[q]
  BY DEF TripCommit, PatchCommit, RowInv, RequestRow, TypeInv, TablesOK, RequestOK
<1>2. Own(s) /\ pc'[s] = "idle"
  BY <1>1, OwnFinish
<1>3. Frame(s)
  BY <1>1, <1>2, WriteFrame
<1>4. StepProps /\ Plain(s)
  BY <1>1, <1>2 DEF StepProps, CancelledKept, ExecutionInProgress, Plain, TypeInv, TablesOK
<1> QED
  BY <1>3, <1>4, FramePlain

LEMMA DeleteCommitRow ==
  ASSUME NEW s \in Sessions, TypeInv, RowInv, DeleteCommit(s)
  PROVE  Frame(s) /\ RowInv' /\ StepProps /\ Plain(s)
<1> DEFINE r == txn[s].ride
           D == BookingsOf(r)
<1>1. /\ pc[s] = "deleteCommit" /\ Finish(s) /\ RowFree(r)
      /\ \A b \in D : BookingFree(b)
      /\ booking' = [b \in BookingIds |->
                       IF b \in D THEN [booking[b] EXCEPT !.status = "deleted"]
                                  ELSE booking[b]]
      /\ rideStatus' = [rideStatus EXCEPT ![r] = "deleted"]
  BY DEF DeleteCommit
<1>2. r \in Rides
  BY <1>1 DEF TypeInv, RequestOK
<1>3. \A b \in D : booking[b].ride = r /\ booking[b].status # "unused"
  BY <1>2, RidesAssumption DEF BookingsOf, RowInv
<1>4. Own(s) /\ pc'[s] = "idle"
  BY <1>1, OwnFinish
<1>5. \A x \in Bookings : /\ [x EXCEPT !.status = "deleted"].status = "deleted"
                          /\ [x EXCEPT !.status = "deleted"].ride = x.ride
                          /\ [x EXCEPT !.status = "deleted"].passenger = x.passenger
                          /\ [x EXCEPT !.status = "deleted"].pickedUp = x.pickedUp
                          /\ [x EXCEPT !.status = "deleted"].droppedOff = x.droppedOff
  BY DEF Bookings
<1> HIDE DEF r, D
<1>6. \A b \in BookingIds :
         \/ b \notin D /\ booking'[b] = booking[b]
         \/ /\ b \in D
            /\ booking'[b].status = "deleted"
            /\ booking'[b].ride = booking[b].ride
            /\ booking'[b].passenger = booking[b].passenger
            /\ booking'[b].pickedUp = booking[b].pickedUp
            /\ booking'[b].droppedOff = booking[b].droppedOff
  BY <1>1, <1>5 DEF TypeInv, TablesOK
<1>7. \A q \in Rides \ {r} : rideStatus'[q] = rideStatus[q]
  BY <1>1 DEF TypeInv, TablesOK
<1>8. \A b \in BookingIds :
         \/ booking'[b] = booking[b]
         \/ /\ booking[b].ride = r /\ BookingFree(b)
            /\ booking[b].status # "unused" /\ booking'[b].status # "unused"
            /\ booking'[b].ride = booking[b].ride
            /\ booking'[b].passenger = booking[b].passenger
  BY <1>1, <1>3, <1>6
<1>9. Frame(s)
  BY <1>1, <1>2, <1>4, <1>7, <1>8, WriteFrame
<1>10. StepProps /\ Plain(s)
  BY <1>4, <1>6 DEF StepProps, CancelledKept, ExecutionInProgress, Plain
<1> QED
  BY <1>9, <1>10, FramePlain

LEMMA StatusCommitRow ==
  ASSUME NEW s \in Sessions, TypeInv, RowInv, StatusCommit(s), ~Refuse(s)
  PROVE  Frame(s) /\ RowInv' /\ StepProps /\ Plain(s)
<1> DEFINE r == txn[s].ride
<1>1. /\ pc[s] = "statusCommit" /\ RowFree(r)
      /\ rideStatus' = [rideStatus EXCEPT ![r] = txn[s].target]
      /\ Finish(s) /\ UNCHANGED booking
  BY DEF StatusCommit
<1>2. r \in Rides
  BY <1>1 DEF TypeInv, RequestOK
<1>3. \A q \in Rides \ {r} : rideStatus'[q] = rideStatus[q]
  BY <1>1 DEF TypeInv, TablesOK
<1>4. Own(s) /\ pc'[s] = "idle"
  BY <1>1, OwnFinish
<1>5. Frame(s)
  BY <1>1, <1>2, <1>3, <1>4, WriteFrame
<1>6. StepProps /\ Plain(s)
  BY <1>1, <1>4
  DEF StepProps, CancelledKept, ExecutionInProgress, Plain, TypeInv, TablesOK
<1> QED
  BY <1>5, <1>6, FramePlain

LEMMA CompleteCommitRow ==
  ASSUME NEW s \in Sessions, TypeInv, RowInv, CompleteCommit(s), ~Refuse(s)
  PROVE  Frame(s) /\ RowInv' /\ StepProps /\ Plain(s)
<1> DEFINE r == txn[s].ride
           A == txn[s].stops
<1>1. /\ pc[s] = "completeCommit" /\ RowFree(r)
      /\ rideStatus' = [rideStatus EXCEPT ![r] = txn[s].target]
      /\ booking' = [b \in BookingIds |->
                       IF b \in A THEN [booking[b] EXCEPT !.status = "completed"]
                                  ELSE booking[b]]
      /\ pc' = [pc EXCEPT ![s] = "statsCommit"]
      /\ UNCHANGED <<rowLock, txn>>
  BY DEF CompleteCommit, Goto
<1>2. r \in Rides /\ A \in SUBSET BookingIds
  BY <1>1 DEF TypeInv, RequestOK, SessionsOK, Txns
<1>3. \A q \in Rides \ {r} : rideStatus'[q] = rideStatus[q]
  BY <1>1 DEF TypeInv, TablesOK
<1>4. \A b \in A : /\ booking[b].ride = r /\ booking[b].status = "booked"
                   /\ b \in Holding(s)
  BY <1>1, <1>2 DEF RowInv, RequestRow, Holding
<1>5. Own(s) /\ pc'[s] = "statsCommit"
  BY <1>1 DEF Own, TypeInv, SessionsOK
<1>6. \A x \in Bookings :
         /\ [x EXCEPT !.status = "completed"].status = "completed"
         /\ [x EXCEPT !.status = "completed"].ride = x.ride
         /\ [x EXCEPT !.status = "completed"].passenger = x.passenger
         /\ [x EXCEPT !.status = "completed"].pickedUp = x.pickedUp
         /\ [x EXCEPT !.status = "completed"].droppedOff = x.droppedOff
  BY DEF Bookings
<1> HIDE DEF r, A
<1>7. \A b \in BookingIds :
         \/ b \notin A /\ booking'[b] = booking[b]
         \/ /\ b \in A
            /\ booking'[b].status = "completed"
            /\ booking'[b].ride = booking[b].ride
            /\ booking'[b].passenger = booking[b].passenger
            /\ booking'[b].pickedUp = booking[b].pickedUp
            /\ booking'[b].droppedOff = booking[b].droppedOff
  BY <1>1, <1>6 DEF TypeInv, TablesOK
<1>8. \A b \in BookingIds :
         \/ booking'[b] = booking[b]
         \/ /\ booking[b].ride = r /\ b \in Holding(s)
            /\ booking[b].status # "unused" /\ booking'[b].status # "unused"
            /\ booking'[b].ride = booking[b].ride
            /\ booking'[b].passenger = booking[b].passenger
  BY <1>4, <1>7
<1>9. Frame(s)
  BY <1>1, <1>2, <1>3, <1>5, <1>8, WriteFrame
<1>10. StepProps /\ Plain(s)
  BY <1>4, <1>5, <1>7 DEF StepProps, CancelledKept, ExecutionInProgress, Plain
<1> QED
  BY <1>9, <1>10, FramePlain

LEMMA NoDupPlain ==
  ASSUME NoDuplicateActiveBooking, TypeInv,
         \A b \in BookingIds : booking'[b].status = "booked" =>
           /\ booking[b].status = "booked"
           /\ booking'[b].ride = booking[b].ride
           /\ booking'[b].passenger = booking[b].passenger
  PROVE  NoDuplicateActiveBooking'
  BY DEF NoDuplicateActiveBooking, ActiveBookings, BookingsOf

LEMMA NoDupBook ==
  ASSUME NEW s \in Sessions, NoDuplicateActiveBooking, TypeInv, RowInv,
         BookCommit(s)
  PROVE  NoDuplicateActiveBooking'
<1>1. PICK b \in BookingIds :
         /\ booking[b].status = "unused"
         /\ booking'[b].ride = txn[s].ride
         /\ booking'[b].passenger = txn[s].passenger
         /\ \A c \in BookingIds \ {b} : booking'[c] = booking[c]
  BY BookCommitRow
<1>2. ~HasActiveBooking(txn[s].passenger, txn[s].ride)
  BY BookCommitRow
<1> QED
  BY <1>1, <1>2
  DEF NoDuplicateActiveBooking, HasActiveBooking, ActiveBookings, BookingsOf

LEMMA BeginRow ==
  ASSUME NEW s \in Sessions, TypeInv, RowInv, Begin(s)
  PROVE  Frame(s) /\ RowInv' /\ StepProps
<1>1. ASSUME NEW p \in Passengers, NEW r \in Rides, NEW n \in 1 .. MaxParty,
             BookLoad(s, p, r, n)
      PROVE  Frame(s) /\ RowInv' /\ StepProps
  <2>1. PICK t : Load(s, t, "bookSlotLock") /\ UNCHANGED <<tables, rowLock>>
    BY <1>1, Zenon DEF BookLoad
  <2> QED
    BY <2>1, LoadRow
<1>2. ASSUME NEW r \in Rides, RouteLoad(s, r)
      PROVE  Frame(s) /\ RowInv' /\ StepProps
  <2>1. PICK t : Load(s, t, "planRead") /\ UNCHANGED <<tables, rowLock>>
    BY <1>2, Zenon DEF RouteLoad
  <2> QED
    BY <2>1, LoadRow
<1>3. ASSUME NEW r \in Rides, DeleteLoad(s, r)
      PROVE  Frame(s) /\ RowInv' /\ StepProps
  <2>1. PICK t : Load(s, t, "deleteCommit") /\ UNCHANGED <<tables, rowLock>>
    BY <1>3, Zenon DEF DeleteLoad
  <2> QED
    BY <2>1, LoadRow
<1>4. ASSUME NEW r \in Rides, NEW new \in RideStatus, StatusLoad(s, r, new)
      PROVE  Frame(s) /\ RowInv' /\ StepProps
  <2>1. PICK t : Load(s, t, "statusCheck") /\ UNCHANGED <<tables, rowLock>>
    BY <1>4, Zenon DEF StatusLoad
  <2> QED
    BY <2>1, LoadRow
<1>5. ASSUME NEW r \in Rides, NEW new \in RideStatus, PatchLoad(s, r, new)
      PROVE  Frame(s) /\ RowInv' /\ StepProps
  <2>1. PICK t : Load(s, t, "patchCommit") /\ UNCHANGED <<tables, rowLock>>
    BY <1>5, Zenon DEF PatchLoad
  <2> QED
    BY <2>1, LoadRow
<1> QED
  BY <1>1, <1>2, <1>3, <1>4, <1>5, CancelLoadRow, ExecLockRow, TripLockRow DEF Begin

LEMMA BeginQuiet ==
  ASSUME NEW s, Begin(s)
  PROVE  UNCHANGED booking
  BY DEF Begin, BookLoad, RouteLoad, DeleteLoad, CancelLoad, StatusLoad,
         PatchLoad, ExecLock, TripLock, tables

\* Every step but the commit of a booking keeps RowInv and makes no booking
\* active.
LEMMA AdvanceRow ==
  ASSUME NEW s \in Sessions, TypeInv, RowInv, Advance(s), ~BookCommit(s)
  PROVE  /\ Frame(s) /\ RowInv' /\ StepProps
         /\ Plain(s) \/ UNCHANGED booking
<1>1. CASE Refuse(s)
  BY <1>1, PlainRefuse
<1>2. CASE ~Refuse(s)
  <2>1. CASE BookSlotLock(s)
    BY <2>1, GotoRow DEF BookSlotLock, tables
  <2>2. CASE BookSlots(s)
    <3>1. \A u \in Sessions \ {s} : txn'[u] = txn[u]
      BY <1>2, <2>2 DEF BookSlots, TypeInv, SessionsOK
    <3> QED
      BY <1>2, <2>2, <3>1, GotoRow DEF BookSlots, tables
  <2>3. CASE BookRow(s)
    BY <1>2, <2>3, BookRowRow DEF BookRow, tables
  <2>4. CASE BookCheck(s)
    BY <1>2, <2>4, BookCheckRow DEF BookCheck, tables
  <2>5. CASE PlanRead(s)
    <3>1. \A u \in Sessions \ {s} : txn'[u] = txn[u]
      BY <1>2, <2>5 DEF PlanRead, TypeInv, SessionsOK
    <3> QED
      BY <1>2, <2>5, <3>1, GotoRow DEF PlanRead, tables
  <2>6. CASE PlanWrite(s)
    <3>1. CASE Finish(s)
      BY <2>6, <3>1, FinishRow DEF PlanWrite
    <3>2. CASE ~Finish(s)
      <4>1. \A u \in Sessions \ {s} : txn'[u] = txn[u]
        BY <2>6, <3>2 DEF PlanWrite, TypeInv, SessionsOK
      <4> QED
        BY <2>6, <3>2, <4>1, GotoRow DEF PlanWrite
    <3> QED
      BY <3>1, <3>2
  <2>7. CASE StatusCheck(s)
    BY <1>2, <2>7, GotoRow DEF StatusCheck, tables
  <2>8. CASE StatsCommit(s)
    BY <2>8, FinishRow DEF StatsCommit
  <2>9. CASE CompleteBookings(s)
    BY <2>9, CompleteBookingsRow DEF CompleteBookings, tables
  <2> QED
    BY <1>2, <2>1, <2>2, <2>3, <2>4, <2>5, <2>6, <2>7, <2>8, <2>9, CancelCommitRow,
       StatusCommitRow, CompleteCommitRow, DeleteCommitRow, ExecCommitRow,
       StatusOnlyRow DEF Advance
<1> QED
  BY <1>1, <1>2

LEMMA RowStep ==
  ASSUME TypeInv, RowInv, [Next]_vars
  PROVE  /\ RowInv' /\ StepProps
         /\ NoDuplicateActiveBooking => NoDuplicateActiveBooking'
<1>1. CASE UNCHANGED vars
  <2>1. UNCHANGED <<rideStatus, booking, rowLock, pc, txn>>
    BY <1>1 DEF vars, tables
  <2>2. RowInv' /\ StepProps
    BY <2>1
    DEF RowInv, RequestRow, Holding, StepProps, CancelledKept, ExecutionInProgress,
        HasActiveBooking, ActiveBookings, BookingsOf, ExecAllowed
  <2> QED
    BY <2>1, <2>2 DEF NoDuplicateActiveBooking, ActiveBookings, BookingsOf
<1>2. ASSUME NEW s \in Sessions, BookCommit(s)
      PROVE  /\ RowInv' /\ StepProps
             /\ NoDuplicateActiveBooking => NoDuplicateActiveBooking'
  BY <1>2, BookCommitRow, NoDupBook
<1>3. ASSUME NEW s \in Sessions, Plain(s) \/ UNCHANGED booking
      PROVE  NoDuplicateActiveBooking => NoDuplicateActiveBooking'
  BY <1>3, NoDupPlain DEF Plain
<1>4. ASSUME NEW s \in Sessions, Begin(s)
      PROVE  /\ RowInv' /\ StepProps
             /\ NoDuplicateActiveBooking => NoDuplicateActiveBooking'
  BY <1>3, <1>4, BeginRow, BeginQuiet
<1>5. ASSUME NEW s \in Sessions, Advance(s), ~BookCommit(s)
      PROVE  /\ RowInv' /\ StepProps
             /\ NoDuplicateActiveBooking => NoDuplicateActiveBooking'
  BY <1>3, <1>5, AdvanceRow
<1>6. ASSUME NEW s \in Sessions, Abort(s)
      PROVE  /\ RowInv' /\ StepProps
             /\ NoDuplicateActiveBooking => NoDuplicateActiveBooking'
  BY <1>3, <1>6, PlainRefuse DEF Abort
<1> QED
  BY <1>1, <1>2, <1>4, <1>5, <1>6 DEF Next

LEMMA RowInit == Init => RowInv /\ NoDuplicateActiveBooking
  BY DEF Init, NoBooking, RowInv, RequestRow, Holding, NoDuplicateActiveBooking,
         ActiveBookings, BookingsOf

\* The locking discipline holds in every reachable state: what a request has
\* checked under a row lock is still true when it commits.
THEOREM LocksProtect == Spec => []RowInv
<1>1. Init => RowInv
  BY RowInit
<1>2. TypeInv /\ RowInv /\ [Next]_vars => RowInv'
  BY RowStep
<1> QED
  BY <1>1, <1>2, InitType, TypeStep, PTL DEF Spec

\* No passenger ever holds two active bookings on one ride, however many
\* requests race, whichever endpoints they call and wherever they fail.
THEOREM NoDuplicates == Spec => []NoDuplicateActiveBooking
<1>1. Init => NoDuplicateActiveBooking
  BY RowInit
<1>2. TypeInv /\ RowInv /\ NoDuplicateActiveBooking /\ [Next]_vars
        => NoDuplicateActiveBooking'
  BY RowStep
<1> QED
  BY <1>1, <1>2, InitType, TypeStep, LocksProtect, PTL DEF Spec

\* No request, concurrent or interrupted, revives a cancelled booking.
THEOREM CancellationsStick == Spec => CancelledIsFinal
<1>1. TypeInv /\ RowInv /\ [Next]_vars =>
        [\A b \in BookingIds : booking[b].status = "cancelled" =>
           booking'[b].status \in {"cancelled", "deleted"}]_booking
  BY RowStep DEF StepProps, CancelledKept
<1> QED
  BY <1>1, InitType, TypeStep, LocksProtect, PTL DEF Spec, CancelledIsFinal

\* Pickups and dropoffs are recorded on active bookings of rides that are in
\* progress at the commit.
THEOREM ExecutionsInProgress == Spec => ExecutionOnlyInProgress
<1>1. TypeInv /\ RowInv /\ [Next]_vars =>
        [\A b \in BookingIds :
           \/ booking'[b].pickedUp /\ ~booking[b].pickedUp
           \/ booking'[b].droppedOff /\ ~booking[b].droppedOff
           => /\ rideStatus[booking[b].ride] = "in_progress"
              /\ booking[b].status = "booked"]_booking
  BY RowStep DEF StepProps, ExecutionInProgress
<1> QED
  BY <1>1, InitType, TypeStep, LocksProtect, PTL DEF Spec, ExecutionOnlyInProgress

(***************************************************************************)
(* What a request does at its own steps: where it goes, what it loads and  *)
(* what it has checked when it gets there.                                 *)
(***************************************************************************)
\* The request keeps what it loaded, its stops excepted.
Keeps(s) ==
  /\ txn'[s].op = txn[s].op /\ txn'[s].ride = txn[s].ride
  /\ txn'[s].passenger = txn[s].passenger /\ txn'[s].party = txn[s].party
  /\ txn'[s].booking = txn[s].booking /\ txn'[s].target = txn[s].target
  /\ txn'[s].seenStatus = txn[s].seenStatus
  /\ txn'[s].seenSeats = txn[s].seenSeats /\ txn'[s].seenTotal = txn[s].seenTotal

\* The first statement of request t on its way to step next.
Loaded(t, next) ==
  LET r == t.ride
  IN /\ r \in Rides /\ t.op \in Ops
     /\ \/ /\ next = "bookSlotLock"
           /\ t.passenger \in Passengers /\ t.party \in 1 .. MaxParty
           /\ Exists(r)
           /\ t.seenStatus = rideStatus[r] /\ t.seenSeats = seatsAvailable[r]
        \/ /\ next = "cancelCommit"
           /\ t.booking \in BookingIds /\ booking[t.booking].ride = r
           /\ booking[t.booking].status \notin {"unused", "deleted"}
           /\ Exists(r) /\ CancelAllowed(t.booking)
           /\ t.party = booking[t.booking].seats /\ t.stops = {}
           /\ t.seenStatus = rideStatus[r] /\ t.seenSeats = seatsAvailable[r]
        \/ /\ next = "planRead"
           /\ rideStatus[r] = "open" /\ t.seenStatus = "open" /\ t.stops = {}
        \/ /\ next = "statusCheck" /\ t.op = "status"
           /\ <<rideStatus[r], t.target>> \in ValidTransitions
           /\ t.seenTotal = totalRides[DriverOf[r]]
        \/ next = "deleteCommit" /\ t.op = "delete"
           /\ Exists(r) /\ ActiveBookings(r) = {}
        \/ /\ next = "tripCommit" /\ TripAllowed(t.op, r)
           /\ t.target = IF t.op = "start_trip" THEN "in_progress" ELSE "completed"
        \/ next = "execCommit"
        \/ next = "patchCommit" /\ t.op = "patch"

LEMMA LoadIs ==
  ASSUME NEW s \in Sessions, NEW t, NEW next, TypeInv, Load(s, t, next)
  PROVE  /\ pc[s] = "idle" /\ pc'[s] = next /\ txn'[s] = t /\ t.op \in Ops
         /\ \A u \in Sessions \ {s} : pc'[u] = pc[u] /\ txn'[u] = txn[u]
  BY DEF Load, TypeInv, SessionsOK

LEMMA BeginKinds ==
  ASSUME NEW s \in Sessions, TypeInv, Begin(s)
  PROVE  /\ UNCHANGED tables /\ pc[s] = "idle" /\ Loaded(txn'[s], pc'[s])
         /\ \A u \in Sessions \ {s} : pc'[u] = pc[u] /\ txn'[u] = txn[u]
<1> DEFINE Goal == /\ UNCHANGED tables /\ pc[s] = "idle" /\ Loaded(txn'[s], pc'[s])
                   /\ \A u \in Sessions \ {s} : pc'[u] = pc[u] /\ txn'[u] = txn[u]
<1>1. ASSUME NEW t, NEW next, Load(s, t, next), UNCHANGED tables,
             t.op \in Ops => Loaded(t, next)
      PROVE  Goal
  BY <1>1, LoadIs
<1> HIDE DEF Goal
<1>2. ASSUME NEW p \in Passengers, NEW r \in Rides, NEW n \in 1 .. MaxParty,
             BookLoad(s, p, r, n)
      PROVE  Goal
  <2> DEFINE t == [NoTxn EXCEPT !.op = "book", !.ride = r, !.passenger = p,
                           !.party = n, !.seenStatus = rideStatus[r],
                           !.seenSeats = seatsAvailable[r]]
  <2>1. Load(s, t, "bookSlotLock") /\ Exists(r) /\ UNCHANGED tables
    BY <1>2 DEF BookLoad
  <2>2. /\ t.passenger = p /\ t.ride = r /\ t.party = n
        /\ t.seenStatus = rideStatus[r] /\ t.seenSeats = seatsAvailable[r]
    BY DEF NoTxn
  <2> HIDE DEF t
  <2>3. t.op \in Ops => Loaded(t, "bookSlotLock")
    BY <2>1, <2>2 DEF Loaded
  <2> QED
    BY <1>1, <2>1, <2>3
<1>3. ASSUME NEW r \in Rides, RouteLoad(s, r)
      PROVE  Goal
  <2> DEFINE t == [NoTxn EXCEPT !.op = "route", !.ride = r, !.seenStatus = "open",
                           !.again = (plan[r] = {})]
  <2>1. Load(s, t, "planRead") /\ rideStatus[r] = "open" /\ UNCHANGED tables
    BY <1>3 DEF RouteLoad
  <2>2. t.ride = r /\ t.seenStatus = "open" /\ t.stops = {}
    BY DEF NoTxn
  <2> HIDE DEF t
  <2>3. t.op \in Ops => Loaded(t, "planRead")
    BY <2>1, <2>2 DEF Loaded
  <2> QED
    BY <1>1, <2>1, <2>3
<1>4. ASSUME NEW r \in Rides, DeleteLoad(s, r)
      PROVE  Goal
  <2> DEFINE t == [NoTxn EXCEPT !.op = "delete", !.ride = r]
  <2>1. /\ Load(s, t, "deleteCommit") /\ Exists(r) /\ ActiveBookings(r) = {}
        /\ UNCHANGED tables
    BY <1>4 DEF DeleteLoad
  <2>2. t.ride = r /\ t.op = "delete"
    BY DEF NoTxn
  <2> HIDE DEF t
  <2>3. t.op \in Ops => Loaded(t, "deleteCommit")
    BY <2>1, <2>2 DEF Loaded
  <2> QED
    BY <1>1, <2>1, <2>3
<1>5. ASSUME NEW b \in BookingIds, CancelLoad(s, b)
      PROVE  Goal
  <2> DEFINE t == [NoTxn EXCEPT !.op = "cancel", !.ride = booking[b].ride,
                         !.booking = b, !.party = booking[b].seats,
                         !.seenStatus = rideStatus[booking[b].ride],
                         !.seenSeats = seatsAvailable[booking[b].ride]]
  <2>1. /\ Load(s, t, "cancelCommit") /\ Exists(booking[b].ride)
        /\ booking[b].status \notin {"unused", "deleted"} /\ CancelAllowed(b)
        /\ UNCHANGED tables
    BY <1>5 DEF CancelLoad
  <2>2. /\ t.ride = booking[b].ride /\ t.booking = b /\ t.party = booking[b].seats
        /\ t.seenStatus = rideStatus[booking[b].ride]
        /\ t.seenSeats = seatsAvailable[booking[b].ride] /\ t.stops = {}
    BY DEF NoTxn
  <2> HIDE DEF t
  <2>3. booking[b].ride \in Rides
    BY <2>1 DEF TypeInv, BookingsOK
  <2>4. t.op \in Ops => Loaded(t, "cancelCommit")
    BY <2>1, <2>2, <2>3 DEF Loaded
  <2> QED
    BY <1>1, <2>1, <2>4
<1>6. ASSUME NEW r \in Rides, NEW new \in RideStatus, StatusLoad(s, r, new)
      PROVE  Goal
  <2> DEFINE t == [NoTxn EXCEPT !.op = "status", !.ride = r, !.target = new,
                         !.seenTotal = totalRides[DriverOf[r]]]
  <2>1. /\ Load(s, t, "statusCheck") /\ <<rideStatus[r], new>> \in ValidTransitions
        /\ UNCHANGED tables
    BY <1>6 DEF StatusLoad
  <2>2. /\ t.ride = r /\ t.op = "status" /\ t.target = new
        /\ t.seenTotal = totalRides[DriverOf[r]]
    BY DEF NoTxn
  <2> HIDE DEF t
  <2>3. t.op \in Ops => Loaded(t, "statusCheck")
    BY <2>1, <2>2 DEF Loaded
  <2> QED
    BY <1>1, <2>1, <2>3
<1>7. ASSUME NEW r \in Rides, NEW op \in {"start_trip", "complete_trip"},
             TripLock(s, r, op)
      PROVE  Goal
  <2> DEFINE t == [NoTxn EXCEPT !.op = op, !.ride = r,
                     !.target = IF op = "start_trip" THEN "in_progress"
                                                     ELSE "completed"]
  <2>1. Load(s, t, "tripCommit") /\ TripAllowed(op, r) /\ UNCHANGED tables
    BY <1>7 DEF TripLock
  <2>2. /\ t.ride = r /\ t.op = op
        /\ t.target = IF op = "start_trip" THEN "in_progress" ELSE "completed"
    BY DEF NoTxn
  <2> HIDE DEF t
  <2>3. t.op \in Ops => Loaded(t, "tripCommit")
    BY <2>1, <2>2 DEF Loaded
  <2> QED
    BY <1>1, <2>1, <2>3
<1>8. ASSUME NEW r \in Rides, NEW new \in RideStatus, PatchLoad(s, r, new)
      PROVE  Goal
  <2> DEFINE t == [NoTxn EXCEPT !.op = "patch", !.ride = r, !.target = new]
  <2>1. Load(s, t, "patchCommit") /\ UNCHANGED tables
    BY <1>8 DEF PatchLoad
  <2>2. t.ride = r /\ t.op = "patch"
    BY DEF NoTxn
  <2> HIDE DEF t
  <2>3. t.op \in Ops => Loaded(t, "patchCommit")
    BY <2>1, <2>2 DEF Loaded
  <2> QED
    BY <1>1, <2>1, <2>3
<1>9. ASSUME NEW b \in BookingIds, NEW op \in {"pickup", "dropoff"}, ExecLock(s, b, op)
      PROVE  Goal
  <2> DEFINE t == [NoTxn EXCEPT !.op = op, !.ride = booking[b].ride, !.booking = b]
  <2>1. Load(s, t, "execCommit") /\ ExecAllowed(b) /\ UNCHANGED tables
    BY <1>9 DEF ExecLock
  <2>2. t.ride = booking[b].ride
    BY DEF NoTxn
  <2> HIDE DEF t
  <2>3. booking[b].ride \in Rides
    BY <2>1 DEF ExecAllowed, TypeInv, BookingsOK
  <2>4. t.op \in Ops => Loaded(t, "execCommit")
    BY <2>2, <2>3 DEF Loaded
  <2> QED
    BY <1>1, <2>1, <2>4
<1>10. Goal
  BY <1>2, <1>3, <1>4, <1>5, <1>6, <1>7, <1>8, <1>9 DEF Begin
<1> QED
  BY <1>10 DEF Goal

\* GotoPlan keeps the ride, the rows loaded and the status seen.
LEMMA PlanNext ==
  ASSUME NEW s \in Sessions, TypeInv, GotoPlan(s)
  PROVE  /\ pc'[s] = "planRead"
         /\ txn'[s].ride = txn[s].ride /\ txn'[s].stops = txn[s].stops
         /\ txn'[s].seenStatus = txn[s].seenStatus
<1> DEFINE t == [NoTxn EXCEPT !.ride = txn[s].ride, !.stops = txn[s].stops,
                              !.seenStatus = txn[s].seenStatus]
<1>1. txn' = [txn EXCEPT ![s] = t] /\ pc' = [pc EXCEPT ![s] = "planRead"]
  BY DEF GotoPlan, Goto
<1>2. t.ride = txn[s].ride /\ t.stops = txn[s].stops /\ t.seenStatus = txn[s].seenStatus
  BY DEF NoTxn
<1> HIDE DEF t
<1> QED
  BY <1>1, <1>2 DEF TypeInv, SessionsOK

\* The steps that read and go on.
Reads(s) ==
  /\ UNCHANGED tables /\ Keeps(s)
  /\ \/ pc[s] = "bookSlotLock" /\ pc'[s] = "bookSlots"
     \/ /\ pc[s] = "bookSlots" /\ pc'[s] = "bookRow"
        /\ ~SlotTaken(txn[s].passenger, txn[s].ride)
        /\ txn'[s].stops \subseteq ActiveBookings(txn[s].ride)
     \/ /\ pc[s] = "bookRow" /\ pc'[s] = "bookCheck"
        /\ Exists(txn[s].ride) /\ txn'[s].stops = txn[s].stops
     \/ /\ pc[s] = "bookCheck" /\ pc'[s] = "bookCommit"
        /\ BookAllowed(txn[s]) /\ txn'[s].stops = txn[s].stops
     \/ /\ pc[s] = "planRead" /\ pc'[s] = "planWrite"
        /\ txn[s].seenStatus = "open" /\ txn'[s].stops = StopsToPlan(txn[s])
     \/ /\ pc[s] = "statusCheck" /\ pc'[s] = "statusCommit"
        /\ StatusAllowed(txn[s])
     \/ /\ pc[s] = "statusCommit" /\ pc'[s] = "completeCommit"
        /\ txn[s].target = "completed"

\* The commits after which the request goes on.
Commits(s) ==
  \/ /\ BookCommit(s) \/ (CancelCommit(s) /\ ~Refuse(s))
     /\ pc'[s] = "planRead" /\ txn'[s].ride = txn[s].ride
     /\ txn'[s].stops = txn[s].stops /\ txn'[s].seenStatus = txn[s].seenStatus
  \/ /\ PlanWrite(s)
     /\ pc'[s] = "planRead" /\ txn'[s].ride = txn[s].ride
     /\ txn'[s].stops = {} /\ txn'[s].seenStatus = txn[s].seenStatus
  \/ /\ CompleteCommit(s) /\ ~Refuse(s)
     /\ pc[s] = "completeCommit" /\ pc'[s] = "statsCommit" /\ UNCHANGED txn

LEMMA ReadKinds ==
  ASSUME NEW s \in Sessions, TypeInv, ~Finish(s),
         \/ BookSlotLock(s) \/ BookSlots(s) \/ BookRow(s) \/ BookCheck(s)
         \/ PlanRead(s) \/ StatusCheck(s) \/ CompleteBookings(s)
  PROVE  Reads(s)
<1>1. UNCHANGED tables
  BY DEF BookSlotLock, BookSlots, BookRow, BookCheck, PlanRead, StatusCheck,
         CompleteBookings, Refuse
<1>2. CASE BookSlotLock(s) \/ BookRow(s) \/ BookCheck(s) \/ StatusCheck(s)
  <2>1. UNCHANGED txn
    BY <1>2 DEF BookSlotLock, BookRow, BookCheck, StatusCheck, Refuse
  <2>2. Keeps(s) /\ txn'[s].stops = txn[s].stops
    BY <2>1 DEF Keeps
  <2> QED
    BY <1>1, <1>2, <2>2
    DEF Reads, BookSlotLock, BookRow, BookCheck, StatusCheck, Refuse, Goto, TypeInv,
        SessionsOK
<1>3. ASSUME NEW q, txn' = [txn EXCEPT ![s].stops = q]
      PROVE  Keeps(s) /\ txn'[s].stops = q
  BY <1>3 DEF Keeps, TypeInv, SessionsOK, Txns
<1>4. CASE BookSlots(s)
  <2> DEFINE aboard == IF txn[s].seenStatus = "open"
                       THEN ActiveBookings(txn[s].ride) ELSE {}
  <2>1. /\ pc[s] = "bookSlots" /\ ~SlotTaken(txn[s].passenger, txn[s].ride)
        /\ txn' = [txn EXCEPT ![s].stops = aboard]
        /\ pc' = [pc EXCEPT ![s] = "bookRow"]
    BY <1>4 DEF BookSlots, Goto, Refuse
  <2>2. aboard \subseteq ActiveBookings(txn[s].ride)
    OBVIOUS
  <2> HIDE DEF aboard
  <2>3. Keeps(s) /\ txn'[s].stops = aboard /\ pc'[s] = "bookRow"
    BY <1>3, <2>1 DEF TypeInv, SessionsOK
  <2> QED
    BY <1>1, <2>1, <2>2, <2>3 DEF Reads
<1>5. CASE PlanRead(s)
  <2> DEFINE q == StopsToPlan(txn[s])
  <2>1. /\ pc[s] = "planRead" /\ txn[s].seenStatus = "open"
        /\ txn' = [txn EXCEPT ![s].stops = q]
        /\ pc' = [pc EXCEPT ![s] = "planWrite"]
    BY <1>5 DEF PlanRead, Goto, Refuse
  <2>2. Keeps(s) /\ txn'[s].stops = q /\ pc'[s] = "planWrite"
    BY <1>3, <2>1 DEF TypeInv, SessionsOK
  <2> QED
    BY <1>1, <2>1, <2>2 DEF Reads
<1>6. CASE CompleteBookings(s)
  <2> DEFINE q == ActiveBookings(txn[s].ride)
  <2>1. /\ pc[s] = "statusCommit" /\ txn[s].target = "completed"
        /\ txn' = [txn EXCEPT ![s].stops = q]
        /\ pc' = [pc EXCEPT ![s] = "completeCommit"]
    BY <1>6 DEF CompleteBookings, Goto
  <2> HIDE DEF q
  <2>2. Keeps(s) /\ pc'[s] = "completeCommit"
    BY <1>3, <2>1 DEF TypeInv, SessionsOK
  <2> QED
    BY <1>1, <2>1, <2>2 DEF Reads
<1> QED
  BY <1>2, <1>4, <1>5, <1>6

LEMMA CommitNext ==
  ASSUME NEW s \in Sessions, TypeInv, ~Finish(s),
         BookCommit(s) \/ PlanWrite(s) \/ CancelCommit(s) \/ CompleteCommit(s)
  PROVE  Commits(s)
<1>1. ASSUME GotoPlan(s), BookCommit(s) \/ (CancelCommit(s) /\ ~Refuse(s))
      PROVE  Commits(s)
  BY <1>1, PlanNext, Zenon DEF Commits
<1>2. CASE BookCommit(s)
  <2>1. GotoPlan(s)
    BY <1>2 DEF BookCommit
  <2> QED
    BY <1>1, <1>2, <2>1, Zenon
<1>5. CASE CancelCommit(s)
  <2>1. GotoPlan(s) /\ ~Refuse(s)
    BY <1>5 DEF CancelCommit, Refuse
  <2> QED
    BY <1>1, <1>5, <2>1, Zenon
<1>3. CASE PlanWrite(s)
  <2>1. /\ txn' = [txn EXCEPT ![s] = [@ EXCEPT !.again = FALSE, !.stops = {}]]
        /\ pc' = [pc EXCEPT ![s] = "planRead"]
    BY <1>3 DEF PlanWrite, Goto
  <2>2. \A x \in Txns : /\ [x EXCEPT !.again = FALSE, !.stops = {}].ride = x.ride
                        /\ [x EXCEPT !.again = FALSE, !.stops = {}].stops = {}
                        /\ [x EXCEPT !.again = FALSE, !.stops = {}].seenStatus = x.seenStatus
    BY DEF Txns
  <2>3. /\ pc'[s] = "planRead"
        /\ txn'[s].ride = txn[s].ride /\ txn'[s].stops = {}
        /\ txn'[s].seenStatus = txn[s].seenStatus
    BY <2>1, <2>2 DEF TypeInv, SessionsOK
  <2> QED
    BY <1>3, <2>3 DEF Commits
<1>4. CASE CompleteCommit(s)
  BY <1>4 DEF CompleteCommit, Refuse, Goto, TypeInv, SessionsOK, Commits
<1> QED
  BY <1>2, <1>3, <1>4, <1>5

\* A request under way reads, commits and goes on, or ends.
LEMMA AdvanceKinds ==
  ASSUME NEW s \in Sessions, TypeInv, RowInv, Advance(s) \/ Abort(s)
  PROVE  /\ pc[s] # "idle"
         /\ pc'[s] = "idle" \/ Reads(s) \/ Commits(s)
         /\ \A u \in Sessions \ {s} : pc'[u] = pc[u] /\ txn'[u] = txn[u]
<1>1. ASSUME Finish(s) PROVE pc'[s] = "idle"
  BY <1>1, OwnFinish
<1>2. CASE Abort(s)
  BY <1>1, <1>2, PlainRefuse DEF Abort, Refuse, Frame
<1>3. CASE Advance(s)
  <2>1. \A u \in Sessions \ {s} : pc'[u] = pc[u] /\ txn'[u] = txn[u]
    BY <1>3, AdvanceRow, BookCommitRow DEF Frame
  <2>2. pc[s] # "idle"
    BY <1>3
    DEF Advance, BookSlotLock, BookSlots, BookRow, BookCheck, BookCommit, PlanRead,
        PlanWrite, CancelCommit, StatusCheck, StatusCommit, StatsCommit,
        CompleteBookings, CompleteCommit, DeleteCommit, ExecCommit, TripCommit,
        PatchCommit
  <2>3. CASE ~Finish(s)
    <3>1. \/ BookSlotLock(s) \/ BookSlots(s) \/ BookRow(s) \/ BookCheck(s)
          \/ PlanRead(s) \/ StatusCheck(s) \/ CompleteBookings(s)
          \/ BookCommit(s) \/ PlanWrite(s) \/ CancelCommit(s) \/ CompleteCommit(s)
      BY <1>3, <2>3, Zenon
      DEF Advance, StatusCommit, StatsCommit, DeleteCommit, ExecCommit, TripCommit,
          PatchCommit, Refuse
    <3> QED
      BY <2>1, <2>2, <2>3, <3>1, ReadKinds, CommitNext
  <2> QED
    BY <1>1, <2>1, <2>2, <2>3
<1> QED
  BY <1>2, <1>3

(***************************************************************************)
(* What a request knows whatever the others do, and what its commits do to *)
(* the tables.                                                             *)
(***************************************************************************)
\* The steps of a booking from its passenger's lock to its commit.
Claiming == {"bookSlotLock", "bookSlots", "bookRow", "bookCheck", "bookCommit"}

Known(s) ==
  LET t == txn[s]
  IN /\ pc[s] \in Claiming => t.passenger \in Passengers /\ t.party \in 1 .. MaxParty
     /\ pc[s] \in {"bookCheck", "bookCommit"} => Exists(t.ride)
     /\ pc[s] \in {"bookCommit", "planWrite"} => t.seenStatus = "open"
     /\ pc[s] = "cancelCommit" => t.party = booking[t.booking].seats /\ t.stops = {}
     /\ pc[s] \in {"statusCheck", "statusCommit", "completeCommit"} =>
          t.target # "open" /\ "status" \in Ops
     /\ pc[s] \in {"completeCommit", "statsCommit"} => t.target = "completed"
     /\ pc[s] = "tripCommit" =>
          /\ TripAllowed(t.op, t.ride) /\ t.op \in Ops
          /\ t.target = IF t.op = "start_trip" THEN "in_progress" ELSE "completed"
     /\ pc[s] = "patchCommit" => "patch" \in Ops
     /\ pc[s] = "deleteCommit" => "delete" \in Ops

\* A booking goes with its ride, and only with it.
GoneTogether ==
  \A b \in BookingIds : booking[b].status # "unused" =>
    (booking[b].status = "deleted" <=> rideStatus[booking[b].ride] = "deleted")

KnownInv == GoneTogether /\ \A s \in Sessions : Known(s)

\* Booking b changes its status and nothing else.
Restated(b, status) ==
  /\ booking'[b].status = status
  /\ booking'[b].ride = booking[b].ride
  /\ booking'[b].passenger = booking[b].passenger
  /\ booking'[b].seats = booking[b].seats
  /\ booking'[b].pickedUp = booking[b].pickedUp
  /\ booking'[b].droppedOff = booking[b].droppedOff

LEMMA RestatedRow ==
  ASSUME NEW x \in Bookings, NEW st
  PROVE  /\ [x EXCEPT !.status = st].status = st
         /\ [x EXCEPT !.status = st].ride = x.ride
         /\ [x EXCEPT !.status = st].passenger = x.passenger
         /\ [x EXCEPT !.status = st].seats = x.seats
         /\ [x EXCEPT !.status = st].pickedUp = x.pickedUp
         /\ [x EXCEPT !.status = st].droppedOff = x.droppedOff
  BY DEF Bookings

LEMMA RestatedSet ==
  ASSUME NEW S, NEW st, TypeInv,
         booking' = [b \in BookingIds |->
                       IF b \in S THEN [booking[b] EXCEPT !.status = st]
                                  ELSE booking[b]],
         NEW b \in BookingIds
  PROVE  IF b \in S THEN Restated(b, st) ELSE booking'[b] = booking[b]
<1>1. booking[b] \in Bookings
  BY DEF TypeInv, TablesOK
<1> QED
  BY <1>1, RestatedRow DEF Restated

\* The row a booking inserts, field by field.
LEMMA NewRow ==
  ASSUME NEW r \in Rides, NEW p \in Passengers, NEW n \in 0 .. MaxParty
  PROVE  [NoBooking EXCEPT !.status = "booked", !.ride = r, !.passenger = p,
                           !.seats = n]
           = [status |-> "booked", ride |-> r, passenger |-> p, seats |-> n,
              pickedUp |-> FALSE, droppedOff |-> FALSE]
<1>1. PICK x : x = [NoBooking EXCEPT !.status = "booked", !.ride = r,
                                     !.passenger = p, !.seats = n]
  OBVIOUS
<1>2. PICK y : y = [status |-> "booked", ride |-> r, passenger |-> p, seats |-> n,
                    pickedUp |-> FALSE, droppedOff |-> FALSE]
  OBVIOUS
<1>3. x \in Bookings /\ y \in Bookings
  BY <1>1, <1>2, BoundsAssumption DEF Bookings, NoBooking
<1>4. /\ x.status = y.status /\ x.ride = y.ride /\ x.passenger = y.passenger
      /\ x.seats = y.seats /\ x.pickedUp = y.pickedUp /\ x.droppedOff = y.droppedOff
  BY <1>1, <1>2 DEF NoBooking
<1>5. x = y
  BY <1>3, <1>4 DEF Bookings
<1> QED
  BY <1>1, <1>2, <1>5

LEMMA BookEffect ==
  ASSUME NEW s \in Sessions, TypeInv, RowInv, Known(s), BookCommit(s)
  PROVE  /\ pc[s] = "bookCommit" /\ Exists(txn[s].ride)
         /\ txn[s].ride \in Rides /\ txn[s].passenger \in Passengers
         /\ txn[s].party \in 1 .. MaxParty /\ txn[s].party <= txn[s].seenSeats
         /\ txn[s].seenStatus = "open"
         /\ \E b \in BookingIds :
              /\ booking[b].status = "unused" /\ booking[b].ride = None
              /\ booking' = [booking EXCEPT ![b] =
                   [status |-> "booked", ride |-> txn[s].ride,
                    passenger |-> txn[s].passenger, seats |-> txn[s].party,
                    pickedUp |-> FALSE, droppedOff |-> FALSE]]
         /\ seatsAvailable' = [seatsAvailable EXCEPT ![txn[s].ride] =
                                 txn[s].seenSeats - txn[s].party]
         /\ UNCHANGED <<rideStatus, plan, totalRides>>
<1>1. /\ pc[s] = "bookCommit"
      /\ seatsAvailable' = [seatsAvailable EXCEPT
                              ![txn[s].ride] = txn[s].seenSeats - txn[s].party]
      /\ UNCHANGED <<rideStatus, plan, totalRides>>
  BY DEF BookCommit
<1>2. /\ txn[s].ride \in Rides /\ Exists(txn[s].ride)
      /\ txn[s].passenger \in Passengers /\ txn[s].party \in 1 .. MaxParty
      /\ txn[s].seenStatus = "open" /\ txn[s].seenSeats >= txn[s].party
  BY <1>1 DEF Known, Claiming, TypeInv, RequestOK
<1>3. txn[s].party <= txn[s].seenSeats
  BY <1>2, BoundsAssumption DEF TypeInv, SessionsOK, Txns
<1>4. PICK b \in BookingIds :
        /\ booking[b].status = "unused"
        /\ booking' = [booking EXCEPT ![b] =
             [NoBooking EXCEPT !.status = "booked", !.ride = txn[s].ride,
                               !.passenger = txn[s].passenger,
                               !.seats = txn[s].party]]
  BY DEF BookCommit
<1>5. [NoBooking EXCEPT !.status = "booked", !.ride = txn[s].ride,
                        !.passenger = txn[s].passenger, !.seats = txn[s].party]
        = [status |-> "booked", ride |-> txn[s].ride,
           passenger |-> txn[s].passenger, seats |-> txn[s].party,
           pickedUp |-> FALSE, droppedOff |-> FALSE]
  <2>1. PICK r \in Rides, p \in Passengers, n \in 0 .. MaxParty :
          r = txn[s].ride /\ p = txn[s].passenger /\ n = txn[s].party
    BY <1>2, BoundsAssumption
  <2>2. [NoBooking EXCEPT !.status = "booked", !.ride = r, !.passenger = p,
                          !.seats = n]
          = [status |-> "booked", ride |-> r, passenger |-> p, seats |-> n,
             pickedUp |-> FALSE, droppedOff |-> FALSE]
    BY NewRow
  <2> QED
    BY <2>1, <2>2
<1>6. booking[b].ride = None
  BY <1>4 DEF RowInv
<1>7. booking' = [booking EXCEPT ![b] =
        [status |-> "booked", ride |-> txn[s].ride,
         passenger |-> txn[s].passenger, seats |-> txn[s].party,
         pickedUp |-> FALSE, droppedOff |-> FALSE]]
  BY <1>4, <1>5
<1>8. \E c \in BookingIds :
        /\ booking[c].status = "unused" /\ booking[c].ride = None
        /\ booking' = [booking EXCEPT ![c] =
             [status |-> "booked", ride |-> txn[s].ride,
              passenger |-> txn[s].passenger, seats |-> txn[s].party,
              pickedUp |-> FALSE, droppedOff |-> FALSE]]
  BY <1>4, <1>6, <1>7, Zenon
<1> QED
  BY <1>1, <1>2, <1>3, <1>8, Zenon

LEMMA CancelEffect ==
  ASSUME NEW s \in Sessions, TypeInv, RowInv, KnownInv, CancelCommit(s), ~Refuse(s)
  PROVE  /\ pc[s] = "cancelCommit" /\ Exists(txn[s].ride)
         /\ txn[s].ride \in Rides /\ txn[s].booking \in BookingIds
         /\ booking[txn[s].booking].ride = txn[s].ride
         /\ booking[txn[s].booking].status \notin {"unused", "deleted"}
         /\ booking' = [booking EXCEPT ![txn[s].booking].status = "cancelled"]
         /\ Restated(txn[s].booking, "cancelled")
         /\ \A c \in BookingIds \ {txn[s].booking} : booking'[c] = booking[c]
         /\ seatsAvailable' = [seatsAvailable EXCEPT ![txn[s].ride] =
              txn[s].seenSeats + booking[txn[s].booking].seats]
         /\ UNCHANGED <<rideStatus, plan, totalRides>>
<1>1. /\ pc[s] = "cancelCommit" /\ Exists(txn[s].ride)
      /\ booking' = [booking EXCEPT ![txn[s].booking].status = "cancelled"]
      /\ seatsAvailable' = [seatsAvailable EXCEPT
                              ![txn[s].ride] = txn[s].seenSeats + txn[s].party]
      /\ UNCHANGED <<rideStatus, plan, totalRides>>
  BY DEF CancelCommit, RestoredSeats
<1>2. /\ txn[s].ride \in Rides /\ txn[s].booking \in BookingIds
      /\ booking[txn[s].booking].ride = txn[s].ride
      /\ booking[txn[s].booking].status # "unused"
      /\ txn[s].party = booking[txn[s].booking].seats
  BY <1>1 DEF KnownInv, Known, RowInv, RequestRow, TypeInv, RequestOK
<1>3. booking[txn[s].booking].status # "deleted"
  BY <1>1, <1>2 DEF KnownInv, GoneTogether, Exists
<1>4. PICK b \in BookingIds : b = txn[s].booking
  BY <1>2
<1>5. /\ booking'[b] = [booking[b] EXCEPT !.status = "cancelled"]
      /\ \A c \in BookingIds \ {b} : booking'[c] = booking[c]
      /\ booking[b] \in Bookings
  BY <1>1, <1>4 DEF TypeInv, TablesOK
<1>6. Restated(b, "cancelled")
  BY <1>5, RestatedRow DEF Restated
<1>7. Restated(txn[s].booking, "cancelled")
  BY <1>4, <1>6
<1> QED
  BY <1>1, <1>2, <1>3, <1>4, <1>5, <1>7

LEMMA StatusEffect ==
  ASSUME NEW s \in Sessions, TypeInv, Known(s), StatusCommit(s), ~Refuse(s)
  PROVE  /\ pc[s] = "statusCommit" /\ Exists(txn[s].ride)
         /\ txn[s].ride \in Rides
         /\ txn[s].target \in RideStatus /\ txn[s].target \notin {"open", "completed"}
         /\ rideStatus' = [rideStatus EXCEPT ![txn[s].ride] = txn[s].target]
         /\ UNCHANGED <<seatsAvailable, plan, booking, totalRides>>
  BY DEF StatusCommit, Known, TypeInv, RequestOK

LEMMA CompleteEffect ==
  ASSUME NEW s \in Sessions, TypeInv, RowInv, Known(s), CompleteCommit(s), ~Refuse(s)
  PROVE  /\ pc[s] = "completeCommit" /\ Exists(txn[s].ride)
         /\ txn[s].ride \in Rides /\ txn[s].target = "completed"
         /\ rideStatus' = [rideStatus EXCEPT ![txn[s].ride] = "completed"]
         /\ \A b \in BookingIds :
              \/ booking'[b] = booking[b]
              \/ /\ booking[b].ride = txn[s].ride /\ booking[b].status = "booked"
                 /\ Restated(b, "completed")
         /\ UNCHANGED <<seatsAvailable, plan, totalRides>>
<1>1. PICK q : q = txn[s].stops
  OBVIOUS
<1>2. /\ pc[s] = "completeCommit" /\ Exists(txn[s].ride)
      /\ rideStatus' = [rideStatus EXCEPT ![txn[s].ride] = txn[s].target]
      /\ booking' = [b \in BookingIds |->
                       IF b \in q THEN [booking[b] EXCEPT !.status = "completed"]
                                  ELSE booking[b]]
      /\ UNCHANGED <<seatsAvailable, plan, totalRides>>
  BY <1>1 DEF CompleteCommit
<1>3. txn[s].ride \in Rides /\ txn[s].target = "completed"
  BY <1>2 DEF Known, TypeInv, RequestOK
<1>4. \A b \in q : booking[b].ride = txn[s].ride /\ booking[b].status = "booked"
  BY <1>1, <1>2 DEF RowInv, RequestRow
<1>5. \A b \in BookingIds : IF b \in q THEN Restated(b, "completed")
                                       ELSE booking'[b] = booking[b]
  BY <1>2, RestatedSet
<1> QED
  BY <1>2, <1>3, <1>4, <1>5

LEMMA DeleteEffect ==
  ASSUME NEW s \in Sessions, TypeInv, DeleteCommit(s)
  PROVE  /\ pc[s] = "deleteCommit" /\ txn[s].ride \in Rides
         /\ rideStatus' = [rideStatus EXCEPT ![txn[s].ride] = "deleted"]
         /\ plan' = [plan EXCEPT ![txn[s].ride] = {}]
         /\ \A b \in BookingIds : IF b \in BookingsOf(txn[s].ride)
                                  THEN Restated(b, "deleted")
                                  ELSE booking'[b] = booking[b]
         /\ UNCHANGED <<seatsAvailable, totalRides>>
<1>1. /\ pc[s] = "deleteCommit"
      /\ booking' = [b \in BookingIds |->
                       IF b \in BookingsOf(txn[s].ride)
                       THEN [booking[b] EXCEPT !.status = "deleted"] ELSE booking[b]]
      /\ rideStatus' = [rideStatus EXCEPT ![txn[s].ride] = "deleted"]
      /\ plan' = [plan EXCEPT ![txn[s].ride] = {}]
      /\ UNCHANGED <<seatsAvailable, totalRides>>
  BY DEF DeleteCommit
<1>2. txn[s].ride \in Rides
  BY <1>1 DEF TypeInv, RequestOK
<1>3. PICK D : D = BookingsOf(txn[s].ride)
  OBVIOUS
<1>4. booking' = [b \in BookingIds |->
                    IF b \in D THEN [booking[b] EXCEPT !.status = "deleted"]
                               ELSE booking[b]]
  BY <1>1, <1>3
<1>5. \A b \in BookingIds : IF b \in D THEN Restated(b, "deleted")
                                       ELSE booking'[b] = booking[b]
  BY <1>4, RestatedSet
<1> QED
  BY <1>1, <1>2, <1>3, <1>5

LEMMA TripEffect ==
  ASSUME NEW s \in Sessions, TypeInv, Known(s), TripCommit(s)
  PROVE  /\ pc[s] = "tripCommit" /\ txn[s].ride \in Rides /\ TripAllowed(txn[s].op, txn[s].ride)
         /\ txn[s].op \in Ops
         /\ txn[s].target = IF txn[s].op = "start_trip" THEN "in_progress" ELSE "completed"
         /\ rideStatus' = [rideStatus EXCEPT ![txn[s].ride] = txn[s].target]
         /\ UNCHANGED <<seatsAvailable, plan, booking, totalRides>>
  BY DEF TripCommit, Known, TypeInv, RequestOK

LEMMA PatchEffect ==
  ASSUME NEW s \in Sessions, TypeInv, Known(s), PatchCommit(s)
  PROVE  /\ pc[s] = "patchCommit" /\ txn[s].ride \in Rides /\ "patch" \in Ops
         /\ txn[s].target \in RideStatus
         /\ \/ /\ Exists(txn[s].ride)
               /\ rideStatus' = [rideStatus EXCEPT ![txn[s].ride] = txn[s].target]
            \/ UNCHANGED rideStatus
         /\ UNCHANGED <<seatsAvailable, plan, booking, totalRides>>
  BY DEF PatchCommit, Known, TypeInv, RequestOK

LEMMA ExecEffect ==
  ASSUME NEW s \in Sessions, TypeInv, RowInv, ExecCommit(s)
  PROVE  /\ txn[s].ride \in Rides /\ txn[s].booking \in BookingIds
         /\ booking[txn[s].booking].ride = txn[s].ride
         /\ booking[txn[s].booking].status = "booked"
         /\ rideStatus[txn[s].ride] = "in_progress"
         /\ booking'[txn[s].booking] =
              IF txn[s].op = "pickup"
              THEN [booking[txn[s].booking] EXCEPT !.pickedUp = TRUE]
              ELSE [booking[txn[s].booking] EXCEPT
                      !.pickedUp = TRUE, !.droppedOff = TRUE, !.status = "completed"]
         /\ booking'[txn[s].booking].ride = booking[txn[s].booking].ride
         /\ booking'[txn[s].booking].seats = booking[txn[s].booking].seats
         /\ \/ /\ txn[s].op = "pickup"
               /\ booking'[txn[s].booking].status = "booked"
               /\ booking'[txn[s].booking].droppedOff = booking[txn[s].booking].droppedOff
            \/ /\ txn[s].op # "pickup"
               /\ booking'[txn[s].booking].status = "completed"
         /\ \A c \in BookingIds \ {txn[s].booking} : booking'[c] = booking[c]
         /\ UNCHANGED <<rideStatus, seatsAvailable, plan, totalRides>>
<1>1. /\ pc[s] = "execCommit"
      /\ UNCHANGED <<rideStatus, seatsAvailable, plan, totalRides>>
      /\ booking' = [booking EXCEPT ![txn[s].booking] =
           IF txn[s].op = "pickup"
           THEN [@ EXCEPT !.pickedUp = TRUE]
           ELSE [@ EXCEPT !.pickedUp = TRUE, !.droppedOff = TRUE,
                          !.status = "completed"]]
  BY DEF ExecCommit
<1>2. /\ txn[s].ride \in Rides /\ txn[s].booking \in BookingIds
      /\ booking[txn[s].booking].ride = txn[s].ride
      /\ booking[txn[s].booking].status = "booked"
      /\ rideStatus[txn[s].ride] = "in_progress"
  BY <1>1 DEF RowInv, RequestRow, TypeInv, RequestOK, ExecAllowed
<1>3. PICK b \in BookingIds : b = txn[s].booking
  BY <1>2
<1>4. /\ booking[b] \in Bookings
      /\ booking'[b] = IF txn[s].op = "pickup"
                       THEN [booking[b] EXCEPT !.pickedUp = TRUE]
                       ELSE [booking[b] EXCEPT !.pickedUp = TRUE, !.droppedOff = TRUE,
                                               !.status = "completed"]
      /\ \A c \in BookingIds \ {b} : booking'[c] = booking[c]
  BY <1>1, <1>3 DEF TypeInv, TablesOK
<1>5. \A x \in Bookings :
        /\ [x EXCEPT !.pickedUp = TRUE].ride = x.ride
        /\ [x EXCEPT !.pickedUp = TRUE].seats = x.seats
        /\ [x EXCEPT !.pickedUp = TRUE].status = x.status
        /\ [x EXCEPT !.pickedUp = TRUE].droppedOff = x.droppedOff
        /\ [x EXCEPT !.pickedUp = TRUE, !.droppedOff = TRUE,
                     !.status = "completed"].ride = x.ride
        /\ [x EXCEPT !.pickedUp = TRUE, !.droppedOff = TRUE,
                     !.status = "completed"].seats = x.seats
        /\ [x EXCEPT !.pickedUp = TRUE, !.droppedOff = TRUE,
                     !.status = "completed"].status = "completed"
  BY DEF Bookings
<1>6. /\ booking'[b].ride = booking[b].ride /\ booking'[b].seats = booking[b].seats
      /\ \/ /\ txn[s].op = "pickup"
            /\ booking'[b].status = "booked"
            /\ booking'[b].droppedOff = booking[b].droppedOff
         \/ txn[s].op # "pickup" /\ booking'[b].status = "completed"
  <2>1. PICK x \in Bookings : x = booking[b]
    BY <1>4
  <2>2. x.status = "booked"
    BY <1>2, <1>3, <2>1
  <2>3. CASE txn[s].op = "pickup"
    BY <1>4, <1>5, <2>1, <2>2, <2>3
  <2>4. CASE txn[s].op # "pickup"
    BY <1>4, <1>5, <2>1, <2>4
  <2> QED
    BY <2>3, <2>4
<1>7. booking'[txn[s].booking] =
        IF txn[s].op = "pickup"
        THEN [booking[txn[s].booking] EXCEPT !.pickedUp = TRUE]
        ELSE [booking[txn[s].booking] EXCEPT
                !.pickedUp = TRUE, !.droppedOff = TRUE, !.status = "completed"]
  BY <1>3, <1>4, Zenon
<1>8. \A c \in BookingIds \ {txn[s].booking} : booking'[c] = booking[c]
  BY <1>3, <1>4, Zenon
<1>9. /\ booking'[txn[s].booking].ride = booking[txn[s].booking].ride
      /\ booking'[txn[s].booking].seats = booking[txn[s].booking].seats
      /\ \/ /\ txn[s].op = "pickup"
            /\ booking'[txn[s].booking].status = "booked"
            /\ booking'[txn[s].booking].droppedOff = booking[txn[s].booking].droppedOff
         \/ txn[s].op # "pickup" /\ booking'[txn[s].booking].status = "completed"
  BY <1>3, <1>6, Zenon
<1> QED
  BY <1>1, <1>2, <1>7, <1>8, <1>9, Zenon

(***************************************************************************)
(* Who writes what.                                                        *)
(***************************************************************************)
\* A step either leaves the tables as they are or is one of these commits.
LEMMA CommitKinds ==
  ASSUME NEW s \in Sessions, Begin(s) \/ Advance(s) \/ Abort(s)
  PROVE  \/ UNCHANGED tables
         \/ BookCommit(s) \/ PlanWrite(s)
         \/ (CancelCommit(s) /\ ~Refuse(s)) \/ (StatusCommit(s) /\ ~Refuse(s))
         \/ (CompleteCommit(s) /\ ~Refuse(s)) \/ StatsCommit(s) \/ DeleteCommit(s) \/ ExecCommit(s)
         \/ TripCommit(s) \/ PatchCommit(s)
<1>1. CASE Begin(s)
  BY <1>1
  DEF Begin, BookLoad, RouteLoad, DeleteLoad, CancelLoad, StatusLoad, PatchLoad,
      ExecLock, TripLock
<1>2. CASE Abort(s)
  BY <1>2 DEF Abort, Refuse
<1>3. CASE Advance(s)
  BY <1>3
  DEF Advance, BookSlotLock, BookSlots, BookRow, BookCheck, PlanRead, StatusCheck,
      CompleteBookings, Refuse
<1> QED
  BY <1>1, <1>2, <1>3

\* How a step of s changes the bookings: one row, or those of its ride.
RowWrites(s) ==
  \A b \in BookingIds :
    \/ booking'[b] = booking[b]
    \/ /\ pc[s] = "bookCommit" /\ booking[b].status = "unused"
       /\ booking'[b].status = "booked" /\ booking'[b].ride = txn[s].ride
       /\ Exists(txn[s].ride)
    \/ /\ pc[s] = "cancelCommit" /\ b = txn[s].booking
       /\ booking[b].ride = txn[s].ride /\ Exists(txn[s].ride)
       /\ booking[b].status \notin {"unused", "deleted"}
       /\ Restated(b, "cancelled")
    \/ /\ pc[s] = "completeCommit"
       /\ booking[b].ride = txn[s].ride /\ rideStatus'[txn[s].ride] = "completed"
       /\ booking[b].status = "booked"
       /\ Restated(b, "completed")
    \/ /\ pc[s] = "deleteCommit"
       /\ booking[b].ride = txn[s].ride /\ rideStatus'[txn[s].ride] = "deleted"
       /\ booking[b].status \notin {"unused", "deleted"}
       /\ Restated(b, "deleted")
    \/ /\ pc[s] = "execCommit" /\ b = txn[s].booking
       /\ booking[b].ride = txn[s].ride /\ rideStatus[txn[s].ride] = "in_progress"
       /\ booking[b].status = "booked"
       /\ booking'[b].status \in {"booked", "completed"}
       /\ booking'[b].ride = booking[b].ride /\ booking'[b].seats = booking[b].seats

StatusWrites(s) ==
  \A r \in Rides :
    \/ rideStatus'[r] = rideStatus[r]
    \/ /\ r = txn[s].ride /\ pc[s] = "deleteCommit" /\ rideStatus'[r] = "deleted"
       /\ \A b \in BookingIds : booking[b].ride = r => booking'[b].status = "deleted"
    \/ /\ r = txn[s].ride
       /\ pc[s] \in {"statusCommit", "completeCommit", "tripCommit", "patchCommit"}
       /\ Exists(r)
       /\ txn[s].target \in RideStatus /\ rideStatus'[r] = txn[s].target

SeatWrites(s) ==
  \A r \in Rides :
    \/ seatsAvailable'[r] = seatsAvailable[r]
    \/ r = txn[s].ride /\ pc[s] \in {"bookCommit", "cancelCommit"}

Writes(s) == RowWrites(s) /\ StatusWrites(s) /\ SeatWrites(s)

LEMMA BookWrites ==
  ASSUME NEW s \in Sessions, TypeInv, RowInv, KnownInv, BookCommit(s)
  PROVE  Writes(s)
<1>1. PICK b \in BookingIds :
        /\ booking[b].status = "unused"
        /\ booking' = [booking EXCEPT ![b] =
             [status |-> "booked", ride |-> txn[s].ride,
              passenger |-> txn[s].passenger, seats |-> txn[s].party,
              pickedUp |-> FALSE, droppedOff |-> FALSE]]
  BY BookEffect DEF KnownInv
<1>2. /\ booking'[b].status = "booked" /\ booking'[b].ride = txn[s].ride
      /\ \A c \in BookingIds \ {b} : booking'[c] = booking[c]
  BY <1>1 DEF TypeInv, TablesOK
<1>3. /\ pc[s] = "bookCommit" /\ Exists(txn[s].ride) /\ txn[s].ride \in Rides
      /\ seatsAvailable' = [seatsAvailable EXCEPT ![txn[s].ride] =
                              txn[s].seenSeats - txn[s].party]
      /\ UNCHANGED rideStatus
  BY BookEffect DEF KnownInv
<1>4. \A r \in Rides : r # txn[s].ride => seatsAvailable'[r] = seatsAvailable[r]
  BY <1>3 DEF TypeInv, TablesOK
<1> QED
  BY <1>1, <1>2, <1>3, <1>4 DEF Writes, RowWrites, StatusWrites, SeatWrites

LEMMA CancelWrites ==
  ASSUME NEW s \in Sessions, TypeInv, RowInv, KnownInv, CancelCommit(s), ~Refuse(s)
  PROVE  Writes(s)
<1>1. \A r \in Rides : r # txn[s].ride => seatsAvailable'[r] = seatsAvailable[r]
  BY CancelEffect DEF TypeInv, TablesOK
<1> QED
  BY <1>1, CancelEffect DEF Writes, RowWrites, StatusWrites, SeatWrites

LEMMA StatusCommitWrites ==
  ASSUME NEW s \in Sessions, TypeInv, RowInv, KnownInv, StatusCommit(s), ~Refuse(s)
  PROVE  Writes(s)
<1>1. PICK r \in Rides, new \in RideStatus : r = txn[s].ride /\ new = txn[s].target
  BY StatusEffect DEF KnownInv
<1>2. /\ pc[s] = "statusCommit" /\ Exists(r)
      /\ rideStatus' = [rideStatus EXCEPT ![r] = new]
      /\ UNCHANGED <<seatsAvailable, booking>>
  BY <1>1, StatusEffect DEF KnownInv
<1>3. /\ rideStatus'[r] = new
      /\ \A q \in Rides : q # r => rideStatus'[q] = rideStatus[q]
  BY <1>2 DEF TypeInv, TablesOK
<1> QED
  BY <1>1, <1>2, <1>3 DEF Writes, RowWrites, StatusWrites, SeatWrites

LEMMA CompleteCommitWrites ==
  ASSUME NEW s \in Sessions, TypeInv, RowInv, KnownInv, CompleteCommit(s), ~Refuse(s)
  PROVE  Writes(s)
<1>1. PICK r \in Rides : r = txn[s].ride
  BY CompleteEffect DEF KnownInv
<1>2. /\ pc[s] = "completeCommit" /\ Exists(r) /\ txn[s].target = "completed"
      /\ rideStatus' = [rideStatus EXCEPT ![r] = "completed"]
      /\ UNCHANGED seatsAvailable
      /\ \A b \in BookingIds :
           \/ booking'[b] = booking[b]
           \/ /\ booking[b].ride = r /\ booking[b].status = "booked"
              /\ Restated(b, "completed")
  BY <1>1, CompleteEffect DEF KnownInv
<1>3. /\ rideStatus'[r] = "completed"
      /\ \A q \in Rides : q # r => rideStatus'[q] = rideStatus[q]
  BY <1>2 DEF TypeInv, TablesOK
<1>4. RowWrites(s)
  BY <1>1, <1>2, <1>3 DEF RowWrites
<1> QED
  BY <1>1, <1>2, <1>3, <1>4 DEF Writes, StatusWrites, SeatWrites, RideStatus

LEMMA DeleteWrites ==
  ASSUME NEW s \in Sessions, TypeInv, RowInv, KnownInv, DeleteCommit(s)
  PROVE  Writes(s)
<1>1. PICK r \in Rides : r = txn[s].ride
  BY DeleteEffect
<1>2. /\ pc[s] = "deleteCommit"
      /\ rideStatus' = [rideStatus EXCEPT ![r] = "deleted"] /\ UNCHANGED seatsAvailable
      /\ \A b \in BookingIds : IF b \in BookingsOf(r) THEN Restated(b, "deleted")
                                                      ELSE booking'[b] = booking[b]
  BY <1>1, DeleteEffect
<1>3. /\ rideStatus'[r] = "deleted"
      /\ \A q \in Rides : q # r => rideStatus'[q] = rideStatus[q]
  BY <1>2 DEF TypeInv, TablesOK
<1>4. \A b \in BookingIds : booking[b].ride = r => booking[b].status # "unused"
  BY RidesAssumption DEF RowInv
<1>5. RowWrites(s)
  BY <1>1, <1>2, <1>3, <1>4 DEF RowWrites, BookingsOf
<1>6. \A b \in BookingIds : booking[b].ride = r => booking'[b].status = "deleted"
  BY <1>2 DEF BookingsOf, Restated
<1> QED
  BY <1>1, <1>2, <1>3, <1>5, <1>6 DEF Writes, StatusWrites, SeatWrites

LEMMA ExecWrites ==
  ASSUME NEW s \in Sessions, TypeInv, RowInv, ExecCommit(s)
  PROVE  Writes(s)
<1>1. PICK b \in BookingIds : b = txn[s].booking
  BY ExecEffect
<1>2. /\ pc[s] = "execCommit"
      /\ booking[b].ride = txn[s].ride /\ rideStatus[txn[s].ride] = "in_progress"
      /\ booking[b].status = "booked"
      /\ booking'[b].status \in {"booked", "completed"}
      /\ booking'[b].ride = booking[b].ride /\ booking'[b].seats = booking[b].seats
      /\ \A c \in BookingIds \ {b} : booking'[c] = booking[c]
      /\ UNCHANGED <<rideStatus, seatsAvailable>>
  BY <1>1, ExecEffect DEF ExecCommit
<1> QED
  BY <1>1, <1>2 DEF Writes, RowWrites, StatusWrites, SeatWrites

LEMMA TripWrites ==
  ASSUME NEW s \in Sessions, TypeInv, RowInv, KnownInv, TripCommit(s) \/ PatchCommit(s)
  PROVE  Writes(s)
<1>1. /\ txn[s].ride \in Rides /\ pc[s] \in {"tripCommit", "patchCommit"}
      /\ txn[s].target \in RideStatus
      /\ \/ /\ Exists(txn[s].ride)
            /\ rideStatus' = [rideStatus EXCEPT ![txn[s].ride] = txn[s].target]
         \/ UNCHANGED rideStatus
      /\ UNCHANGED <<seatsAvailable, booking>>
  BY TripEffect, PatchEffect DEF KnownInv, TripAllowed, Exists, TypeInv, RequestOK
<1>2. \A q \in Rides : \/ rideStatus'[q] = rideStatus[q]
                       \/ /\ q = txn[s].ride /\ Exists(q)
                          /\ rideStatus'[q] = txn[s].target
  BY <1>1 DEF TypeInv, TablesOK
<1> QED
  BY <1>1, <1>2 DEF Writes, RowWrites, StatusWrites, SeatWrites

LEMMA StepWrites ==
  ASSUME NEW s \in Sessions, TypeInv, RowInv, KnownInv,
         Begin(s) \/ Advance(s) \/ Abort(s)
  PROVE  Writes(s)
<1>1. CASE UNCHANGED tables \/ PlanWrite(s) \/ StatsCommit(s)
  <2>1. UNCHANGED <<rideStatus, seatsAvailable, booking>>
    BY <1>1 DEF tables, PlanWrite, StatsCommit
  <2> QED
    BY <2>1 DEF Writes, RowWrites, StatusWrites, SeatWrites
<1> QED
  BY <1>1, CommitKinds, BookWrites, CancelWrites, StatusCommitWrites,
     CompleteCommitWrites, DeleteWrites, ExecWrites, TripWrites

LEMMA StepFrame ==
  ASSUME NEW s \in Sessions, TypeInv, RowInv, Begin(s) \/ Advance(s) \/ Abort(s)
  PROVE  Frame(s)
  BY BeginRow, AdvanceRow, BookCommitRow, PlainRefuse DEF Abort

\* What a step does to the request that takes it.
OwnStep(s) ==
  \/ UNCHANGED tables /\ pc[s] = "idle" /\ Loaded(txn'[s], pc'[s])
  \/ pc[s] # "idle" /\ pc'[s] = "idle"
  \/ pc[s] # "idle" /\ Reads(s)
  \/ pc[s] # "idle" /\ Commits(s)

LEMMA StepKinds ==
  ASSUME NEW s \in Sessions, TypeInv, RowInv, Begin(s) \/ Advance(s) \/ Abort(s)
  PROVE  /\ OwnStep(s)
         /\ \A u \in Sessions \ {s} : pc'[u] = pc[u] /\ txn'[u] = txn[u]
<1>1. CASE Begin(s)
  BY <1>1, BeginKinds DEF OwnStep
<1>2. CASE Advance(s) \/ Abort(s)
  BY <1>2, AdvanceKinds DEF OwnStep
<1> QED
  BY <1>1, <1>2

\* A row in use keeps its party and its ride.
LEMMA RowsKeep ==
  ASSUME NEW s \in Sessions, RowWrites(s), NEW b \in BookingIds,
         booking[b].status # "unused"
  PROVE  /\ booking'[b].seats = booking[b].seats /\ booking'[b].ride = booking[b].ride
         /\ booking'[b].status # "unused"
  BY DEF RowWrites, Restated

LEMMA KnownOthers ==
  ASSUME NEW s \in Sessions, TypeInv, RowInv, KnownInv, Frame(s), Writes(s),
         NEW u \in Sessions \ {s}, pc'[u] = pc[u], txn'[u] = txn[u]
  PROVE  Known(u)'
<1>1. Known(u) /\ RequestRow(u)
  BY DEF KnownInv, RowInv
<1>2. pc[u] \in {"bookCheck", "bookCommit", "tripCommit"}
        => rideStatus'[txn[u].ride] = rideStatus[txn[u].ride]
  BY <1>1 DEF RequestRow, Frame, TypeInv, RequestOK
<1>3. pc[u] = "cancelCommit"
        => booking'[txn[u].booking].seats = booking[txn[u].booking].seats
  BY RowsKeep DEF TypeInv, RequestOK, Writes
<1> QED
  BY <1>1, <1>2, <1>3 DEF Known, Claiming, Exists, TripAllowed

LEMMA KnownLoaded ==
  ASSUME NEW s \in Sessions, UNCHANGED tables, Loaded(txn'[s], pc'[s])
  PROVE  Known(s)'
<1>1. PICK t, next : t = txn'[s] /\ next = pc'[s]
  OBVIOUS
<1>2. Loaded(t, next)
  BY <1>1
<1>3. rideStatus' = rideStatus /\ booking' = booking
  BY DEF tables
<1>4. /\ next \in Claiming => t.passenger \in Passengers /\ t.party \in 1 .. MaxParty
      /\ next \notin {"bookCheck", "bookCommit", "planWrite", "statusCommit",
                      "completeCommit", "statsCommit"}
      /\ next = "cancelCommit" => t.party = booking[t.booking].seats /\ t.stops = {}
      /\ next = "statusCheck" => t.target # "open" /\ "status" \in Ops
      /\ next = "tripCommit" =>
           /\ TripAllowed(t.op, t.ride) /\ t.op \in Ops
           /\ t.target = IF t.op = "start_trip" THEN "in_progress" ELSE "completed"
      /\ next = "patchCommit" => "patch" \in Ops
      /\ next = "deleteCommit" => "delete" \in Ops
  BY <1>2 DEF Loaded, Claiming, ValidTransitions
<1> QED
  BY <1>1, <1>3, <1>4 DEF Known, Claiming, TripAllowed

LEMMA KnownOwn ==
  ASSUME NEW s \in Sessions, TypeInv, RowInv, KnownInv, OwnStep(s)
  PROVE  Known(s)'
<1>1. Known(s) /\ RequestRow(s)
  BY DEF KnownInv, RowInv
<1>2. CASE UNCHANGED tables /\ Loaded(txn'[s], pc'[s])
  BY <1>2, KnownLoaded
<1>3. CASE pc'[s] = "idle"
  BY <1>3 DEF Known, Claiming
<1>4. CASE Commits(s)
  BY <1>1, <1>4 DEF Commits, Known, Claiming
<1>5. CASE Reads(s)
  <2>1. rideStatus' = rideStatus /\ booking' = booking /\ Keeps(s)
    BY <1>5 DEF Reads, tables
  <2>2. \/ /\ pc[s] \in Claiming /\ pc'[s] \in Claiming
           /\ pc'[s] = "bookCheck" => Exists(txn[s].ride)
           /\ pc'[s] = "bookCommit" => pc[s] = "bookCheck" /\ txn[s].seenStatus = "open"
        \/ pc[s] = "planRead" /\ pc'[s] = "planWrite" /\ txn[s].seenStatus = "open"
        \/ pc[s] = "statusCheck" /\ pc'[s] = "statusCommit"
        \/ /\ pc[s] = "statusCommit" /\ pc'[s] = "completeCommit"
           /\ txn[s].target = "completed"
    BY <1>5 DEF Reads, Claiming, BookAllowed
  <2> QED
    BY <1>1, <2>1, <2>2 DEF Known, Keeps, Claiming, Exists
<1> QED
  BY <1>2, <1>3, <1>4, <1>5 DEF OwnStep

LEMMA GoneStep ==
  ASSUME NEW s \in Sessions, TypeInv, RowInv, GoneTogether, Writes(s)
  PROVE  GoneTogether'
<1> SUFFICES ASSUME NEW b \in BookingIds, booking'[b].status # "unused"
             PROVE  booking'[b].status = "deleted"
                      <=> rideStatus'[booking'[b].ride] = "deleted"
  BY DEF GoneTogether
<1>1. CASE booking[b].status = "unused"
  <2>1. booking'[b].status = "booked" /\ booking'[b].ride = txn[s].ride
    BY <1>1 DEF Writes, RowWrites
  <2>2. Exists(txn[s].ride) /\ pc[s] = "bookCommit"
    BY <1>1 DEF Writes, RowWrites
  <2>3. rideStatus'[txn[s].ride] = rideStatus[txn[s].ride]
    BY <2>2 DEF Writes, StatusWrites, TypeInv, RequestOK
  <2> QED
    BY <2>1, <2>2, <2>3 DEF Exists
<1>2. CASE booking[b].status # "unused"
  <2>1. PICK r \in Rides : r = booking[b].ride /\ r = booking'[b].ride
    BY <1>2, RowsKeep DEF TypeInv, BookingsOK, Writes
  <2>2. booking[b].status = "deleted" <=> rideStatus[r] = "deleted"
    BY <1>2, <2>1 DEF GoneTogether
  <2>3. CASE booking[b].status = "deleted"
    <3>1. booking'[b].status = "deleted"
      BY <2>3 DEF Writes, RowWrites
    <3>2. rideStatus'[r] = "deleted"
      BY <2>2, <2>3 DEF Writes, StatusWrites, Exists
    <3> QED
      BY <2>1, <3>1, <3>2
  <2>4. CASE booking[b].status # "deleted" /\ rideStatus'[r] = "deleted"
    <3>1. booking'[b].status = "deleted"
      BY <2>1, <2>2, <2>4 DEF Writes, StatusWrites, RideStatus
    <3> QED
      BY <2>1, <2>4, <3>1
  <2>5. CASE booking[b].status # "deleted" /\ rideStatus'[r] # "deleted"
    BY <2>1, <2>5 DEF Writes, RowWrites, Restated
  <2> QED
    BY <2>3, <2>4, <2>5
<1> QED
  BY <1>1, <1>2

LEMMA KnownStep ==
  ASSUME TypeInv, RowInv, KnownInv, [Next]_vars
  PROVE  KnownInv'
<1>1. CASE UNCHANGED vars
  BY <1>1
  DEF vars, tables, KnownInv, GoneTogether, Known, Claiming, Exists, TripAllowed
<1>2. ASSUME NEW s \in Sessions, Begin(s) \/ Advance(s) \/ Abort(s)
      PROVE  KnownInv'
  <2>1. /\ OwnStep(s) /\ Frame(s) /\ Writes(s)
        /\ \A u \in Sessions \ {s} : pc'[u] = pc[u] /\ txn'[u] = txn[u]
    BY <1>2, StepKinds, StepFrame, StepWrites
  <2>2. Known(s)'
    BY <2>1, KnownOwn
  <2>3. \A u \in Sessions \ {s} : Known(u)'
    BY <2>1, KnownOthers
  <2>4. GoneTogether'
    BY <2>1, GoneStep DEF KnownInv
  <2> QED
    BY <2>2, <2>3, <2>4 DEF KnownInv
<1> QED
  BY <1>1, <1>2 DEF Next

\* What every request keeps true, whatever the others do.
Base == TypeInv /\ RowInv /\ KnownInv

LEMMA BaseInit == Init => Base
  BY InitType, RowInit DEF Init, NoBooking, Base, KnownInv, GoneTogether, Known, Claiming

LEMMA BaseStep == Base /\ [Next]_vars => Base'
  BY TypeStep, RowStep, KnownStep DEF Base

LEMMA BaseHolds == Spec => []Base
  BY BaseInit, BaseStep, PTL DEF Spec

(***************************************************************************)
(* Passenger locks.  A request past its overlap query holds its            *)
(* passenger's advisory lock, so the slot it found free stays free: only a *)
(* booking of that passenger, or a ride that came back to life, could take *)
(* it.  The trip handlers, which hold the ride's row from their check to   *)
(* their commit, bring none back.                                          *)
(***************************************************************************)
Live == {"open", "in_progress"}

\* No ride comes back to life.
NoRevival == \A r \in Rides : rideStatus'[r] \in Live => rideStatus[r] \in Live

\* No ride's status is written by a handler that read it without a lock.
LockedStatus == Ops \cap {"status", "patch"} = {}

LEMMA NoneRevived ==
  ASSUME LockedStatus, Base, [Next]_vars
  PROVE  NoRevival
<1> SUFFICES ASSUME NEW r \in Rides, rideStatus'[r] \in Live, rideStatus'[r] # rideStatus[r]
             PROVE  rideStatus[r] \in Live
  BY DEF NoRevival
<1>1. PICK s \in Sessions : Begin(s) \/ Advance(s) \/ Abort(s)
  BY DEF Next, vars, tables
<1>2. Writes(s) /\ Known(s)
  BY <1>1, StepWrites DEF Base, KnownInv
<1>3. pc[s] \notin {"statusCommit", "completeCommit", "patchCommit"}
  BY <1>2 DEF Known, LockedStatus
<1>4. r = txn[s].ride /\ pc[s] = "tripCommit"
  BY <1>2, <1>3 DEF Writes, StatusWrites, Live
<1> QED
  BY <1>2, <1>4 DEF Known, TripAllowed, Live

RequestSlot(s) ==
  /\ pc[s] \in {"bookSlots", "bookRow", "bookCheck", "bookCommit"}
       => slotLock[txn[s].passenger] = s
  /\ pc[s] \in {"bookRow", "bookCheck", "bookCommit"}
       => ~SlotTaken(txn[s].passenger, txn[s].ride)

SlotInv == \A s \in Sessions : RequestSlot(s)

\* Two windows overlap in either order.  The overlap query and the request
\* compute a window alike, up to the twelve hours a request caps it at.
SymmetricClashes == \A q, r \in Rides : <<q, r>> \in Clashes => <<r, q>> \in Clashes

\* The step keeps clashing bookings out.
ClashKept == SymmetricClashes /\ NoClashingBookings => NoClashingBookings'

\* The step leaves the passenger locks of others alone.
SlotOwn(s) ==
  /\ \A u \in Sessions \ {s} : pc'[u] = pc[u] /\ txn'[u] = txn[u]
  /\ \A p \in Passengers : slotLock[p] \in Sessions \ {s} => slotLock'[p] = slotLock[p]

\* The step makes no booking active and no ride live.
Calm ==
  /\ \A b \in BookingIds : booking'[b].status = "booked" =>
       /\ booking[b].status = "booked"
       /\ booking'[b].ride = booking[b].ride
       /\ booking'[b].passenger = booking[b].passenger
  /\ \A r \in Rides : rideStatus'[r] \in Live => rideStatus[r] \in Live

LEMMA CalmSlots ==
  ASSUME NEW p, NEW r, Calm, ~SlotTaken(p, r)
  PROVE  ~SlotTaken(p, r)'
  BY DEF Calm, SlotTaken, HasActiveBooking, ActiveBookings, BookingsOf, Live

LEMMA CalmClash ==
  ASSUME Calm, NoClashingBookings
  PROVE  NoClashingBookings'
  BY DEF Calm, NoClashingBookings, ActiveBookings, BookingsOf, Live

\* The other requests: their locks and their slots.
LEMMA SlotOthers ==
  ASSUME NEW s \in Sessions, TypeInv, KnownInv, SlotInv, SlotOwn(s),
         NEW u \in Sessions \ {s},
         pc[u] \in {"bookRow", "bookCheck", "bookCommit"} =>
           ~SlotTaken(txn[u].passenger, txn[u].ride)'
  PROVE  RequestSlot(u)'
<1>1. pc'[u] = pc[u] /\ txn'[u] = txn[u] /\ RequestSlot(u) /\ Known(u)
  BY DEF SlotOwn, SlotInv, KnownInv
<1>2. pc[u] \in {"bookSlots", "bookRow", "bookCheck", "bookCommit"}
        => slotLock'[txn[u].passenger] = u
  BY <1>1 DEF RequestSlot, SlotOwn, Known, Claiming
<1>3. pc[u] \in {"bookRow", "bookCheck", "bookCommit"} =>
        ~SlotTaken(txn[u].passenger, txn[u].ride)'
  OBVIOUS
<1> QED
  BY <1>1, <1>2, <1>3 DEF RequestSlot

LEMMA SlotsCalm ==
  ASSUME NEW s \in Sessions, TypeInv, KnownInv, SlotInv,
         SlotOwn(s), Calm, RequestSlot(s)'
  PROVE  SlotInv' /\ ClashKept
<1>1. ASSUME NEW u \in Sessions \ {s} PROVE RequestSlot(u)'
  <2>1. pc[u] \in {"bookRow", "bookCheck", "bookCommit"} =>
          ~SlotTaken(txn[u].passenger, txn[u].ride)'
    <3> HAVE pc[u] \in {"bookRow", "bookCheck", "bookCommit"}
    <3>1. ~SlotTaken(txn[u].passenger, txn[u].ride) /\ txn'[u] = txn[u]
      BY DEF SlotInv, RequestSlot, SlotOwn
    <3>2. PICK p, r : p = txn[u].passenger /\ r = txn[u].ride
      OBVIOUS
    <3>3. ~SlotTaken(p, r)'
      BY <3>1, <3>2, CalmSlots
    <3> QED
      BY <3>1, <3>2, <3>3 DEF SlotTaken, HasActiveBooking, ActiveBookings, BookingsOf
  <2> QED
    BY <2>1, SlotOthers
<1> QED
  BY <1>1, CalmClash DEF SlotInv, ClashKept

\* The request ends, or is at a step without a passenger lock.
Done(s) == pc'[s] \notin Claiming

LEMMA SlotFinish ==
  ASSUME NEW s \in Sessions, TypeInv, Finish(s)
  PROVE  SlotOwn(s) /\ Done(s)
  BY DEF Finish, Goto, ReleaseLocks, SlotOwn, Done, Claiming, TypeInv, SessionsOK

LEMMA SlotGotoPlan ==
  ASSUME NEW s \in Sessions, TypeInv, GotoPlan(s),
         ReleaseLocks(s) \/ UNCHANGED slotLock
  PROVE  SlotOwn(s) /\ Done(s)
  BY DEF GotoPlan, Goto, ReleaseLocks, SlotOwn, Done, Claiming, TypeInv, SessionsOK

LEMMA QuietCalm ==
  ASSUME UNCHANGED <<rideStatus, booking>>
  PROVE  Calm
  BY DEF Calm

LEMMA DoneCalm ==
  ASSUME NEW s \in Sessions, TypeInv, KnownInv, SlotInv,
         SlotOwn(s), Calm, Done(s)
  PROVE  SlotInv' /\ ClashKept
  BY SlotsCalm DEF Done, Claiming, RequestSlot

LEMMA BeginSlots ==
  ASSUME NEW s \in Sessions, Base, SlotInv, Begin(s)
  PROVE  SlotInv' /\ ClashKept
<1>1. /\ UNCHANGED <<rideStatus, booking>> /\ Loaded(txn'[s], pc'[s])
      /\ \A u \in Sessions \ {s} : pc'[u] = pc[u] /\ txn'[u] = txn[u]
  BY BeginKinds DEF tables, Base
<1>2. UNCHANGED slotLock
  BY DEF Begin, BookLoad, RouteLoad, DeleteLoad, CancelLoad, StatusLoad, PatchLoad,
         ExecLock, TripLock
<1>3. pc'[s] \notin {"bookSlots", "bookRow", "bookCheck", "bookCommit"}
  BY <1>1 DEF Loaded
<1>4. RequestSlot(s)'
  BY <1>3 DEF RequestSlot
<1>5. SlotOwn(s) /\ Calm
  BY <1>1, <1>2, QuietCalm DEF SlotOwn
<1> QED
  BY <1>4, <1>5, SlotsCalm DEF Base

\* The steps of a booking up to its commit.
LEMMA ClaimSlots ==
  ASSUME NEW s \in Sessions, TypeInv, KnownInv, SlotInv,
         BookSlotLock(s) \/ BookSlots(s) \/ BookRow(s) \/ BookCheck(s), ~Refuse(s)
  PROVE  SlotInv' /\ ClashKept
<1>2. UNCHANGED <<rideStatus, booking>> /\ Calm
  BY QuietCalm DEF BookSlotLock, BookSlots, BookRow, BookCheck, tables
<1>3. RequestSlot(s) /\ Known(s)
  BY DEF SlotInv, KnownInv
<1>4. CASE BookSlotLock(s)
  <2>1. txn[s].passenger \in Passengers /\ slotLock[txn[s].passenger] = None
    BY <1>3, <1>4 DEF BookSlotLock, Known, Claiming, SlotFree
  <2>2. /\ slotLock' = [slotLock EXCEPT ![txn[s].passenger] = s]
        /\ pc' = [pc EXCEPT ![s] = "bookSlots"] /\ txn' = txn
    BY <1>4 DEF BookSlotLock, Goto
  <2>3. SlotOwn(s)
    BY <2>1, <2>2, RidesAssumption DEF SlotOwn, TypeInv, SessionsOK
  <2>4. RequestSlot(s)'
    BY <2>1, <2>2 DEF RequestSlot, TypeInv, SessionsOK
  <2> QED
    BY <1>2, <2>3, <2>4, SlotsCalm
<1>5. CASE BookSlots(s)
  <2> DEFINE aboard == IF txn[s].seenStatus = "open"
                       THEN ActiveBookings(txn[s].ride) ELSE {}
  <2>1. /\ pc[s] = "bookSlots" /\ ~SlotTaken(txn[s].passenger, txn[s].ride)
        /\ txn' = [txn EXCEPT ![s].stops = aboard]
        /\ pc' = [pc EXCEPT ![s] = "bookRow"]
        /\ UNCHANGED slotLock
    BY <1>5 DEF BookSlots, Goto
  <2> HIDE DEF aboard
  <2>2. SlotOwn(s) /\ pc'[s] = "bookRow"
    BY <2>1 DEF SlotOwn, TypeInv, SessionsOK
  <2>3. txn'[s].passenger = txn[s].passenger /\ txn'[s].ride = txn[s].ride
    BY <2>1 DEF TypeInv, SessionsOK, Txns
  <2>4. ~SlotTaken(txn[s].passenger, txn[s].ride)'
    <3>1. ~SlotTaken(txn'[s].passenger, txn'[s].ride)
      BY <2>1, <2>3
    <3> QED
      BY <1>2, <3>1 DEF SlotTaken, HasActiveBooking, ActiveBookings, BookingsOf
  <2>5. RequestSlot(s)'
    BY <1>3, <2>1, <2>2, <2>3, <2>4 DEF RequestSlot
  <2> QED
    BY <1>2, <2>2, <2>5, SlotsCalm
<1>6. CASE BookRow(s) \/ BookCheck(s)
  <2>1. /\ pc[s] \in {"bookRow", "bookCheck"} /\ txn' = txn /\ UNCHANGED slotLock
        /\ pc'[s] \in {"bookCheck", "bookCommit"}
        /\ \A u \in Sessions \ {s} : pc'[u] = pc[u]
    BY <1>6 DEF BookRow, BookCheck, Goto, TypeInv, SessionsOK
  <2>2. SlotOwn(s)
    BY <2>1 DEF SlotOwn
  <2>3. ~SlotTaken(txn[s].passenger, txn[s].ride)'
    BY <1>2, <1>3, <2>1 DEF RequestSlot, SlotTaken, HasActiveBooking, ActiveBookings, BookingsOf
  <2>4. RequestSlot(s)'
    BY <1>3, <2>1, <2>3 DEF RequestSlot
  <2> QED
    BY <1>2, <2>2, <2>4, SlotsCalm
<1> QED
  BY <1>4, <1>5, <1>6

\* The commit of a booking: its passenger's slot was free, and every other
\* request that has found a slot free has found it for another passenger.
LEMMA BookCommitSlots ==
  ASSUME NEW s \in Sessions, TypeInv, RowInv, KnownInv, SlotInv, BookCommit(s)
  PROVE  SlotInv' /\ ClashKept
<1> DEFINE p == txn[s].passenger
           r == txn[s].ride
<1>1. /\ pc[s] = "bookCommit" /\ GotoPlan(s) /\ ReleaseLocks(s)
      /\ UNCHANGED rideStatus
  BY DEF BookCommit
<1>2. /\ p \in Passengers /\ slotLock[p] = s /\ r \in Rides
      /\ ~SlotTaken(p, r)
  BY <1>1 DEF SlotInv, RequestSlot, KnownInv, Known, Claiming, TypeInv, RequestOK
<1>4. SlotOwn(s) /\ Done(s)
  BY <1>1, SlotGotoPlan
<1>5. PICK b \in BookingIds :
        /\ booking[b].status = "unused"
        /\ booking'[b].ride = r
        /\ booking'[b].passenger = p
        /\ \A c \in BookingIds \ {b} : booking'[c] = booking[c]
  BY BookCommitRow
<1> HIDE DEF p, r
<1>6. ASSUME NEW q, q # p, NEW o, ~SlotTaken(q, o)
      PROVE  ~SlotTaken(q, o)'
  BY <1>1, <1>5, <1>6 DEF SlotTaken, HasActiveBooking, ActiveBookings, BookingsOf
<1>7. ASSUME NEW u \in Sessions \ {s} PROVE RequestSlot(u)'
  <2>1. pc'[u] = pc[u] /\ txn'[u] = txn[u] /\ RequestSlot(u)
    BY <1>4 DEF SlotOwn, SlotInv
  <2>2. pc[u] \in {"bookRow", "bookCheck", "bookCommit"} =>
          txn[u].passenger # p /\ ~SlotTaken(txn[u].passenger, txn[u].ride)
    BY <1>2, <2>1 DEF RequestSlot
  <2>3. pc[u] \in {"bookRow", "bookCheck", "bookCommit"} =>
          ~SlotTaken(txn[u].passenger, txn[u].ride)'
    <3> HAVE pc[u] \in {"bookRow", "bookCheck", "bookCommit"}
    <3>1. PICK q, o : q = txn[u].passenger /\ o = txn[u].ride
      OBVIOUS
    <3>2. ~SlotTaken(q, o)'
      BY <1>6, <2>2, <3>1
    <3> QED
      BY <2>1, <3>1, <3>2 DEF SlotTaken, HasActiveBooking, ActiveBookings, BookingsOf
  <2> QED
    BY <1>4, <2>3, SlotOthers
<1>8. SlotInv'
  BY <1>4, <1>7 DEF Done, Claiming, RequestSlot, SlotInv
<1>9. \A o \in Rides : \A a \in ActiveBookings(o) :
         <<o, r>> \in Clashes /\ rideStatus[o] \in Live => booking[a].passenger # p
  BY <1>2 DEF SlotTaken, HasActiveBooking, Live
<1>10. ClashKept
  <2> SUFFICES ASSUME SymmetricClashes, NoClashingBookings, NEW q \in Rides, NEW o \in Rides,
                      NEW a \in ActiveBookings(q)', NEW c \in ActiveBookings(o)',
                      <<q, o>> \in Clashes,
                      {rideStatus'[q], rideStatus'[o]} \subseteq {"open", "in_progress"},
                      booking'[a].passenger = booking'[c].passenger
               PROVE  a = c
    BY DEF NoClashingBookings, ClashKept
  <2>1. /\ a \in BookingIds /\ booking'[a].ride = q /\ booking'[a].status = "booked"
        /\ c \in BookingIds /\ booking'[c].ride = o /\ booking'[c].status = "booked"
    BY DEF ActiveBookings, BookingsOf
  <2>2. rideStatus[q] \in Live /\ rideStatus[o] \in Live /\ <<o, q>> \in Clashes
    BY <1>1 DEF Live, SymmetricClashes
  <2>3. /\ a # b => a \in ActiveBookings(q) /\ booking[a] = booking'[a]
        /\ c # b => c \in ActiveBookings(o) /\ booking[c] = booking'[c]
    BY <1>5, <2>1 DEF ActiveBookings, BookingsOf
  <2>4. CASE a # b /\ c # b
    BY <2>2, <2>3, <2>4 DEF NoClashingBookings, Live
  <2>5. CASE a = b /\ c # b
    BY <1>5, <1>9, <2>1, <2>2, <2>3, <2>5
  <2>6. CASE a # b /\ c = b
    BY <1>5, <1>9, <2>1, <2>2, <2>3, <2>6
  <2> QED
    BY <2>4, <2>5, <2>6
<1> QED
  BY <1>8, <1>10

\* The remaining steps make no booking active.
LEMMA WriteSlots ==
  ASSUME NEW s \in Sessions, Base, SlotInv, NoRevival,
         Advance(s), ~Refuse(s), ~BookCommit(s),
         ~(BookSlotLock(s) \/ BookSlots(s) \/ BookRow(s) \/ BookCheck(s))
  PROVE  SlotInv' /\ ClashKept
<1>1. Plain(s) \/ UNCHANGED booking
  BY AdvanceRow DEF Base
<1>2. SlotOwn(s) /\ Done(s)
  <2>1. CASE Finish(s)
    BY <2>1, SlotFinish DEF Base
  <2>2. CASE /\ \/ PlanRead(s) \/ PlanWrite(s) \/ StatusCheck(s)
                \/ CompleteBookings(s) \/ CompleteCommit(s)
             /\ ~Finish(s)
    <3>1. /\ UNCHANGED slotLock
          /\ \A u \in Sessions \ {s} : txn'[u] = txn[u]
          /\ \E next \in {"planRead", "planWrite", "statusCommit", "completeCommit",
                           "statsCommit"} : Goto(s, next)
      BY <2>2
      DEF PlanRead, PlanWrite, StatusCheck, CompleteBookings, CompleteCommit, Refuse,
          Base, TypeInv, SessionsOK
    <3> QED
      BY <3>1 DEF Goto, SlotOwn, Done, Claiming, Base, TypeInv, SessionsOK
  <2>3. CASE CancelCommit(s)
    <3>1. GotoPlan(s) /\ UNCHANGED slotLock
      BY <2>3 DEF CancelCommit
    <3> QED
      BY <3>1, SlotGotoPlan DEF Base
  <2> QED
    BY <2>1, <2>2, <2>3
    DEF Advance, StatusCommit, StatsCommit, DeleteCommit, ExecCommit, TripCommit,
        PatchCommit
<1>3. Calm
  BY <1>1 DEF Plain, Calm, NoRevival
<1> QED
  BY <1>2, <1>3, DoneCalm DEF Base

LEMMA RefuseSlots ==
  ASSUME NEW s \in Sessions, Base, SlotInv, Refuse(s)
  PROVE  SlotInv' /\ ClashKept
<1>1. SlotOwn(s) /\ Done(s) /\ Calm
  BY SlotFinish, QuietCalm DEF Refuse, tables, Base
<1> QED
  BY <1>1, DoneCalm DEF Base

LEMMA SlotsStep ==
  ASSUME Base, SlotInv, NoRevival, [Next]_vars
  PROVE  SlotInv' /\ ClashKept
<1>1. CASE UNCHANGED vars
  <2>1. UNCHANGED <<rideStatus, booking, slotLock, pc, txn>>
    BY <1>1 DEF vars, tables
  <2>2. SlotInv'
    BY <2>1 DEF SlotInv, RequestSlot, SlotTaken, HasActiveBooking, ActiveBookings, BookingsOf
  <2> QED
    BY <2>1, <2>2, QuietCalm, CalmClash DEF ClashKept
<1>2. ASSUME NEW s \in Sessions, Advance(s)
      PROVE  SlotInv' /\ ClashKept
  BY <1>2, RefuseSlots, ClaimSlots, BookCommitSlots, WriteSlots DEF Base
<1>3. ASSUME NEW s \in Sessions, Begin(s) \/ Abort(s)
      PROVE  SlotInv' /\ ClashKept
  BY <1>3, BeginSlots, RefuseSlots DEF Abort
<1> QED
  BY <1>1, <1>2, <1>3 DEF Next

LEMMA SlotsInit == Init => SlotInv /\ NoClashingBookings
  BY DEF Init, NoBooking, SlotInv, RequestSlot, NoClashingBookings,
         ActiveBookings, BookingsOf

\* As long as only handlers that lock the ride move its status, no passenger
\* ever ends up with two bookings that overlap, whatever requests race,
\* however many, and wherever they die.
THEOREM NoClashes ==
  LockedStatus /\ SymmetricClashes => (Spec => []NoClashingBookings)
<1> SUFFICES ASSUME LockedStatus, SymmetricClashes
             PROVE  Spec => []NoClashingBookings
  OBVIOUS
<1>1. Base /\ SlotInv /\ NoClashingBookings /\ [Next]_vars
        => (SlotInv /\ NoClashingBookings)'
  BY NoneRevived, SlotsStep DEF ClashKept
<1> QED
  BY <1>1, SlotsInit, BaseHolds, PTL DEF Spec

\* Without the driver's status handlers the status of a ride is written by
\* the trip handlers alone, which read it again under the row lock.
TripOps == Ops \cap {"status", "patch", "delete"} = {}

LEMMA StatusForward ==
  ASSUME TripOps, Base, [Next]_vars, NEW r \in Rides, rideStatus'[r] # rideStatus[r]
  PROVE  <<rideStatus[r], rideStatus'[r]>> \in
           {<<"open", "in_progress">>, <<"open", "completed">>,
            <<"in_progress", "completed">>}
<1>1. PICK s \in Sessions : Begin(s) \/ Advance(s) \/ Abort(s)
  BY DEF Next, vars, tables
<1>2. Writes(s) /\ Known(s)
  BY <1>1, StepWrites DEF Base, KnownInv
<1>3. pc[s] \notin {"statusCommit", "completeCommit", "patchCommit", "deleteCommit"}
  BY <1>2 DEF Known, TripOps
<1>4. r = txn[s].ride /\ pc[s] = "tripCommit" /\ rideStatus'[r] = txn[s].target
  BY <1>2, <1>3 DEF Writes, StatusWrites
<1> QED
  BY <1>2, <1>4 DEF Known, TripAllowed

\* A trip moves forward: two drivers' requests that start or complete one
\* ride at once never move it back, nor does any request of a passenger.
THEOREM TripsMoveForward == TripOps => (Spec => TripStatusMonotone)
<1> SUFFICES ASSUME TripOps PROVE Spec => TripStatusMonotone
  OBVIOUS
<1>1. Base /\ [Next]_vars =>
        [\A r \in Rides : rideStatus'[r] # rideStatus[r] =>
           <<rideStatus[r], rideStatus'[r]>> \in
             {<<"open", "in_progress">>, <<"open", "completed">>,
              <<"in_progress", "completed">>}]_rideStatus
  BY StatusForward
<1> QED
  BY <1>1, BaseHolds, PTL DEF Spec, TripStatusMonotone

(***************************************************************************)
(* The life of a booking row.                                              *)
(***************************************************************************)
\* A booking is gone when its ride is, and not before: a request that inserts
\* or rewrites a row after the deletion of the ride would leave an orphan.
THEOREM NoOrphans == Spec => []GoneTogether
<1>1. Base => GoneTogether
  BY DEF Base, KnownInv
<1> QED
  BY <1>1, BaseHolds, PTL

\* What one step may do to a booking.
StatusMoves ==
  {<<"unused", "booked">>,
   <<"booked", "cancelled">>, <<"booked", "completed">>, <<"booked", "deleted">>,
   <<"completed", "cancelled">>, <<"completed", "deleted">>,
   <<"cancelled", "deleted">>}

RecordKept(b) ==
  LET old == booking[b]
      new == booking'[b]
  IN /\ new.status # old.status => <<old.status, new.status>> \in StatusMoves
     /\ old.status # "unused" => /\ new.ride = old.ride
                                /\ new.passenger = old.passenger
                                /\ new.seats = old.seats
     /\ old.status = "unused" /\ new.status = "booked" =>
          rideStatus'[new.ride] \in RideStatus
     /\ old.status # "completed" /\ new.status = "completed" =>
          rideStatus'[old.ride] \in {"in_progress", "completed"}
     /\ old.status # "deleted" /\ new.status = "deleted" =>
          rideStatus'[old.ride] = "deleted"

LEMMA RecordStep ==
  ASSUME Base, [Next]_vars, NEW b \in BookingIds
  PROVE  RecordKept(b)
<1>1. CASE UNCHANGED vars
  BY <1>1 DEF vars, tables, RecordKept
<1>2. ASSUME NEW s \in Sessions, Begin(s) \/ Advance(s) \/ Abort(s)
      PROVE  RecordKept(b)
  <2>1. Writes(s) /\ Frame(s)
    BY <1>2, StepWrites, StepFrame DEF Base
  <2>2. booking[b].status # "unused" => /\ booking'[b].ride = booking[b].ride
                                        /\ booking'[b].passenger = booking[b].passenger
                                        /\ booking'[b].seats = booking[b].seats
    BY <2>1, RowsKeep DEF Writes, Frame
  <2>3. CASE booking'[b] = booking[b]
    BY <2>3 DEF RecordKept
  <2>4. CASE pc[s] = "bookCommit" /\ booking'[b] # booking[b]
    <3>1. /\ booking[b].status = "unused" /\ booking'[b].status = "booked"
          /\ booking'[b].ride = txn[s].ride /\ Exists(txn[s].ride)
      BY <2>1, <2>4 DEF Writes, RowWrites
    <3>2. txn[s].ride \in Rides /\ rideStatus'[txn[s].ride] = rideStatus[txn[s].ride]
      BY <2>1, <2>4 DEF Writes, StatusWrites, Base, TypeInv, RequestOK
    <3>3. rideStatus'[txn[s].ride] \in RideStatus
      BY <3>1, <3>2 DEF Exists, Base, TypeInv, TablesOK
    <3> QED
      BY <3>1, <3>3 DEF RecordKept, StatusMoves
  <2>5. CASE pc[s] = "execCommit" /\ booking'[b] # booking[b]
    <3>1. /\ booking[b].ride = txn[s].ride /\ rideStatus[txn[s].ride] = "in_progress"
          /\ booking[b].status = "booked"
          /\ booking'[b].status \in {"booked", "completed"}
      BY <2>1, <2>5 DEF Writes, RowWrites
    <3>2. rideStatus'[txn[s].ride] = "in_progress"
      BY <2>1, <2>5, <3>1 DEF Writes, StatusWrites, Base, TypeInv, RequestOK
    <3> QED
      BY <2>2, <3>1, <3>2 DEF RecordKept, StatusMoves
  <2>6. CASE pc[s] = "cancelCommit" /\ booking'[b] # booking[b]
    <3>1. /\ booking[b].status \notin {"unused", "deleted"}
          /\ booking'[b].status = "cancelled" /\ booking[b] \in Bookings
      BY <2>1, <2>6 DEF Writes, RowWrites, Restated, Base, TypeInv, TablesOK
    <3>2. booking[b].status \in {"booked", "cancelled", "completed"}
      BY <3>1 DEF Bookings
    <3> QED
      BY <2>2, <3>1, <3>2 DEF RecordKept, StatusMoves
  <2>7. CASE pc[s] = "completeCommit" /\ booking'[b] # booking[b]
    <3>1. /\ booking[b].ride = txn[s].ride /\ rideStatus'[txn[s].ride] = "completed"
          /\ booking[b].status = "booked" /\ booking'[b].status = "completed"
      BY <2>1, <2>7 DEF Writes, RowWrites, Restated
    <3> QED
      BY <2>2, <3>1 DEF RecordKept, StatusMoves
  <2>8. CASE pc[s] = "deleteCommit" /\ booking'[b] # booking[b]
    <3>1. /\ booking[b].ride = txn[s].ride /\ rideStatus'[txn[s].ride] = "deleted"
          /\ booking[b].status \notin {"unused", "deleted"}
          /\ booking'[b].status = "deleted" /\ booking[b] \in Bookings
      BY <2>1, <2>8 DEF Writes, RowWrites, Restated, Base, TypeInv, TablesOK
    <3>2. booking[b].status \in {"booked", "cancelled", "completed"}
      BY <3>1 DEF Bookings
    <3> QED
      BY <2>2, <3>1, <3>2 DEF RecordKept, StatusMoves
  <2> QED
    BY <2>1, <2>3, <2>4, <2>5, <2>6, <2>7, <2>8 DEF Writes, RowWrites
<1> QED
  BY <1>1, <1>2 DEF Next

\* Whatever requests race and wherever they die, a booking is inserted on a
\* ride that exists at the commit, is completed only on a ride under way or by
\* the commit that completes it, goes only with its ride, is never active
\* again once it was not, and keeps its ride, its passenger and its seats.
THEOREM BookingLifecycle == Spec => [][\A b \in BookingIds : RecordKept(b)]_booking
<1>1. Base /\ [Next]_vars => [\A b \in BookingIds : RecordKept(b)]_booking
  BY RecordStep
<1> QED
  BY <1>1, BaseHolds, PTL DEF Spec

=============================================================================
