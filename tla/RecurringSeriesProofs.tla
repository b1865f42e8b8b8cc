------------------------ MODULE RecurringSeriesProofs ------------------------
(***************************************************************************)
(* Theorems about RecurringSeries, for every set of dates, passengers and  *)
(* requests, every subset of the jobs and whatever other endpoints do.     *)
(***************************************************************************)
EXTENDS RecurringSeries, WellFoundedInduction, TLAPS

-----------------------------------------------------------------------------
(* Invariants.                                                               *)

\* What a request carries, j, fits its next statement.
JobFits(j, step) ==
  /\ step \in {"subscribe", "find", "create"} => j.todo # {}
  /\ step \in {"fan", "ensure", "book", "link"} \/ (step = "resume" /\ j.op = "nightly")
     => j.ride \in RideIds /\ instance[j.ride].status # "unused"
  /\ step \in {"find", "create", "resume"} => j.op \in {"home", "nightly"} \/ j.sub \in SubIds
  /\ step \in {"ensure", "book", "link", "undo", "unsubscribe", "close"} => j.sub \in SubIds
  /\ \A k \in SubIds : k = j.sub \/ k \in j.subs => subscription[k].status # "unused"
  /\ step = "link" => j.seat \in SeatIds /\ seat[j.seat].status # "unused"
  /\ step = "fan" => j.op = "nightly"
  /\ step = "unsubscribe" => j.op = "series"
  /\ j.op = "series"
     => step \in {"subscribe", "find", "create", "ensure", "book", "link", "undo", "unsubscribe"}

\* The seats a series request has made, as far as they are active, are those
\* it remembers; while it undoes them, those left to undo and those that
\* cannot be undone.
MadeFits(j, step) ==
  j.op = "series" /\ j.sub \in SubIds
  => \A b \in SeatIds :
       seat[b].for = j.sub /\ seat[b].status = "active"
       => \/ step \notin {"undo", "unsubscribe"} /\ (b \in j.made \/ (step = "link" /\ b = j.seat))
          \/ step = "undo" /\ b \in j.undone
          \/ step \in {"undo", "unsubscribe"} /\ instance[seat[b].ride].status = "started"

RequestOK(s) == JobFits(job[s], seriesAt[s]) /\ MadeFits(job[s], seriesAt[s])

\* No two series requests have one subscription.
OwnSub(s, t) ==
  job[s].op = "series" /\ job[t].op = "series" /\ job[s].sub \in SubIds => job[s].sub # job[t].sub

\* A seat is on a ride that was materialized, for a subscription that was made.
SeatOK(b) ==
  /\ seat[b].status = "unused" => seat[b] = NoSeat
  /\ seat[b].status # "unused" => seat[b].ride \in RideIds /\ instance[seat[b].ride].status # "unused"
  /\ seat[b].for \in SubIds => subscription[seat[b].for].status # "unused"

SeriesInv ==
  /\ SeriesTypeOK /\ OneRidePerDate /\ OneSeatPerDate
  /\ \A b \in SeatIds : SeatOK(b)
  /\ \A s \in SeriesSessions : RequestOK(s)
  /\ \A s, t \in SeriesSessions : s # t => OwnSub(s, t)

-----------------------------------------------------------------------------
(* Helpers.                                                                  *)

\* The first of some dates is one of them.
LEMMA FirstDate ==
  ASSUME NEW D \in SUBSET Dates, D # {}
  PROVE  Min(D) \in D
<1> DEFINE less == OpToRel(<, Nat)
<1>1. D \subseteq Nat
  BY DatesAssumption
<1>2. PICK n \in D : \A m \in D : ~(<<m, n>> \in less)
  <2>1. IsWellFoundedOn(less, Nat)
    BY NatLessThanWellFounded
  <2> HIDE DEF less
  <2> QED
    BY <1>1, <2>1, WFMin
<1>3. ASSUME NEW m \in D PROVE n <= m
  <2>1. m \in Nat /\ n \in Nat /\ ~(<<m, n>> \in less)
    BY <1>1, <1>2
  <2>2. m < n => <<m, n>> \in less
    BY <2>1 DEF OpToRel
  <2> HIDE DEF less
  <2> QED
    BY <2>1, <2>2
<1> QED
  BY <1>3 DEF Min

LEMMA FreshOne == ASSUME NEW K, NEW k \in Fresh(K) PROVE k \in K
BY DEF Fresh

LEMMA FreshTypes ==
  /\ \A r \in FreshRides : r \in RideIds /\ instance[r].status = "unused"
  /\ \A k \in FreshSubs : k \in SubIds /\ subscription[k].status = "unused"
  /\ \A b \in FreshSeats : b \in SeatIds /\ seat[b].status = "unused"
BY FreshOne DEF FreshRides, FreshSubs, FreshSeats

LEMMA NoneTypes ==
  /\ NoRow \notin RideIds /\ NoRow \notin SubIds /\ NoRow \notin SeatIds
  /\ NoJob \in Jobs /\ NoJob.op = NoRow /\ NoRow \notin AllSeriesOps /\ NoJob.sub = NoRow /\ NoJob.subs = {} /\ NoJob.todo = {}
  /\ NoSeat \in Seats /\ NoInstance \in Instances /\ NoSubscription \in Subscriptions
BY NoRowAssumption DEF NoJob, Jobs, NoSeat, Seats, SeatStatus, NoInstance, Instances, InstanceStatus,
                       NoSubscription, Subscriptions, SubStatus

-----------------------------------------------------------------------------
(* How the tables change.                                                    *)

InstancesGo ==
  \A r \in RideIds :
    instance[r].status # "unused"
    => /\ instance'[r].status # "unused" /\ instance'[r].date = instance[r].date
       /\ instance'[r].status \in Holding => instance[r].status \in Holding
       /\ instance[r].status = "started" => instance'[r].status = "started"
SubsGo == \A k \in SubIds : subscription[k].status # "unused" => subscription'[k].status # "unused"
SeatsGo ==
  \A b \in SeatIds :
    seat[b].status # "unused"
    => /\ seat'[b].status # "unused"
       /\ seat'[b].ride = seat[b].ride /\ seat'[b].for = seat[b].for /\ seat'[b].owner = seat[b].owner
       /\ seat'[b].status = "active" => seat[b].status = "active"

NoNewRides == \A r \in RideIds : instance[r].status = "unused" => instance'[r].status = "unused"
NoNewSeats == \A b \in SeatIds : seat[b].status = "unused" => seat'[b] = seat[b]

Still(t) == seriesAt'[t] = seriesAt[t] /\ job'[t] = job[t]

LEMMA RidesKept ==
  ASSUME OneRidePerDate, InstancesGo, NoNewRides, driverBusy' \subseteq driverBusy
  PROVE  OneRidePerDate'
BY DEF OneRidePerDate, InstancesGo, NoNewRides, RidesOn, Holding

LEMMA SeatsKept ==
  ASSUME SeriesInv, InstancesGo, SeatsGo, NoNewSeats
  PROVE  OneSeatPerDate'
<1>1. ASSUME NEW p \in Passengers, NEW d \in Dates, NEW b \in LiveSeats(p, d)' PROVE b \in LiveSeats(p, d)
  <2>1. b \in SeatIds /\ SeatOK(b) /\ seat'[b].status = "active" /\ seat[b].status # "unused"
    BY <1>1 DEF LiveSeats, Live, NoNewSeats, SeriesInv
  <2>2. seat[b].ride \in RideIds /\ instance[seat[b].ride].status # "unused" /\ seat'[b].ride = seat[b].ride
    BY <2>1 DEF SeatOK, SeatsGo
  <2> QED
    BY <1>1, <2>1, <2>2 DEF LiveSeats, Live, InstancesGo, SeatsGo
<1> QED
  BY <1>1 DEF OneSeatPerDate, SeriesInv

LEMMA SeatsStayOK ==
  ASSUME SeriesInv, InstancesGo, SubsGo, SeatsGo, NoNewSeats
  PROVE  \A b \in SeatIds : SeatOK(b)'
BY DEF SeriesInv, SeatOK, InstancesGo, SubsGo, SeatsGo, NoNewSeats

\* A request that does not move keeps its part of the invariant, unless it
\* got a new seat.
LEMMA OthersStay ==
  ASSUME SeriesInv, InstancesGo, SubsGo, SeatsGo, NEW t \in SeriesSessions, Still(t),
         \A b \in SeatIds : seat[b].status = "unused" /\ seat'[b].status # "unused"
                            => ~(job[t].op = "series" /\ job[t].sub \in SubIds /\ seat'[b].for = job[t].sub),
         \A b \in SeatIds : seat[b].status = "unused" /\ seat'[b].status = "unused" => seat'[b].for = seat[b].for
  PROVE  RequestOK(t)'
<1>1. PICK j : j = job[t]
  OBVIOUS
<1>2. PICK step : step = seriesAt[t]
  OBVIOUS
<1>3. JobFits(j, step) /\ MadeFits(j, step) /\ job'[t] = j /\ seriesAt'[t] = step
  BY <1>1, <1>2 DEF SeriesInv, RequestOK, Still
<1>4. JobFits(j, step)'
  BY <1>3 DEF JobFits, InstancesGo, SubsGo, SeatsGo
<1>5. MadeFits(j, step)'
  <2> SUFFICES ASSUME j.op = "series", j.sub \in SubIds, NEW b \in SeatIds,
                      seat'[b].for = j.sub, seat'[b].status = "active"
               PROVE  \/ step \notin {"undo", "unsubscribe"} /\ (b \in j.made \/ (step = "link" /\ b = j.seat))
                      \/ step = "undo" /\ b \in j.undone
                      \/ step \in {"undo", "unsubscribe"} /\ instance'[seat'[b].ride].status = "started"
    BY DEF MadeFits
  <2>1. seat[b].status # "unused"
    BY <1>1
  <2>2. seat[b].for = j.sub /\ seat[b].status = "active" /\ seat'[b].ride = seat[b].ride
    BY <2>1 DEF SeatsGo
  <2>3. seat[b].ride \in RideIds /\ instance[seat[b].ride].status # "unused"
    BY <2>1 DEF SeriesInv, SeatOK
  <2>4. instance[seat[b].ride].status = "started" => instance'[seat[b].ride].status = "started"
    BY <2>3 DEF InstancesGo
  <2> QED
    BY <1>3, <2>2, <2>4 DEF MadeFits
<1> QED
  BY <1>3, <1>4, <1>5 DEF RequestOK

LEMMA Moves ==
  ASSUME SeriesInv, SeriesTypeOK', OneRidePerDate', OneSeatPerDate', InstancesGo, SubsGo, SeatsGo,
         \A b \in SeatIds : SeatOK(b)',
         NEW s \in SeriesSessions, NEW j, NEW step, job'[s] = j, seriesAt'[s] = step,
         \A t \in SeriesSessions \ {s} : Still(t),
         JobFits(j, step)', MadeFits(j, step)',
         \A t \in SeriesSessions \ {s} : j.op = "series" /\ job[t].op = "series" /\ j.sub \in SubIds
                                         => j.sub # job[t].sub,
         \A b \in SeatIds, t \in SeriesSessions \ {s} :
           seat[b].status = "unused" /\ seat'[b].status # "unused"
           => ~(job[t].op = "series" /\ job[t].sub \in SubIds /\ seat'[b].for = job[t].sub),
         \A b \in SeatIds : seat[b].status = "unused" /\ seat'[b].status = "unused" => seat'[b].for = seat[b].for
  PROVE  SeriesInv'
<1>1. ASSUME NEW t \in SeriesSessions PROVE RequestOK(t)'
  <2>1. CASE t = s
    BY <2>1 DEF RequestOK
  <2>2. CASE t # s
    BY <2>2, OthersStay
  <2> QED
    BY <2>1, <2>2
<1>2. ASSUME NEW t \in SeriesSessions, NEW u \in SeriesSessions, t # u PROVE OwnSub(t, u)'
  <2>1. CASE t = s
    BY <1>2, <2>1 DEF OwnSub, Still
  <2>2. CASE u = s
    BY <1>2, <2>2 DEF OwnSub, Still
  <2>3. CASE t # s /\ u # s
    BY <1>2, <2>3 DEF OwnSub, Still, SeriesInv
  <2> QED
    BY <2>1, <2>2, <2>3
<1> QED
  BY <1>1, <1>2 DEF SeriesInv

\* The request keeps its subscription, or serves no series.
KeepsSub(s, j) == j.op = "series" => job[s].op = "series" /\ job[s].sub = j.sub

\* A request turns to its next statement and the tables do not change.
LEMMA Turns ==
  ASSUME SeriesInv, UNCHANGED seriesTables, UNCHANGED outside,
         NEW s \in SeriesSessions, NEW j \in Jobs, NEW step \in SeriesSteps,
         job' = [job EXCEPT ![s] = j], seriesAt' = [seriesAt EXCEPT ![s] = step],
         JobFits(j, step), MadeFits(j, step), KeepsSub(s, j) \/ j.sub \notin SubIds
  PROVE  SeriesInv'
<1>1. /\ SeriesTypeOK /\ UNCHANGED <<scheduleActive, driverBusy, instance, subscription, seat>>
      /\ job'[s] = j /\ seriesAt'[s] = step /\ \A t \in SeriesSessions \ {s} : Still(t)
  BY DEF SeriesInv, SeriesTypeOK, seriesTables, Still
<1>2. SeriesTypeOK'
  BY <1>1 DEF SeriesTypeOK
<1>3. InstancesGo /\ SubsGo /\ SeatsGo /\ NoNewRides /\ NoNewSeats
  BY <1>1 DEF InstancesGo, SubsGo, SeatsGo, NoNewRides, NoNewSeats
<1>4. OneRidePerDate' /\ OneSeatPerDate' /\ \A b \in SeatIds : SeatOK(b)'
  BY <1>1, <1>3, RidesKept, SeatsKept, SeatsStayOK DEF SeriesInv
<1>5. JobFits(j, step)' /\ MadeFits(j, step)'
  BY <1>1 DEF JobFits, MadeFits
<1>6. ASSUME NEW t \in SeriesSessions \ {s}, j.op = "series", job[t].op = "series", j.sub \in SubIds
      PROVE  j.sub # job[t].sub
  BY <1>6 DEF KeepsSub, SeriesInv, OwnSub
<1> QED
  BY <1>1, <1>2, <1>3, <1>4, <1>5, <1>6, Moves DEF NoNewSeats

\* A request ends and the tables keep what the others rely on.
LEMMA Ends ==
  ASSUME SeriesInv, InstancesGo, SubsGo, SeatsGo, NoNewRides, NoNewSeats, driverBusy' \subseteq driverBusy,
         scheduleActive' \in BOOLEAN, instance' \in [RideIds -> Instances],
         subscription' \in [SubIds -> Subscriptions], seat' \in [SeatIds -> Seats], UNCHANGED outside,
         NEW s \in SeriesSessions, SeriesReturn(s)
  PROVE  SeriesInv'
<1>1. /\ SeriesTypeOK /\ job'[s] = NoJob /\ seriesAt'[s] = "done" /\ \A t \in SeriesSessions \ {s} : Still(t)
  BY DEF SeriesInv, SeriesTypeOK, SeriesReturn, SeriesGoto, Still
<1>2. SeriesTypeOK'
  BY <1>1, NoneTypes DEF SeriesTypeOK, SeriesReturn, SeriesGoto, SeriesSteps
<1>3. OneRidePerDate' /\ OneSeatPerDate' /\ \A b \in SeatIds : SeatOK(b)'
  BY <1>1, RidesKept, SeatsKept, SeatsStayOK DEF SeriesInv
<1>4. NoJob.op # "series" /\ NoJob.sub \notin SubIds /\ NoJob.subs = {}
  BY NoneTypes DEF AllSeriesOps
<1>5. JobFits(NoJob, "done")' /\ MadeFits(NoJob, "done")'
  BY <1>4 DEF JobFits, MadeFits
<1> QED
  BY <1>1, <1>2, <1>3, <1>4, <1>5, Moves DEF NoNewSeats

LEMMA Typed ==
  ASSUME SeriesInv
  PROVE  /\ scheduleActive \in BOOLEAN /\ driverBusy \subseteq Dates /\ instance \in [RideIds -> Instances]
         /\ subscription \in [SubIds -> Subscriptions] /\ seat \in [SeatIds -> Seats]
         /\ \A s \in SeriesSessions : /\ job[s] \in Jobs /\ seriesAt[s] \in SeriesSteps
                                      /\ JobFits(job[s], seriesAt[s]) /\ MadeFits(job[s], seriesAt[s])
BY DEF SeriesInv, SeriesTypeOK, RequestOK

LEMMA SameGo ==
  ASSUME UNCHANGED <<instance, subscription, seat>>
  PROVE  InstancesGo /\ SubsGo /\ SeatsGo /\ NoNewRides /\ NoNewSeats
BY DEF InstancesGo, SubsGo, SeatsGo, NoNewRides, NoNewSeats

-----------------------------------------------------------------------------
(* The requests begin.                                                       *)

LEMMA SeriesBegins ==
  ASSUME SeriesInv, UNCHANGED outside, NEW s \in SeriesSessions, NEW p \in Passengers, BeginSeries(s, p)
  PROVE  SeriesInv'
<1> DEFINE j == [NoJob EXCEPT !.op = "series", !.owner = p, !.todo = Dates]
<1>1. j \in Jobs /\ j.op = "series" /\ j.sub \notin SubIds /\ j.subs = {} /\ j.todo # {}
  BY NoneTypes, DatesAssumption DEF Jobs, AllSeriesOps
<1>2. job' = [job EXCEPT ![s] = j] /\ seriesAt' = [seriesAt EXCEPT ![s] = "subscribe"] /\ UNCHANGED seriesTables
  BY DEF BeginSeries, Start, SeriesGoto
<1> HIDE DEF j
<1>3. JobFits(j, "subscribe") /\ MadeFits(j, "subscribe") /\ "subscribe" \in SeriesSteps
  BY <1>1 DEF JobFits, MadeFits, SeriesSteps
<1> QED
  BY <1>1, <1>2, <1>3, Turns

LEMMA ResolveBegins ==
  ASSUME SeriesInv, UNCHANGED outside, NEW s \in SeriesSessions, NEW k \in SubIds, BeginResolve(s, k)
  PROVE  SeriesInv'
<1>1. PICK owner \in Passengers \cup {NoRow} : owner = subscription[k].owner
  BY Typed DEF Subscriptions
<1> DEFINE j == [NoJob EXCEPT !.op = "resolve", !.owner = owner, !.sub = k, !.todo = Dates]
<1>2. j \in Jobs /\ j.op = "resolve" /\ j.sub = k /\ j.subs = {}
  BY NoneTypes DEF Jobs, AllSeriesOps
<1>3. job' = [job EXCEPT ![s] = j] /\ seriesAt' = [seriesAt EXCEPT ![s] = "resume"] /\ UNCHANGED seriesTables
      /\ subscription[k].status # "unused"
  BY <1>1 DEF BeginResolve, Start, SeriesGoto
<1> HIDE DEF j
<1>4. JobFits(j, "resume") /\ MadeFits(j, "resume") /\ "resume" \in SeriesSteps /\ KeepsSub(s, j)
  BY <1>2, <1>3 DEF JobFits, MadeFits, SeriesSteps, KeepsSub
<1> QED
  BY <1>2, <1>3, <1>4, Turns

LEMMA HomeBegins ==
  ASSUME SeriesInv, UNCHANGED outside, NEW s \in SeriesSessions, BeginHome(s)
  PROVE  SeriesInv'
<1> DEFINE j == [NoJob EXCEPT !.op = "home", !.todo = Dates]
<1>1. j \in Jobs /\ j.op = "home" /\ j.sub \notin SubIds /\ j.subs = {}
  BY NoneTypes DEF Jobs, AllSeriesOps
<1>2. job' = [job EXCEPT ![s] = j] /\ seriesAt' = [seriesAt EXCEPT ![s] = "resume"] /\ UNCHANGED seriesTables
  BY DEF BeginHome, Start, SeriesGoto
<1> HIDE DEF j
<1>3. JobFits(j, "resume") /\ MadeFits(j, "resume") /\ "resume" \in SeriesSteps
  BY <1>1 DEF JobFits, MadeFits, SeriesSteps
<1> QED
  BY <1>1, <1>2, <1>3, Turns

LEMMA NightlyBegins ==
  ASSUME SeriesInv, UNCHANGED outside, NEW s \in SeriesSessions, NEW d \in Dates, BeginNightly(s, d)
  PROVE  SeriesInv'
<1> DEFINE j == [NoJob EXCEPT !.op = "nightly", !.todo = {d}]
<1>1. j \in Jobs /\ j.op = "nightly" /\ j.sub \notin SubIds /\ j.subs = {} /\ j.todo # {}
  BY NoneTypes DEF Jobs, AllSeriesOps
<1>2. job' = [job EXCEPT ![s] = j] /\ seriesAt' = [seriesAt EXCEPT ![s] = "find"] /\ UNCHANGED seriesTables
  BY DEF BeginNightly, Start, SeriesGoto
<1> HIDE DEF j
<1>3. JobFits(j, "find") /\ MadeFits(j, "find") /\ "find" \in SeriesSteps
  BY <1>1 DEF JobFits, MadeFits, SeriesSteps
<1> QED
  BY <1>1, <1>2, <1>3, Turns

LEMMA CancelBegins ==
  ASSUME SeriesInv, UNCHANGED outside, NEW s \in SeriesSessions, NEW k \in SubIds, BeginCancel(s, k)
  PROVE  SeriesInv'
<1>1. PICK owner \in Passengers \cup {NoRow} : owner = subscription[k].owner
  BY Typed DEF Subscriptions
<1>2. PICK future \in SUBSET SeatIds :
        future = {b \in SeatIds : seat[b].sub = k /\ Live(b) /\ instance[seat[b].ride].status = "open"}
  OBVIOUS
<1> DEFINE j == [NoJob EXCEPT !.op = "cancel", !.owner = owner, !.sub = k, !.made = future, !.undone = future]
<1>3. j \in Jobs /\ j.op = "cancel" /\ j.sub = k /\ j.subs = {}
  BY NoneTypes DEF Jobs, AllSeriesOps
<1>4. job' = [job EXCEPT ![s] = j] /\ seriesAt' = [seriesAt EXCEPT ![s] = "undo"] /\ UNCHANGED seriesTables
      /\ subscription[k].status # "unused"
  BY <1>1, <1>2 DEF BeginCancel, Start, SeriesGoto
<1> HIDE DEF j
<1>5. JobFits(j, "undo") /\ MadeFits(j, "undo") /\ "undo" \in SeriesSteps /\ KeepsSub(s, j)
  BY <1>3, <1>4 DEF JobFits, MadeFits, SeriesSteps, KeepsSub
<1> QED
  BY <1>3, <1>4, <1>5, Turns

LEMMA DriverBegins ==
  ASSUME SeriesInv, UNCHANGED outside, NEW s \in SeriesSessions, BeginUpdate(s) \/ Deactivate(s)
  PROVE  SeriesInv'
<1>1. PICK op \in {"update", "deactivate"}, step \in {"purge", "closeAll"} :
        /\ job' = [job EXCEPT ![s] = [NoJob EXCEPT !.op = op]] /\ seriesAt' = [seriesAt EXCEPT ![s] = step]
        /\ scheduleActive' \in BOOLEAN /\ UNCHANGED <<driverBusy, instance, subscription, seat>>
  BY DEF BeginUpdate, Deactivate, SeriesGoto
<1> DEFINE j == [NoJob EXCEPT !.op = op]
<1>2. j \in Jobs /\ j.op = op /\ j.sub \notin SubIds /\ j.subs = {}
  BY NoneTypes DEF Jobs, AllSeriesOps
<1>3. job' = [job EXCEPT ![s] = j]
  BY <1>1
<1> HIDE DEF j
<1>4. /\ SeriesTypeOK /\ job'[s] = j /\ seriesAt'[s] = step /\ \A t \in SeriesSessions \ {s} : Still(t)
  BY <1>1, <1>3 DEF SeriesInv, SeriesTypeOK, Still
<1>5. SeriesTypeOK'
  BY <1>1, <1>2, <1>3, <1>4 DEF SeriesTypeOK, SeriesSteps
<1>6. InstancesGo /\ SubsGo /\ SeatsGo /\ NoNewRides /\ NoNewSeats
  BY <1>1, SameGo
<1>7. OneRidePerDate' /\ OneSeatPerDate' /\ \A b \in SeatIds : SeatOK(b)'
  BY <1>1, <1>6, RidesKept, SeatsKept, SeatsStayOK DEF SeriesInv
<1>8. JobFits(j, step)' /\ MadeFits(j, step)'
  BY <1>1, <1>2 DEF JobFits, MadeFits
<1> QED
  BY <1>1, <1>2, <1>4, <1>5, <1>6, <1>7, <1>8, Moves DEF NoNewSeats

-----------------------------------------------------------------------------
(* The steps that book a series.                                             *)

LEMMA Subscribed ==
  ASSUME SeriesInv, UNCHANGED outside, NEW s \in SeriesSessions, Subscribe(s)
  PROVE  SeriesInv'
<1>1. seriesAt[s] = "subscribe" /\ UNCHANGED <<scheduleActive, driverBusy, instance, seat>>
  BY DEF Subscribe
<1>2. CASE SeriesReturn(s) /\ UNCHANGED subscription
  BY <1>1, <1>2, SameGo, Typed, Ends
<1>3. CASE ~(SeriesReturn(s) /\ UNCHANGED subscription)
  <2>1. PICK p \in Jobs : p = job[s] /\ JobFits(p, "subscribe")
    BY <1>1, Typed
  <2>2. PICK k \in FreshSubs :
          /\ subscription' = [subscription EXCEPT ![k] = [status |-> "active", owner |-> p.owner]]
          /\ job' = [job EXCEPT ![s].sub = k] /\ seriesAt' = [seriesAt EXCEPT ![s] = "find"]
    BY <1>3, <2>1 DEF Subscribe, SeriesGoto
  <2>3. k \in SubIds /\ subscription[k].status = "unused"
    BY <2>2, FreshTypes
  <2> DEFINE j == [p EXCEPT !.sub = k]
  <2>4. j \in Jobs /\ j.sub = k /\ j.op = p.op /\ j.todo = p.todo /\ j.subs = p.subs
    BY <2>3 DEF Jobs
  <2>5. job' = [job EXCEPT ![s] = j]
    BY <2>1, <2>2
  <2> HIDE DEF j
  <2>6. SeriesTypeOK' /\ job'[s] = j /\ seriesAt'[s] = "find" /\ \A t \in SeriesSessions \ {s} : Still(t)
    <3>1. subscription' \in [SubIds -> Subscriptions]
      BY <2>2, <2>3, Typed DEF Jobs, Subscriptions, SubStatus
    <3> QED
      BY <1>1, <2>2, <2>4, <2>5, <3>1 DEF SeriesInv, SeriesTypeOK, SeriesSteps, Still
  <2>7. /\ subscription'[k].status = "active"
        /\ \A i \in SubIds : i # k => subscription'[i] = subscription[i]
    BY <2>2, <2>3, Typed
  <2>8. InstancesGo /\ SubsGo /\ SeatsGo /\ NoNewRides /\ NoNewSeats
    BY <1>1, <2>3, <2>7 DEF InstancesGo, SubsGo, SeatsGo, NoNewRides, NoNewSeats
  <2>9. OneRidePerDate' /\ OneSeatPerDate' /\ \A b \in SeatIds : SeatOK(b)'
    BY <1>1, <2>8, RidesKept, SeatsKept, SeatsStayOK DEF SeriesInv
  <2>10. JobFits(j, "find")'
    BY <2>1, <2>3, <2>4, <2>7 DEF JobFits
  <2>11. \A b \in SeatIds : seat[b].for # k
    BY <2>3 DEF SeriesInv, SeatOK
  <2>12. MadeFits(j, "find")'
    BY <1>1, <2>4, <2>11 DEF MadeFits
  <2>13. \A t \in SeriesSessions : job[t].sub # k
    BY <2>3, Typed DEF JobFits
  <2> QED
    BY <1>1, <2>4, <2>6, <2>8, <2>9, <2>10, <2>12, <2>13, Moves
<1> QED
  BY <1>2, <1>3

\* Where the loops go next.
LEMMA NextDateYields ==
  ASSUME NEW s, NEW j \in Jobs, NextDate(s, j), j.op \in {"home", "nightly"} \/ j.sub \in SubIds,
         j.op = "nightly" => j.ride \in RideIds /\ instance'[j.ride].status # "unused",
         \A k \in SubIds : k = j.sub \/ k \in j.subs => subscription'[k].status # "unused",
         MadeFits(j, "find")'
  PROVE  \E i \in Jobs, step \in SeriesSteps :
           /\ job' = [job EXCEPT ![s] = i] /\ seriesAt' = [seriesAt EXCEPT ![s] = step]
           /\ JobFits(i, step)' /\ MadeFits(i, step)' /\ (i.op = "series" => j.op = "series" /\ i.sub = j.sub)
<1>1. CASE j.op = "series" /\ j.todo # {}
  <2>1. job' = [job EXCEPT ![s] = j] /\ seriesAt' = [seriesAt EXCEPT ![s] = "find"] /\ "find" \in SeriesSteps
    BY <1>1 DEF NextDate, SeriesGoto, SeriesSteps
  <2>2. JobFits(j, "find")'
    BY <1>1 DEF JobFits
  <2> QED
    BY <2>1, <2>2
<1>2. CASE j.op = "series" /\ j.todo = {}
  <2> DEFINE i == [j EXCEPT !.op = "resolve", !.todo = Dates]
  <2>1. i \in Jobs /\ i.op = "resolve" /\ i.sub = j.sub /\ i.subs = j.subs
    BY DEF Jobs, AllSeriesOps
  <2>2. job' = [job EXCEPT ![s] = i] /\ seriesAt' = [seriesAt EXCEPT ![s] = "resume"] /\ "resume" \in SeriesSteps
    BY <1>2 DEF NextDate, SeriesGoto, SeriesSteps
  <2> HIDE DEF i
  <2>3. JobFits(i, "resume")' /\ MadeFits(i, "resume")'
    BY <1>2, <2>1 DEF JobFits, MadeFits
  <2> QED
    BY <2>1, <2>2, <2>3
<1>3. CASE j.op # "series"
  <2>1. job' = [job EXCEPT ![s] = j] /\ seriesAt' = [seriesAt EXCEPT ![s] = "resume"] /\ "resume" \in SeriesSteps
    BY <1>3 DEF NextDate, SeriesGoto, SeriesSteps
  <2>2. JobFits(j, "resume")' /\ MadeFits(j, "resume")'
    BY <1>3 DEF JobFits, MadeFits
  <2> QED
    BY <1>3, <2>1, <2>2
<1> QED
  BY <1>1, <1>2, <1>3

LEMMA FoundYields ==
  ASSUME SeriesInv, NEW s \in SeriesSessions, seriesAt[s] \in {"find", "create"},
         UNCHANGED <<subscription, seat>>, InstancesGo,
         NEW r \in RideIds, NEW open \in BOOLEAN, Found(s, r, open), instance'[r].status # "unused"
  PROVE  \E i \in Jobs, step \in SeriesSteps :
           /\ job' = [job EXCEPT ![s] = i] /\ seriesAt' = [seriesAt EXCEPT ![s] = step]
           /\ JobFits(i, step)' /\ MadeFits(i, step)' /\ KeepsSub(s, i)
<1>1. PICK p \in Jobs : p = job[s] /\ JobFits(p, "find") /\ MadeFits(p, "find")
  <2>1. JobFits(job[s], "find")
    BY Typed DEF JobFits
  <2>2. MadeFits(job[s], "find")
    BY Typed DEF MadeFits
  <2> QED
    BY <2>1, <2>2, Typed
<1>2. PICK seen \in SUBSET RideIds : seen = IF open THEN p.seen \cup {r} ELSE p.seen
  BY DEF Jobs
<1>3. PICK todo \in SUBSET Dates : todo = Tomorrow(s)
  BY <1>1 DEF Tomorrow, Jobs
<1> DEFINE j == [p EXCEPT !.ride = r, !.seen = seen, !.todo = todo]
<1>4. j \in Jobs /\ j.op = p.op /\ j.sub = p.sub /\ j.subs = p.subs /\ j.made = p.made /\ j.ride = r
  BY DEF Jobs
<1>5. /\ p.op = "home" => NextDate(s, j)
      /\ p.op = "nightly" => SeriesGoto(s, "fan") /\ job' = [job EXCEPT ![s] = j]
      /\ p.op \notin {"home", "nightly"} => SeriesGoto(s, "ensure") /\ job' = [job EXCEPT ![s] = j]
  BY <1>1, <1>2, <1>3 DEF Found
<1> HIDE DEF j
<1>6. \A k \in SubIds : k = j.sub \/ k \in j.subs => subscription'[k].status # "unused"
  BY <1>1, <1>4 DEF JobFits
<1>7. \A b \in SeatIds : seat[b].status = "active" => seat[b].ride \in RideIds /\ instance[seat[b].ride].status # "unused"
  BY DEF SeriesInv, SeatOK
<1>8. MadeFits(j, "find")'
  BY <1>1, <1>4 DEF MadeFits
<1>9. CASE p.op = "home"
  <2>1. NextDate(s, j)
    BY <1>5, <1>9
  <2> QED
    BY <1>1, <1>4, <1>6, <1>8, <1>9, <2>1, NextDateYields DEF KeepsSub
<1>10. CASE p.op = "nightly"
  <2>1. seriesAt' = [seriesAt EXCEPT ![s] = "fan"] /\ job' = [job EXCEPT ![s] = j] /\ "fan" \in SeriesSteps
    BY <1>5, <1>10 DEF SeriesGoto, SeriesSteps
  <2>2. JobFits(j, "fan")' /\ MadeFits(j, "fan")' /\ KeepsSub(s, j)
    BY <1>4, <1>6, <1>10 DEF JobFits, MadeFits, KeepsSub
  <2> QED
    BY <1>4, <2>1, <2>2
<1>11. CASE p.op \notin {"home", "nightly"}
  <2>1. seriesAt' = [seriesAt EXCEPT ![s] = "ensure"] /\ job' = [job EXCEPT ![s] = j] /\ "ensure" \in SeriesSteps
    BY <1>5, <1>11 DEF SeriesGoto, SeriesSteps
  <2>2. JobFits(j, "ensure")'
    BY <1>1, <1>4, <1>6, <1>11 DEF JobFits
  <2>3. MadeFits(j, "ensure")' /\ KeepsSub(s, j)
    BY <1>1, <1>4, <1>8 DEF MadeFits, KeepsSub
  <2> QED
    BY <1>4, <2>1, <2>2, <2>3
<1> QED
  BY <1>9, <1>10, <1>11

LEMMA RideFound ==
  ASSUME SeriesInv, UNCHANGED outside, NEW s \in SeriesSessions, Find(s)
  PROVE  SeriesInv'
<1>1. seriesAt[s] = "find" /\ UNCHANGED seriesTables
  BY DEF Find
<1>2. CASE SeriesGoto(s, "create") /\ UNCHANGED job
  <2>1. JobFits(job[s], "find") /\ MadeFits(job[s], "find") /\ job[s] \in Jobs /\ "create" \in SeriesSteps
    BY <1>1, Typed DEF SeriesSteps
  <2>2. JobFits(job[s], "create") /\ MadeFits(job[s], "create") /\ KeepsSub(s, job[s])
    BY <2>1 DEF JobFits, MadeFits, KeepsSub
  <2>3. job' = [job EXCEPT ![s] = job[s]]
    BY <1>2 DEF SeriesInv, SeriesTypeOK
  <2> QED
    BY <1>1, <1>2, <2>1, <2>2, <2>3, Turns DEF SeriesGoto
<1>3. CASE ~(SeriesGoto(s, "create") /\ UNCHANGED job)
  <2>1. PICK r \in RidesOn(Today(s)) : Found(s, r, instance[r].status = "open")
    BY <1>3 DEF Find
  <2>2. r \in RideIds /\ instance[r].status # "unused"
    BY DEF RidesOn
  <2>3. PICK open \in BOOLEAN : open = (instance[r].status = "open")
    OBVIOUS
  <2>4. Found(s, r, open)
    BY <2>1, <2>3
  <2>5. UNCHANGED <<instance, subscription, seat>>
    BY <1>1 DEF seriesTables
  <2>6. PICK i \in Jobs, step \in SeriesSteps :
          /\ job' = [job EXCEPT ![s] = i] /\ seriesAt' = [seriesAt EXCEPT ![s] = step]
          /\ JobFits(i, step)' /\ MadeFits(i, step)' /\ KeepsSub(s, i)
    BY <1>1, <2>2, <2>4, <2>5, SameGo, FoundYields
  <2>7. JobFits(i, step) /\ MadeFits(i, step)
    BY <2>5, <2>6 DEF JobFits, MadeFits
  <2> QED
    BY <1>1, <2>6, <2>7, Turns
<1> QED
  BY <1>2, <1>3

\* The insertion is refused when another ride has the slot, so the new ride
\* has it alone.
LEMMA InstanceCreated ==
  ASSUME SeriesInv, UNCHANGED outside, NEW s \in SeriesSessions, CreateInstance(s)
  PROVE  SeriesInv'
<1>1. seriesAt[s] = "create" /\ UNCHANGED <<scheduleActive, driverBusy, subscription, seat>>
  BY DEF CreateInstance
<1>2. CASE SlotHeld(Today(s))
  <2>1. SeriesReturn(s) /\ UNCHANGED instance
    BY <1>2 DEF CreateInstance
  <2> QED
    BY <1>1, <2>1, SameGo, Typed, Ends
<1>3. CASE ~SlotHeld(Today(s))
  <2>1. PICK r \in FreshRides :
          /\ instance' = [instance EXCEPT ![r] = [status |-> "open", date |-> Today(s)]]
          /\ Found(s, r, TRUE)
    BY <1>3 DEF CreateInstance
  <2>2. r \in RideIds /\ instance[r].status = "unused"
    BY <2>1, FreshTypes
  <2>3. PICK d \in Dates : d = Today(s)
    <3>1. job[s].todo \in SUBSET Dates /\ job[s].todo # {}
      BY <1>1, Typed DEF JobFits, Jobs
    <3> QED
      BY <3>1, FirstDate DEF Today
  <2>4. /\ instance' \in [RideIds -> Instances] /\ instance'[r] = [status |-> "open", date |-> d]
        /\ \A q \in RideIds : q # r => instance'[q] = instance[q]
    <3>1. [status |-> "open", date |-> d] \in Instances
      BY DatesAssumption DEF Instances, InstanceStatus
    <3> QED
      BY <2>1, <2>2, <2>3, <3>1, Typed
  <2>5. InstancesGo /\ SubsGo /\ SeatsGo /\ NoNewSeats
    BY <1>1, <2>2, <2>4 DEF InstancesGo, SubsGo, SeatsGo, NoNewSeats
  <2>6. PICK i \in Jobs, step \in SeriesSteps :
          /\ job' = [job EXCEPT ![s] = i] /\ seriesAt' = [seriesAt EXCEPT ![s] = step]
          /\ JobFits(i, step)' /\ MadeFits(i, step)' /\ KeepsSub(s, i)
    BY <1>1, <2>1, <2>2, <2>4, <2>5, FoundYields
  <2>7. SeriesTypeOK' /\ job'[s] = i /\ seriesAt'[s] = step /\ \A t \in SeriesSessions \ {s} : Still(t)
    BY <1>1, <2>4, <2>6 DEF SeriesInv, SeriesTypeOK, Still
  <2>8. OneRidePerDate'
    <3> SUFFICES ASSUME NEW e \in Dates
                 PROVE  LET held == {q \in RidesOn(e)' : instance'[q].status \in Holding}
                        IN  /\ \A r1, r2 \in held : r1 = r2
                            /\ e \in driverBusy' => held = {}
      BY DEF OneRidePerDate, Holding
    <3> DEFINE before == {q \in RidesOn(e) : instance[q].status \in Holding}
               held == {q \in RidesOn(e)' : instance'[q].status \in Holding}
    <3>1. (\A r1, r2 \in before : r1 = r2) /\ (e \in driverBusy => before = {})
      BY DEF SeriesInv, OneRidePerDate
    <3>2. e # d => held = before
      BY <2>2, <2>4 DEF RidesOn
    <3>3. e = d => before = {} /\ e \notin driverBusy
      BY <1>3, <2>3 DEF SlotHeld
    <3>4. held \subseteq before \cup {r}
      BY <2>4 DEF RidesOn
    <3> HIDE DEF before, held
    <3>5. (\A r1, r2 \in held : r1 = r2) /\ (e \in driverBusy' => held = {})
      BY <1>1, <3>1, <3>2, <3>3, <3>4
    <3> QED
      BY <3>5 DEF held
  <2>9. OneSeatPerDate' /\ \A b \in SeatIds : SeatOK(b)'
    BY <1>1, <2>5, SeatsKept, SeatsStayOK DEF SeriesInv
  <2>10. \A t \in SeriesSessions \ {s} : i.op = "series" /\ job[t].op = "series" /\ i.sub \in SubIds
                                         => i.sub # job[t].sub
    BY <2>6 DEF KeepsSub, SeriesInv, OwnSub
  <2> QED
    BY <1>1, <2>5, <2>6, <2>7, <2>8, <2>9, <2>10, Moves DEF NoNewSeats
<1> QED
  BY <1>2, <1>3

LEMMA FannedOut ==
  ASSUME SeriesInv, UNCHANGED outside, NEW s \in SeriesSessions, FanOut(s)
  PROVE  SeriesInv'
<1>1. seriesAt[s] = "fan" /\ UNCHANGED seriesTables /\ "resume" \in SeriesSteps
      /\ seriesAt' = [seriesAt EXCEPT ![s] = "resume"]
  BY DEF FanOut, SeriesGoto, SeriesSteps
<1>2. PICK p \in Jobs : p = job[s] /\ JobFits(p, "fan") /\ MadeFits(p, "fan")
  BY <1>1, Typed
<1>3. PICK subs \in SUBSET SubIds : subs = {k \in SubIds : subscription[k].status = "active"}
  OBVIOUS
<1> DEFINE j == [p EXCEPT !.subs = subs]
<1>4. j \in Jobs /\ j.op = p.op /\ j.sub = p.sub /\ j.subs = subs /\ j.ride = p.ride
  BY DEF Jobs
<1>5. job' = [job EXCEPT ![s] = j]
  BY <1>2, <1>3 DEF FanOut
<1> HIDE DEF j
<1>6. JobFits(j, "resume") /\ MadeFits(j, "resume")
  BY <1>2, <1>3, <1>4 DEF JobFits, MadeFits
<1>7. KeepsSub(s, j)
  BY <1>2, <1>4 DEF KeepsSub
<1> QED
  BY <1>1, <1>4, <1>5, <1>6, <1>7, Turns


\* A seat is settled and the tables keep what the others rely on.
LEMMA Settles ==
  ASSUME SeriesInv, UNCHANGED outside, UNCHANGED <<scheduleActive, driverBusy, instance, subscription>>,
         seat' \in [SeatIds -> Seats], SeatsGo, NoNewSeats,
         NEW s \in SeriesSessions, seriesAt[s] \in {"ensure", "book", "link"},
         NEW j \in Jobs, j.op = job[s].op, j.sub = job[s].sub, j.subs = job[s].subs, j.ride = job[s].ride,
         SeatDone(s, j), MadeFits(j, "find")'
  PROVE  SeriesInv'
<1>1. PICK ride \in RideIds \cup {NoRow} : ride = IF j.op = "nightly" THEN j.ride ELSE NoRow
  BY DEF Jobs
<1> DEFINE n == [j EXCEPT !.seat = NoRow, !.ride = ride]
<1>2. n \in Jobs /\ n.op = j.op /\ n.sub = j.sub /\ n.subs = j.subs /\ n.made = j.made /\ n.ride = ride
  BY DEF Jobs
<1>3. NextDate(s, n)
  <2>1. [j EXCEPT !.seat = NoRow, !.ride = IF j.op = "nightly" THEN @ ELSE NoRow] = n
    BY <1>1 DEF Jobs
  <2> HIDE DEF n
  <2> QED
    BY <2>1 DEF SeatDone
<1> HIDE DEF n
<1>4. JobFits(job[s], seriesAt[s])
  BY Typed
<1>5. /\ n.sub \in SubIds
      /\ n.op = "nightly" => n.ride \in RideIds /\ instance'[n.ride].status # "unused"
      /\ \A k \in SubIds : k = n.sub \/ k \in n.subs => subscription'[k].status # "unused"
  BY <1>1, <1>2, <1>4 DEF JobFits
<1>6. MadeFits(n, "find")'
  BY <1>2 DEF MadeFits
<1>7. PICK i \in Jobs, step \in SeriesSteps :
        /\ job' = [job EXCEPT ![s] = i] /\ seriesAt' = [seriesAt EXCEPT ![s] = step]
        /\ JobFits(i, step)' /\ MadeFits(i, step)' /\ (i.op = "series" => n.op = "series" /\ i.sub = n.sub)
  BY <1>2, <1>3, <1>5, <1>6, NextDateYields
<1>8. SeriesTypeOK' /\ job'[s] = i /\ seriesAt'[s] = step /\ \A t \in SeriesSessions \ {s} : Still(t)
  BY <1>7 DEF SeriesInv, SeriesTypeOK, Still
<1>9. InstancesGo /\ SubsGo /\ NoNewRides
  BY DEF InstancesGo, SubsGo, NoNewRides
<1>10. OneRidePerDate' /\ OneSeatPerDate' /\ \A b \in SeatIds : SeatOK(b)'
  BY <1>9, RidesKept, SeatsKept, SeatsStayOK DEF SeriesInv
<1>11. \A t \in SeriesSessions \ {s} : i.op = "series" /\ job[t].op = "series" /\ i.sub \in SubIds
                                       => i.sub # job[t].sub
  BY <1>2, <1>7 DEF SeriesInv, OwnSub
<1> QED
  BY <1>7, <1>8, <1>9, <1>10, <1>11, Moves DEF NoNewSeats

LEMMA Ensured ==
  ASSUME SeriesInv, UNCHANGED outside, NEW s \in SeriesSessions, Ensure(s)
  PROVE  SeriesInv'
<1>1. seriesAt[s] = "ensure" /\ UNCHANGED seriesTables
  BY DEF Ensure
<1>2. PICK p \in Jobs : p = job[s] /\ JobFits(p, "ensure") /\ MadeFits(p, "ensure")
  BY <1>1, Typed
<1>3. CASE Linked(job[s].sub, job[s].ride) = {}
  <2>1. seriesAt' = [seriesAt EXCEPT ![s] = "book"] /\ UNCHANGED job /\ "book" \in SeriesSteps
    BY <1>3 DEF Ensure, SeriesGoto, SeriesSteps
  <2>2. JobFits(p, "book") /\ MadeFits(p, "book") /\ KeepsSub(s, p)
    BY <1>2 DEF JobFits, MadeFits, KeepsSub
  <2>3. job' = [job EXCEPT ![s] = p]
    BY <1>2, <2>1 DEF SeriesInv, SeriesTypeOK
  <2> QED
    BY <1>1, <2>1, <2>2, <2>3, Turns
<1>4. CASE Linked(job[s].sub, job[s].ride) # {}
  <2>1. PICK b \in SeatIds : SeatDone(s, Record(job[s], b))
    BY <1>4 DEF Ensure, Linked
  <2> DEFINE j == [p EXCEPT !.made = p.made \cup {b}]
  <2>2. /\ j \in Jobs /\ j.op = p.op /\ j.sub = p.sub /\ j.subs = p.subs /\ j.ride = p.ride
        /\ j.made = p.made \cup {b}
    BY DEF Jobs
  <2>3. Record(job[s], b) = j
    BY <1>2 DEF Record
  <2>4. SeatDone(s, j)
    BY <2>1, <2>3
  <2> HIDE DEF j
  <2>5. UNCHANGED <<scheduleActive, driverBusy, instance, subscription, seat>>
    BY <1>1 DEF seriesTables
  <2>6. MadeFits(j, "find")'
    BY <1>2, <2>2, <2>5 DEF MadeFits
  <2> QED
    BY <1>1, <1>2, <2>2, <2>4, <2>5, <2>6, SameGo, Typed, Settles
<1> QED
  BY <1>3, <1>4


\* A seat for a passenger who has none in the slot.
LEMMA SeatAdded ==
  ASSUME SeriesInv, UNCHANGED <<instance, subscription>>,
         NEW b \in SeatIds, seat[b].status = "unused", NEW row \in Seats, seat' = [seat EXCEPT ![b] = row],
         row.status = "active", row.ride \in RideIds, instance[row.ride].status # "unused",
         LiveSeats(row.owner, instance[row.ride].date) = {},
         row.for \in SubIds => subscription[row.for].status # "unused"
  PROVE  /\ seat' \in [SeatIds -> Seats] /\ seat'[b] = row
         /\ \A c \in SeatIds : c # b => seat'[c] = seat[c]
         /\ SeatsGo /\ OneSeatPerDate' /\ \A c \in SeatIds : SeatOK(c)'
<1>1. seat' \in [SeatIds -> Seats] /\ seat'[b] = row /\ \A c \in SeatIds : c # b => seat'[c] = seat[c]
  BY Typed
<1>2. SeatsGo
  BY <1>1 DEF SeatsGo
<1>3. ASSUME NEW p \in Passengers, NEW d \in Dates, NEW c \in LiveSeats(p, d)'
      PROVE  \/ c \in LiveSeats(p, d) /\ c # b
             \/ c = b /\ p = row.owner /\ d = instance[row.ride].date
  BY <1>1, <1>3 DEF LiveSeats, Live
<1>4. OneSeatPerDate'
  <2> SUFFICES ASSUME NEW p \in Passengers, NEW d \in Dates,
                      NEW b1 \in LiveSeats(p, d)', NEW b2 \in LiveSeats(p, d)'
               PROVE  b1 = b2
    BY DEF OneSeatPerDate
  <2>1. \A c \in LiveSeats(p, d)' : \/ c \in LiveSeats(p, d) /\ c # b
                                    \/ c = b /\ p = row.owner /\ d = instance[row.ride].date
    BY <1>3
  <2>2. \A c1, c2 \in LiveSeats(p, d) : c1 = c2
    BY DEF SeriesInv, OneSeatPerDate
  <2> QED
    BY <2>1, <2>2
<1>5. \A c \in SeatIds : SeatOK(c)'
  BY <1>1 DEF SeriesInv, SeatOK
<1> QED
  BY <1>1, <1>2, <1>4, <1>5

LEMMA SeatBooked ==
  ASSUME SeriesInv, UNCHANGED outside, NEW s \in SeriesSessions, BookSeat(s)
  PROVE  SeriesInv'
<1>1. seriesAt[s] = "book" /\ UNCHANGED <<scheduleActive, driverBusy, instance, subscription>>
  BY DEF BookSeat
<1>2. PICK p \in Jobs : p = job[s] /\ JobFits(p, "book") /\ MadeFits(p, "book")
  BY <1>1, Typed
<1>3. ASSUME Refused(s), UNCHANGED seat PROVE SeriesInv'
  <2>1. UNCHANGED seriesTables
    BY <1>1, <1>3 DEF seriesTables
  <2>2. CASE p.op = "series"
    <3> DEFINE j == [p EXCEPT !.undone = p.made]
    <3>1. j \in Jobs /\ j.op = p.op /\ j.sub = p.sub /\ j.subs = p.subs /\ j.undone = p.made /\ "undo" \in SeriesSteps
      BY DEF Jobs, SeriesSteps
    <3>2. job' = [job EXCEPT ![s] = j] /\ seriesAt' = [seriesAt EXCEPT ![s] = "undo"]
      BY <1>2, <1>3, <2>2 DEF Refused, SeriesGoto
    <3> HIDE DEF j
    <3>3. JobFits(j, "undo") /\ MadeFits(j, "undo") /\ KeepsSub(s, j)
      BY <1>2, <3>1 DEF JobFits, MadeFits, KeepsSub
    <3> QED
      BY <2>1, <3>1, <3>2, <3>3, Turns
  <2>3. CASE p.op = "nightly"
    <3>1. SeatDone(s, p)
      BY <1>2, <1>3, <2>3 DEF Refused
    <3>2. MadeFits(p, "find")'
      BY <2>3 DEF MadeFits
    <3> QED
      BY <1>1, <1>2, <1>3, <3>1, <3>2, SameGo, Typed, Settles
  <2>4. CASE p.op \notin {"series", "nightly"}
    <3>1. IF p.todo = {} THEN SeriesReturn(s) ELSE SeriesGoto(s, "find") /\ UNCHANGED job
      BY <1>2, <1>3, <2>4 DEF Refused
    <3>2. CASE p.todo = {}
      BY <1>1, <1>3, <3>1, <3>2, SameGo, Typed, Ends
    <3>3. CASE p.todo # {}
      <4>1. JobFits(p, "find") /\ MadeFits(p, "find") /\ KeepsSub(s, p) /\ "find" \in SeriesSteps
        BY <1>2, <2>4, <3>3 DEF JobFits, MadeFits, KeepsSub, SeriesSteps
      <4>2. job' = [job EXCEPT ![s] = p] /\ seriesAt' = [seriesAt EXCEPT ![s] = "find"]
        BY <1>2, <3>1, <3>3 DEF SeriesInv, SeriesTypeOK, SeriesGoto
      <4> QED
        BY <2>1, <4>1, <4>2, Turns
    <3> QED
      BY <3>2, <3>3
  <2> QED
    BY <2>2, <2>3, <2>4
<1>4. ASSUME NEW b \in Booked(p.owner, p.ride), job' = [job EXCEPT ![s].seat = b],
             SeriesGoto(s, "link"), UNCHANGED seat
      PROVE  SeriesInv'
  <2>1. b \in SeatIds /\ seat[b].status # "unused"
    BY DEF Booked
  <2> DEFINE j == [p EXCEPT !.seat = b]
  <2>2. /\ j \in Jobs /\ j.op = p.op /\ j.sub = p.sub /\ j.subs = p.subs /\ j.ride = p.ride /\ j.made = p.made
        /\ j.seat = b /\ "link" \in SeriesSteps
    BY <2>1 DEF Jobs, SeriesSteps
  <2>3. job' = [job EXCEPT ![s] = j] /\ seriesAt' = [seriesAt EXCEPT ![s] = "link"] /\ UNCHANGED seriesTables
    BY <1>1, <1>2, <1>4 DEF SeriesGoto, seriesTables
  <2> HIDE DEF j
  <2>4. JobFits(j, "link") /\ MadeFits(j, "link") /\ KeepsSub(s, j)
    BY <1>2, <2>1, <2>2 DEF JobFits, MadeFits, KeepsSub
  <2> QED
    BY <2>2, <2>3, <2>4, Turns
<1>5. ASSUME LiveSeats(p.owner, instance[p.ride].date) = {}, NEW b \in FreshSeats,
             seat' = [seat EXCEPT ![b] = [status |-> "active", owner |-> p.owner, ride |-> p.ride, sub |-> NoRow,
                                          for |-> IF p.op = "series" THEN p.sub ELSE NoRow]],
             job' = [job EXCEPT ![s].seat = b], SeriesGoto(s, "link")
      PROVE  SeriesInv'
  <2>1. b \in SeatIds /\ seat[b].status = "unused"
    BY FreshTypes
  <2>2. PICK row \in Seats :
          /\ row = [status |-> "active", owner |-> p.owner, ride |-> p.ride, sub |-> NoRow,
                    for |-> IF p.op = "series" THEN p.sub ELSE NoRow]
          /\ row.status = "active" /\ row.owner = p.owner /\ row.ride = p.ride
          /\ row.for = IF p.op = "series" THEN p.sub ELSE NoRow
    <3>1. PICK own \in SubIds \cup {NoRow} : own = IF p.op = "series" THEN p.sub ELSE NoRow
      BY DEF Jobs
    <3>2. [status |-> "active", owner |-> p.owner, ride |-> p.ride, sub |-> NoRow, for |-> own] \in Seats
      BY DEF Seats, Jobs, SeatStatus
    <3> QED
      BY <3>1, <3>2
  <2>3. /\ p.ride \in RideIds /\ instance[p.ride].status # "unused"
        /\ p.sub \in SubIds /\ subscription[p.sub].status # "unused"
    BY <1>2 DEF JobFits
  <2>4. /\ seat' \in [SeatIds -> Seats] /\ seat'[b] = row
        /\ \A c \in SeatIds : c # b => seat'[c] = seat[c]
        /\ SeatsGo /\ OneSeatPerDate' /\ \A c \in SeatIds : SeatOK(c)'
    BY <1>1, <1>5, <2>1, <2>2, <2>3, NoneTypes, SeatAdded
  <2> DEFINE j == [p EXCEPT !.seat = b]
  <2>5. /\ j \in Jobs /\ j.op = p.op /\ j.sub = p.sub /\ j.subs = p.subs /\ j.ride = p.ride /\ j.made = p.made
        /\ j.seat = b /\ "link" \in SeriesSteps
    BY <2>1 DEF Jobs, SeriesSteps
  <2>6. job' = [job EXCEPT ![s] = j] /\ seriesAt' = [seriesAt EXCEPT ![s] = "link"]
    BY <1>2, <1>5 DEF SeriesGoto
  <2> HIDE DEF j
  <2>7. SeriesTypeOK' /\ job'[s] = j /\ seriesAt'[s] = "link" /\ \A t \in SeriesSessions \ {s} : Still(t)
    BY <1>1, <2>4, <2>5, <2>6 DEF SeriesInv, SeriesTypeOK, Still
  <2>8. InstancesGo /\ SubsGo /\ NoNewRides /\ OneRidePerDate'
    BY <1>1, RidesKept DEF InstancesGo, SubsGo, NoNewRides, SeriesInv
  <2>9. JobFits(j, "link")'
    BY <1>1, <1>2, <2>1, <2>2, <2>4, <2>5 DEF JobFits
  <2>10. MadeFits(j, "link")'
    BY <1>1, <1>2, <2>4, <2>5 DEF MadeFits
  <2>11. \A t \in SeriesSessions \ {s} : j.op = "series" /\ job[t].op = "series" /\ j.sub \in SubIds
                                         => j.sub # job[t].sub
    BY <1>2, <2>5 DEF SeriesInv, OwnSub
  <2>12. \A c \in SeatIds, t \in SeriesSessions \ {s} :
           seat[c].status = "unused" /\ seat'[c].status # "unused"
           => ~(job[t].op = "series" /\ job[t].sub \in SubIds /\ seat'[c].for = job[t].sub)
    BY <2>2, <2>4, <2>5, <2>11, NoneTypes
  <2>13. \A c \in SeatIds : seat[c].status = "unused" /\ seat'[c].status = "unused" => seat'[c].for = seat[c].for
    BY <2>2, <2>4
  <2> QED
    BY <2>4, <2>7, <2>8, <2>9, <2>10, <2>11, <2>12, <2>13, Moves
<1> QED
  BY <1>2, <1>3, <1>4, <1>5 DEF BookSeat

LEMMA SeatLinked ==
  ASSUME SeriesInv, UNCHANGED outside, NEW s \in SeriesSessions, LinkSeat(s)
  PROVE  SeriesInv'
<1>1. seriesAt[s] = "link" /\ UNCHANGED <<scheduleActive, driverBusy, instance, subscription>>
  BY DEF LinkSeat
<1>2. PICK p \in Jobs : p = job[s] /\ JobFits(p, "link") /\ MadeFits(p, "link")
  BY <1>1, Typed
<1>3. CASE SeriesReturn(s) /\ UNCHANGED seat
  BY <1>1, <1>3, SameGo, Typed, Ends
<1>4. CASE ~(SeriesReturn(s) /\ UNCHANGED seat)
  <2>1. PICK b \in SeatIds, k \in SubIds : b = p.seat /\ k = p.sub /\ seat[b].status # "unused"
    BY <1>2 DEF JobFits
  <2>2. PICK sub \in SubIds \cup {NoRow} : sub = IF seat[b].status = "deleted" THEN seat[b].sub ELSE k
    BY Typed DEF Seats
  <2>3. seat' = [seat EXCEPT ![b].sub = sub] /\ SeatDone(s, Record(job[s], b))
    BY <1>2, <1>4, <2>1, <2>2 DEF LinkSeat
  <2>4. /\ seat' \in [SeatIds -> Seats] /\ \A c \in SeatIds : c # b => seat'[c] = seat[c]
        /\ seat'[b] = [seat[b] EXCEPT !.sub = sub]
    BY <2>3, Typed DEF Seats
  <2>5. /\ seat'[b].status = seat[b].status /\ seat'[b].ride = seat[b].ride
        /\ seat'[b].for = seat[b].for /\ seat'[b].owner = seat[b].owner
    BY <2>4, Typed DEF Seats
  <2>6. SeatsGo /\ NoNewSeats
    BY <2>1, <2>4, <2>5 DEF SeatsGo, NoNewSeats
  <2> DEFINE j == [p EXCEPT !.made = p.made \cup {b}]
  <2>7. /\ j \in Jobs /\ j.op = p.op /\ j.sub = p.sub /\ j.subs = p.subs /\ j.ride = p.ride
        /\ j.made = p.made \cup {b}
    BY DEF Jobs
  <2>8. SeatDone(s, j)
    BY <1>2, <2>3 DEF Record
  <2> HIDE DEF j
  <2>9. MadeFits(j, "find")'
    BY <1>2, <2>1, <2>4, <2>5, <2>7 DEF MadeFits
  <2> QED
    BY <1>1, <1>2, <2>4, <2>6, <2>7, <2>8, <2>9, Settles
<1> QED
  BY <1>3, <1>4

LEMMA Resumed ==
  ASSUME SeriesInv, UNCHANGED outside, NEW s \in SeriesSessions, Resume(s)
  PROVE  SeriesInv'
<1>1. seriesAt[s] = "resume" /\ UNCHANGED seriesTables
  BY DEF Resume
<1>2. PICK p \in Jobs : p = job[s] /\ JobFits(p, "resume") /\ MadeFits(p, "resume")
  BY <1>1, Typed
<1>3. CASE p.op = "nightly" /\ p.subs # {}
  <2>1. PICK k \in p.subs :
          /\ job' = [job EXCEPT ![s].sub = k, ![s].owner = subscription[k].owner, ![s].subs = p.subs \ {k}]
          /\ SeriesGoto(s, "ensure")
    BY <1>2, <1>3 DEF Resume
  <2>2. k \in SubIds
    BY DEF Jobs
  <2>3. PICK owner \in Passengers \cup {NoRow} : owner = subscription[k].owner
    BY <2>2, Typed DEF Subscriptions
  <2> DEFINE j == [p EXCEPT !.sub = k, !.owner = owner, !.subs = p.subs \ {k}]
  <2>4. /\ j \in Jobs /\ j.op = "nightly" /\ j.sub = k /\ j.subs = p.subs \ {k} /\ j.ride = p.ride
        /\ "ensure" \in SeriesSteps
    BY <1>3, <2>2 DEF Jobs, SeriesSteps
  <2>5. job' = [job EXCEPT ![s] = j] /\ seriesAt' = [seriesAt EXCEPT ![s] = "ensure"]
    BY <1>2, <2>1, <2>3 DEF SeriesInv, SeriesTypeOK, SeriesGoto
  <2> HIDE DEF j
  <2>6. JobFits(j, "ensure") /\ MadeFits(j, "ensure") /\ KeepsSub(s, j)
    BY <1>2, <1>3, <2>2, <2>4 DEF JobFits, MadeFits, KeepsSub
  <2> QED
    BY <1>1, <2>4, <2>5, <2>6, Turns
<1>4. CASE ~(p.op = "nightly" /\ p.subs # {})
  <2>1. SeriesReturn(s) \/ (p.todo # {} /\ SeriesGoto(s, "find") /\ UNCHANGED job)
    BY <1>2, <1>4 DEF Resume
  <2>2. CASE SeriesReturn(s)
    BY <1>1, <2>2, SameGo, Typed, Ends DEF seriesTables
  <2>3. CASE p.todo # {} /\ SeriesGoto(s, "find") /\ UNCHANGED job
    <3>1. JobFits(p, "find") /\ MadeFits(p, "find") /\ KeepsSub(s, p) /\ "find" \in SeriesSteps
      BY <1>2, <2>3 DEF JobFits, MadeFits, KeepsSub, SeriesSteps
    <3>2. job' = [job EXCEPT ![s] = p] /\ seriesAt' = [seriesAt EXCEPT ![s] = "find"]
      BY <1>2, <2>3 DEF SeriesInv, SeriesTypeOK, SeriesGoto
    <3> QED
      BY <1>1, <3>1, <3>2, Turns
  <2> QED
    BY <2>1, <2>2, <2>3
<1> QED
  BY <1>3, <1>4


-----------------------------------------------------------------------------
(* The steps that undo.                                                      *)

\* A seat that cannot be cancelled is on a ride that started.
LEMMA SeatUndone ==
  ASSUME SeriesInv, UNCHANGED outside, NEW s \in SeriesSessions, Undo(s)
  PROVE  SeriesInv'
<1>1. seriesAt[s] = "undo" /\ UNCHANGED <<scheduleActive, driverBusy, instance, subscription, seriesAt>>
  BY DEF Undo
<1>2. PICK p \in Jobs : p = job[s] /\ JobFits(p, "undo") /\ MadeFits(p, "undo")
  BY <1>1, Typed
<1>3. PICK b \in p.undone :
        /\ seat' = [seat EXCEPT ![b].status = IF Cancellable(s, b) THEN "cancelled" ELSE @]
        /\ job' = [job EXCEPT ![s].undone = p.undone \ {b}]
  BY <1>2 DEF Undo
<1>4. b \in SeatIds
  BY DEF Jobs
<1>5. PICK status \in SeatStatus : status = IF Cancellable(s, b) THEN "cancelled" ELSE seat[b].status
  BY <1>4, Typed DEF Seats, SeatStatus
<1>6. seat' = [seat EXCEPT ![b].status = status]
  BY <1>3, <1>5
<1>7. /\ seat' \in [SeatIds -> Seats] /\ \A c \in SeatIds : c # b => seat'[c] = seat[c]
      /\ seat'[b] = [seat[b] EXCEPT !.status = status]
  BY <1>4, <1>6, Typed DEF Seats
<1>8. /\ seat'[b].status = status /\ seat'[b].ride = seat[b].ride
      /\ seat'[b].for = seat[b].for /\ seat'[b].owner = seat[b].owner
  BY <1>4, <1>7, Typed DEF Seats
<1>9. /\ status = "active" => seat[b].status = "active" /\ instance[seat[b].ride].status = "started"
      /\ seat[b].status = "unused" => seat'[b] = seat[b]
      /\ seat[b].status # "unused" => status # "unused"
  <2>1. seat[b].status = "unused" => status = "unused"
    BY <1>5 DEF Cancellable
  <2>2. seat[b].status = "unused" => seat'[b] = seat[b]
    BY <1>4, <1>7, <2>1, Typed DEF Seats
  <2> QED
    BY <1>5, <2>2 DEF Cancellable
<1>10. InstancesGo /\ SubsGo /\ SeatsGo /\ NoNewRides /\ NoNewSeats
  BY <1>1, <1>7, <1>8, <1>9 DEF InstancesGo, SubsGo, SeatsGo, NoNewRides, NoNewSeats
<1> DEFINE j == [p EXCEPT !.undone = p.undone \ {b}]
<1>11. j \in Jobs /\ j.op = p.op /\ j.sub = p.sub /\ j.subs = p.subs /\ j.undone = p.undone \ {b}
  BY DEF Jobs
<1>12. job' = [job EXCEPT ![s] = j]
  BY <1>2, <1>3
<1> HIDE DEF j
<1>13. SeriesTypeOK' /\ job'[s] = j /\ seriesAt'[s] = "undo" /\ \A t \in SeriesSessions \ {s} : Still(t)
  BY <1>1, <1>7, <1>11, <1>12 DEF SeriesInv, SeriesTypeOK, Still
<1>14. OneRidePerDate' /\ OneSeatPerDate' /\ \A c \in SeatIds : SeatOK(c)'
  BY <1>1, <1>10, RidesKept, SeatsKept, SeatsStayOK DEF SeriesInv
<1>15. JobFits(j, "undo")'
  BY <1>1, <1>2, <1>11 DEF JobFits
<1>16. MadeFits(j, "undo")'
  <2> SUFFICES ASSUME j.op = "series", j.sub \in SubIds, NEW c \in SeatIds,
                      seat'[c].for = j.sub, seat'[c].status = "active"
               PROVE  c \in j.undone \/ instance'[seat'[c].ride].status = "started"
    BY DEF MadeFits
  <2>1. CASE c = b
    BY <1>1, <1>8, <1>9, <2>1
  <2>2. CASE c # b
    <3>1. c \in p.undone \/ instance[seat[c].ride].status = "started"
      BY <1>2, <1>7, <1>11, <2>2 DEF MadeFits
    <3> QED
      BY <1>1, <1>7, <1>11, <2>2, <3>1
  <2> QED
    BY <2>1, <2>2
<1>17. \A t \in SeriesSessions \ {s} : j.op = "series" /\ job[t].op = "series" /\ j.sub \in SubIds
                                       => j.sub # job[t].sub
  BY <1>2, <1>11 DEF SeriesInv, OwnSub
<1> QED
  BY <1>10, <1>13, <1>14, <1>15, <1>16, <1>17, Moves DEF NoNewSeats

LEMMA AllUndone ==
  ASSUME SeriesInv, UNCHANGED outside, NEW s \in SeriesSessions, Undone(s)
  PROVE  SeriesInv'
<1>1. seriesAt[s] = "undo" /\ job[s].undone = {} /\ UNCHANGED <<seriesTables, job>>
  BY DEF Undone
<1>2. PICK p \in Jobs : p = job[s] /\ JobFits(p, "undo") /\ MadeFits(p, "undo")
  BY <1>1, Typed
<1>3. PICK step \in {"unsubscribe", "close"} : step = IF p.op = "series" THEN "unsubscribe" ELSE "close"
  OBVIOUS
<1>4. /\ job' = [job EXCEPT ![s] = p] /\ seriesAt' = [seriesAt EXCEPT ![s] = step] /\ step \in SeriesSteps
  BY <1>1, <1>2, <1>3 DEF Undone, SeriesGoto, SeriesInv, SeriesTypeOK, SeriesSteps
<1>5. JobFits(p, step) /\ MadeFits(p, step) /\ KeepsSub(s, p)
  BY <1>1, <1>2, <1>3 DEF JobFits, MadeFits, KeepsSub
<1> QED
  BY <1>1, <1>4, <1>5, Turns

LEMMA SubscriptionDeleted ==
  ASSUME SeriesInv, UNCHANGED outside, NEW s \in SeriesSessions, Unsubscribe(s)
  PROVE  SeriesInv'
<1>1. seriesAt[s] = "unsubscribe" /\ UNCHANGED <<scheduleActive, driverBusy, instance>> /\ SeriesReturn(s)
  BY DEF Unsubscribe
<1>2. PICK k \in SubIds : k = job[s].sub
  BY <1>1, Typed DEF JobFits
<1>3. subscription' = [subscription EXCEPT ![k].status = "deleted"]
  BY <1>2 DEF Unsubscribe
<1>4. subscription' \in [SubIds -> Subscriptions] /\ SubsGo
  BY <1>3, Typed DEF Subscriptions, SubStatus, SubsGo
<1>5. ASSUME NEW b \in SeatIds
      PROVE  /\ seat'[b] \in Seats
             /\ seat'[b].status = seat[b].status /\ seat'[b].ride = seat[b].ride
             /\ seat'[b].for = seat[b].for /\ seat'[b].owner = seat[b].owner
             /\ seat[b].status = "unused" => seat'[b] = seat[b]
  <2>1. seat[b] \in Seats /\ (seat[b].status = "unused" => seat[b].sub = NoRow)
    BY Typed DEF SeriesInv, SeatOK, NoSeat
  <2>2. CASE seat[b].sub = k
    <3>1. seat'[b] = [seat[b] EXCEPT !.sub = NoRow]
      BY <1>2, <2>2 DEF Unsubscribe
    <3> QED
      BY <2>1, <2>2, <3>1, NoneTypes DEF Seats
  <2>3. CASE seat[b].sub # k
    BY <1>2, <2>1, <2>3 DEF Unsubscribe
  <2> QED
    BY <2>2, <2>3
<1>6. seat' \in [SeatIds -> Seats]
  BY <1>5 DEF Unsubscribe
<1>7. InstancesGo /\ SeatsGo /\ NoNewRides /\ NoNewSeats
  BY <1>1, <1>5 DEF InstancesGo, SeatsGo, NoNewRides, NoNewSeats
<1> QED
  BY <1>1, <1>4, <1>6, <1>7, Typed, Ends

LEMMA SubscriptionClosed ==
  ASSUME SeriesInv, UNCHANGED outside, NEW s \in SeriesSessions, CloseSubscription(s)
  PROVE  SeriesInv'
<1>1. /\ seriesAt[s] = "close" /\ UNCHANGED <<scheduleActive, driverBusy, instance, seat>> /\ SeriesReturn(s)
  BY DEF CloseSubscription
<1>2. PICK k \in SubIds : k = job[s].sub
  BY <1>1, Typed DEF JobFits
<1>3. PICK status \in SubStatus :
        status = IF subscription[k].status = "deleted" THEN subscription[k].status ELSE "cancelled"
  BY Typed DEF Subscriptions, SubStatus
<1>4. subscription' = [subscription EXCEPT ![k].status = status]
  BY <1>2, <1>3 DEF CloseSubscription
<1>5. subscription' \in [SubIds -> Subscriptions] /\ SubsGo
  BY <1>3, <1>4, Typed DEF Subscriptions, SubsGo
<1>6. InstancesGo /\ SeatsGo /\ NoNewRides /\ NoNewSeats
  BY <1>1 DEF InstancesGo, SeatsGo, NoNewRides, NoNewSeats
<1> QED
  BY <1>1, <1>5, <1>6, Typed, Ends

LEMMA AllClosed ==
  ASSUME SeriesInv, UNCHANGED outside, NEW s \in SeriesSessions, CloseSubscriptions(s)
  PROVE  SeriesInv'
<1>1. /\ seriesAt[s] = "closeAll" /\ seriesAt' = [seriesAt EXCEPT ![s] = "purge"]
      /\ UNCHANGED <<scheduleActive, driverBusy, instance, seat, job>>
  BY DEF CloseSubscriptions, SeriesGoto
<1>2. PICK p \in Jobs : p = job[s] /\ JobFits(p, "closeAll")
  BY <1>1, Typed
<1>3. ASSUME NEW k \in SubIds
      PROVE  subscription'[k] \in Subscriptions
             /\ (subscription[k].status # "unused" => subscription'[k].status # "unused")
  <2>1. CASE subscription[k].status = "active"
    <3>1. subscription'[k] = [subscription[k] EXCEPT !.status = "cancelled"]
      BY <2>1 DEF CloseSubscriptions
    <3> QED
      BY <3>1, Typed DEF Subscriptions, SubStatus
  <2>2. CASE subscription[k].status # "active"
    BY <2>2, Typed DEF CloseSubscriptions
  <2> QED
    BY <2>1, <2>2
<1>4. subscription' \in [SubIds -> Subscriptions] /\ SubsGo
  BY <1>3 DEF CloseSubscriptions, SubsGo
<1>5. InstancesGo /\ SeatsGo /\ NoNewRides /\ NoNewSeats
  BY <1>1 DEF InstancesGo, SeatsGo, NoNewRides, NoNewSeats
<1>6. SeriesTypeOK' /\ job'[s] = p /\ seriesAt'[s] = "purge" /\ \A t \in SeriesSessions \ {s} : Still(t)
  BY <1>1, <1>2, <1>4 DEF SeriesInv, SeriesTypeOK, SeriesSteps, Still
<1>7. OneRidePerDate' /\ OneSeatPerDate' /\ \A b \in SeatIds : SeatOK(b)'
  BY <1>1, <1>4, <1>5, RidesKept, SeatsKept, SeatsStayOK DEF SeriesInv
<1>8. p.op # "series" /\ JobFits(p, "purge")' /\ MadeFits(p, "purge")'
  BY <1>1, <1>2, <1>4 DEF JobFits, MadeFits, SubsGo
<1> QED
  BY <1>4, <1>5, <1>6, <1>7, <1>8, Moves DEF NoNewSeats

LEMMA RidesPurged ==
  ASSUME SeriesInv, UNCHANGED outside, NEW s \in SeriesSessions, Purge(s)
  PROVE  SeriesInv'
<1>1. UNCHANGED <<scheduleActive, driverBusy, subscription>> /\ SeriesReturn(s)
  BY DEF Purge
<1>2. CASE UNCHANGED <<instance, seat>>
  BY <1>1, <1>2, SameGo, Typed, Ends
<1>3. CASE DropRides({r \in RideIds : instance[r].status = "open"})
  <2>1. PICK doomed \in SUBSET RideIds : doomed = {r \in RideIds : instance[r].status = "open"}
    OBVIOUS
  <2>2. DropRides(doomed)
    BY <1>3, <2>1
  <2>3. ASSUME NEW r \in RideIds
        PROVE  /\ instance'[r] \in Instances /\ instance'[r].date = instance[r].date
               /\ r \notin doomed => instance'[r] = instance[r]
               /\ r \in doomed => instance[r].status = "open" /\ instance'[r].status = "deleted"
    <3>1. CASE r \in doomed
      <4>1. instance'[r] = [instance[r] EXCEPT !.status = "deleted"]
        BY <2>2, <3>1 DEF DropRides
      <4> QED
        BY <2>1, <3>1, <4>1, Typed DEF Instances, InstanceStatus
    <3>2. CASE r \notin doomed
      BY <2>2, <3>2, Typed DEF DropRides
    <3> QED
      BY <3>1, <3>2
  <2>4. instance' \in [RideIds -> Instances]
    BY <2>2, <2>3 DEF DropRides
  <2>5. InstancesGo /\ NoNewRides
    BY <2>3 DEF InstancesGo, NoNewRides, Holding
  <2>6. ASSUME NEW b \in SeatIds
        PROVE  /\ seat'[b] \in Seats /\ seat'[b].ride = seat[b].ride
               /\ seat'[b].for = seat[b].for /\ seat'[b].owner = seat[b].owner
               /\ seat'[b].status \in {seat[b].status, "deleted"}
               /\ seat[b].status = "unused" => seat'[b] = seat[b]
    <3>1. seat[b] \in Seats /\ (seat[b].status = "unused" => seat[b].ride \notin doomed)
      BY Typed, NoneTypes DEF SeriesInv, SeatOK, NoSeat
    <3>2. CASE seat[b].ride \in doomed
      <4>1. seat'[b] = [seat[b] EXCEPT !.status = "deleted", !.sub = NoRow]
        BY <2>2, <3>2 DEF DropRides
      <4> QED
        BY <3>1, <3>2, <4>1, NoneTypes DEF Seats, SeatStatus
    <3>3. CASE seat[b].ride \notin doomed
      BY <2>2, <3>1, <3>3 DEF DropRides
    <3> QED
      BY <3>2, <3>3
  <2>7. seat' \in [SeatIds -> Seats]
    BY <2>2, <2>6 DEF DropRides
  <2>8. SubsGo /\ SeatsGo /\ NoNewSeats
    BY <1>1, <2>6 DEF SubsGo, SeatsGo, NoNewSeats
  <2> QED
    BY <1>1, <2>4, <2>5, <2>7, <2>8, Typed, Ends
<1> QED
  BY <1>2, <1>3 DEF Purge


-----------------------------------------------------------------------------
(* What other endpoints do.                                                  *)

LEMMA OthersMove ==
  ASSUME SeriesInv, SeriesTypeOK', OneRidePerDate', OneSeatPerDate', InstancesGo, SubsGo, SeatsGo,
         \A b \in SeatIds : SeatOK(b)', UNCHANGED <<seriesAt, job>>,
         \A b \in SeatIds : seat[b].status = "unused" => seat'[b] = seat[b] \/ seat'[b].for = NoRow
  PROVE  SeriesInv'
<1>1. ASSUME NEW t \in SeriesSessions PROVE RequestOK(t)'
  <2>1. Still(t)
    BY DEF Still
  <2>2. \A b \in SeatIds : seat[b].status = "unused" => seat[b].for = NoRow
    BY DEF SeriesInv, SeatOK, NoSeat
  <2>3. \A b \in SeatIds : seat[b].status = "unused" /\ seat'[b].status # "unused"
                           => ~(job[t].op = "series" /\ job[t].sub \in SubIds /\ seat'[b].for = job[t].sub)
    BY NoneTypes
  <2> QED
    BY <2>1, <2>2, <2>3, OthersStay
<1>2. \A t, u \in SeriesSessions : t # u => OwnSub(t, u)'
  BY DEF OwnSub, SeriesInv
<1> QED
  BY <1>1, <1>2 DEF SeriesInv

LEMMA OthersAct ==
  ASSUME SeriesInv, Others
  PROVE  SeriesInv'
<1>1. outside' \in 0 .. MaxOutside
  BY OutsideAssumption DEF Others, SeriesInv, SeriesTypeOK
<1>2. ASSUME NEW d \in Dates, PublishOther(d) \/ WithdrawOther(d),
             UNCHANGED <<scheduleActive, instance, subscription, seat, seriesAt, job>>
      PROVE  SeriesInv'
  <2>1. InstancesGo /\ SubsGo /\ SeatsGo /\ NoNewRides /\ NoNewSeats
    BY <1>2, SameGo
  <2>2. SeriesTypeOK'
    BY <1>1, <1>2 DEF SeriesInv, SeriesTypeOK, PublishOther, WithdrawOther
  <2>3. OneSeatPerDate' /\ \A b \in SeatIds : SeatOK(b)'
    BY <2>1, SeatsKept, SeatsStayOK
  <2>4. OneRidePerDate'
    <3>1. CASE PublishOther(d)
      <4>1. \A r \in RidesOn(d) : instance[r].status \notin Holding
        BY <3>1 DEF PublishOther, SlotHeld
      <4> QED
        BY <1>2, <3>1, <4>1 DEF PublishOther, SeriesInv, OneRidePerDate, RidesOn
    <3>2. CASE WithdrawOther(d)
      BY <1>2, <2>1, <3>2, RidesKept DEF WithdrawOther, SeriesInv
    <3> QED
      BY <1>2, <3>1, <3>2
  <2> QED
    BY <1>2, <2>1, <2>2, <2>3, <2>4, OthersMove DEF NoNewSeats
<1>3. ASSUME NEW r \in RideIds, NEW new \in {"started", "cancelled"}, SetInstance(r, new),
             UNCHANGED <<scheduleActive, driverBusy, subscription, seat, seriesAt, job>>
      PROVE  SeriesInv'
  <2>1. /\ instance' \in [RideIds -> Instances] /\ instance'[r] = [instance[r] EXCEPT !.status = new]
        /\ \A q \in RideIds : q # r => instance'[q] = instance[q]
    BY <1>3, Typed DEF SetInstance, Instances, InstanceStatus
  <2>2. instance'[r].status = new /\ instance'[r].date = instance[r].date /\ instance[r].status = "open"
    BY <1>3, <2>1, Typed DEF SetInstance, Instances
  <2>3. InstancesGo /\ SubsGo /\ SeatsGo /\ NoNewRides /\ NoNewSeats
    BY <1>3, <2>1, <2>2 DEF InstancesGo, SubsGo, SeatsGo, NoNewRides, NoNewSeats, Holding
  <2>4. SeriesTypeOK'
    BY <1>1, <1>3, <2>1 DEF SeriesInv, SeriesTypeOK
  <2>5. OneRidePerDate' /\ OneSeatPerDate' /\ \A b \in SeatIds : SeatOK(b)'
    BY <1>3, <2>3, RidesKept, SeatsKept, SeatsStayOK DEF SeriesInv
  <2> QED
    BY <1>3, <2>3, <2>4, <2>5, OthersMove DEF NoNewSeats
<1>4. ASSUME NEW p \in Passengers, NEW r \in RideIds, BookAlone(p, r),
             UNCHANGED <<scheduleActive, driverBusy, instance, subscription, seriesAt, job>>
      PROVE  SeriesInv'
  <2> DEFINE row == [NoSeat EXCEPT !.status = "active", !.owner = p, !.ride = r]
  <2>1. PICK b \in FreshSeats : seat' = [seat EXCEPT ![b] = row]
    BY <1>4 DEF BookAlone
  <2>2. b \in SeatIds /\ seat[b].status = "unused"
    BY FreshTypes
  <2>3. row \in Seats /\ row.status = "active" /\ row.owner = p /\ row.ride = r /\ row.for = NoRow
    BY NoneTypes DEF NoSeat, Seats, SeatStatus
  <2> HIDE DEF row
  <2>4. LiveSeats(p, instance[r].date) = {} /\ instance[r].status # "unused"
    BY <1>4 DEF BookAlone
  <2>5. /\ seat' \in [SeatIds -> Seats] /\ seat'[b] = row
        /\ \A c \in SeatIds : c # b => seat'[c] = seat[c]
        /\ SeatsGo /\ OneSeatPerDate' /\ \A c \in SeatIds : SeatOK(c)'
    BY <1>4, <2>1, <2>2, <2>3, <2>4, NoneTypes, SeatAdded
  <2>6. SeriesTypeOK'
    BY <1>1, <1>4, <2>5 DEF SeriesInv, SeriesTypeOK
  <2>7. InstancesGo /\ SubsGo /\ NoNewRides /\ OneRidePerDate'
    BY <1>4, RidesKept DEF InstancesGo, SubsGo, NoNewRides, SeriesInv
  <2> QED
    BY <1>4, <2>3, <2>5, <2>6, <2>7, OthersMove
<1>5. ASSUME NEW b \in SeatIds, CancelAlone(b),
             UNCHANGED <<scheduleActive, driverBusy, instance, subscription, seriesAt, job>>
      PROVE  SeriesInv'
  <2>1. /\ seat' \in [SeatIds -> Seats] /\ seat'[b] = [seat[b] EXCEPT !.status = "cancelled"]
        /\ \A c \in SeatIds : c # b => seat'[c] = seat[c]
    BY <1>5, Typed DEF CancelAlone, Seats, SeatStatus
  <2>2. /\ seat'[b].status = "cancelled" /\ seat'[b].ride = seat[b].ride /\ seat[b].status = "active"
        /\ seat'[b].for = seat[b].for /\ seat'[b].owner = seat[b].owner
    BY <1>5, <2>1, Typed DEF CancelAlone, Seats
  <2>3. InstancesGo /\ SubsGo /\ SeatsGo /\ NoNewRides /\ NoNewSeats
    BY <1>5, <2>1, <2>2 DEF InstancesGo, SubsGo, SeatsGo, NoNewRides, NoNewSeats
  <2>4. SeriesTypeOK'
    BY <1>1, <1>5, <2>1 DEF SeriesInv, SeriesTypeOK
  <2>5. OneRidePerDate' /\ OneSeatPerDate' /\ \A c \in SeatIds : SeatOK(c)'
    BY <1>5, <2>3, RidesKept, SeatsKept, SeatsStayOK DEF SeriesInv
  <2> QED
    BY <1>5, <2>3, <2>4, <2>5, OthersMove DEF NoNewSeats
<1> QED
  BY <1>2, <1>3, <1>4, <1>5 DEF Others, OtherEndpoint

-----------------------------------------------------------------------------
(* The theorems.                                                             *)

LEMMA SeriesStarts ==
  ASSUME SeriesInit
  PROVE  SeriesInv
<1>1. SeriesTypeOK
  BY NoneTypes, OutsideAssumption DEF SeriesInit, SeriesTypeOK, SeriesSteps
<1>2. \A r \in RideIds : instance[r].status = "unused"
  BY DEF SeriesInit, NoInstance
<1>3. \A b \in SeatIds : seat[b] = NoSeat /\ seat[b].status = "unused" /\ seat[b].for \notin SubIds
  BY NoneTypes DEF SeriesInit, NoSeat
<1>4. OneRidePerDate /\ OneSeatPerDate /\ \A b \in SeatIds : SeatOK(b)
  BY <1>2, <1>3 DEF OneRidePerDate, RidesOn, OneSeatPerDate, LiveSeats, Live, SeatOK
<1>5. ASSUME NEW s \in SeriesSessions
      PROVE  job[s] = NoJob /\ job[s].op # "series" /\ RequestOK(s)
  <2>1. job[s] = NoJob /\ seriesAt[s] = "idle"
    BY DEF SeriesInit
  <2>2. NoJob.op # "series" /\ NoJob.sub \notin SubIds /\ NoJob.subs = {}
    BY NoneTypes DEF AllSeriesOps
  <2>3. JobFits(NoJob, "idle") /\ MadeFits(NoJob, "idle")
    BY <2>2 DEF JobFits, MadeFits
  <2> QED
    BY <2>1, <2>2, <2>3 DEF RequestOK
<1> QED
  BY <1>1, <1>4, <1>5 DEF SeriesInv, OwnSub

LEMMA EveryStep ==
  ASSUME SeriesInv, [SeriesNext]_seriesVars
  PROVE  SeriesInv'
<1>1. CASE UNCHANGED seriesVars
  <2>1. InstancesGo /\ SubsGo /\ SeatsGo /\ NoNewRides /\ NoNewSeats
    BY <1>1, SameGo DEF seriesVars, seriesTables
  <2>2. SeriesTypeOK'
    BY <1>1 DEF SeriesInv, SeriesTypeOK, seriesVars, seriesTables
  <2>3. OneRidePerDate' /\ OneSeatPerDate' /\ \A b \in SeatIds : SeatOK(b)'
    BY <1>1, <2>1, RidesKept, SeatsKept, SeatsStayOK DEF SeriesInv, seriesVars, seriesTables
  <2> QED
    BY <1>1, <2>1, <2>2, <2>3, OthersMove DEF NoNewSeats, seriesVars
<1>2. CASE Others
  BY <1>2, OthersAct
<1>3. ASSUME NEW s \in SeriesSessions, SeriesWork(s) PROVE SeriesInv'
  <2>1. UNCHANGED outside
    BY <1>3 DEF SeriesWork
  <2>2. CASE BeginJob(s)
    BY <2>1, <2>2, SeriesBegins, ResolveBegins, CancelBegins, NightlyBegins, HomeBegins, DriverBegins DEF BeginJob
  <2>3. CASE Subscribe(s) \/ Find(s) \/ CreateInstance(s) \/ FanOut(s) \/ Ensure(s)
    BY <2>1, <2>3, Subscribed, RideFound, InstanceCreated, FannedOut, Ensured
  <2>4. CASE BookSeat(s) \/ LinkSeat(s) \/ Resume(s) \/ Undo(s) \/ Undone(s)
    BY <2>1, <2>4, SeatBooked, SeatLinked, Resumed, SeatUndone, AllUndone
  <2>5. CASE Unsubscribe(s) \/ CloseSubscription(s) \/ CloseSubscriptions(s) \/ Purge(s)
    BY <2>1, <2>5, SubscriptionDeleted, SubscriptionClosed, AllClosed, RidesPurged
  <2> QED
    BY <1>3, <2>2, <2>3, <2>4, <2>5 DEF SeriesWork, SeriesStep
<1> QED
  BY <1>1, <1>2, <1>3 DEF SeriesNext

LEMMA SeriesInvariant == SeriesSpec => []SeriesInv
<1>1. SeriesInit => SeriesInv
  BY SeriesStarts
<1>2. SeriesInv /\ [SeriesNext]_seriesVars => SeriesInv'
  BY EveryStep
<1> QED
  BY <1>1, <1>2, PTL DEF SeriesSpec

\* Rows and requests of recurring schedules keep the shape of the models.
THEOREM SeriesTypes == SeriesSpec => []SeriesTypeOK
<1>1. SeriesInv => SeriesTypeOK
  BY DEF SeriesInv
<1> QED
  BY <1>1, SeriesInvariant, PTL

\* However many requests and jobs materialize the dates of a schedule, and
\* whatever else the driver publishes, one ride of his has each slot.
THEOREM OneRideAlways == SeriesSpec => []OneRidePerDate
<1>1. SeriesInv => OneRidePerDate
  BY DEF SeriesInv
<1> QED
  BY <1>1, SeriesInvariant, PTL

\* Series bookings, the nightly job, resolve requests and single bookings
\* seat a passenger once in a slot, whatever their number and order.
THEOREM OneSeatAlways == SeriesSpec => []OneSeatPerDate
<1>1. SeriesInv => OneSeatPerDate
  BY DEF SeriesInv
<1> QED
  BY <1>1, SeriesInvariant, PTL

\* Only a refused series request deletes a subscription.
LEMMA DeletedByUnsubscribe ==
  ASSUME SeriesInv, [SeriesNext]_seriesVars, NEW k \in SubIds,
         subscription[k].status = "active", subscription'[k].status = "deleted"
  PROVE  \E s \in SeriesSessions : Unsubscribe(s) /\ k = job[s].sub
<1>1. ~UNCHANGED subscription
  OBVIOUS
<1>2. PICK s \in SeriesSessions : SeriesWork(s)
  BY <1>1 DEF SeriesNext, Others, OtherEndpoint, seriesVars, seriesTables
<1>3. ~BeginJob(s)
  BY <1>1 DEF BeginJob, BeginSeries, BeginResolve, BeginCancel, BeginNightly, BeginHome, BeginUpdate, Deactivate,
              Start, seriesTables
<1>4. Subscribe(s) \/ Unsubscribe(s) \/ CloseSubscription(s) \/ CloseSubscriptions(s)
  BY <1>1, <1>2, <1>3 DEF SeriesWork, SeriesStep, Find, CreateInstance, FanOut, Ensure, BookSeat, LinkSeat,
                          Resume, Undo, Undone, Purge, seriesTables
<1>5. ~Subscribe(s)
  <2>1. ASSUME Subscribe(s) PROVE FALSE
    <3>1. PICK i \in FreshSubs :
            subscription' = [subscription EXCEPT ![i] = [status |-> "active", owner |-> job[s].owner]]
      BY <1>1, <2>1 DEF Subscribe
    <3>2. subscription'[k].status = "active"
      BY <3>1, Typed
    <3> QED
      BY <3>2
  <2> QED
    BY <2>1
<1>6. ~CloseSubscription(s)
  <2>1. ASSUME CloseSubscription(s) PROVE FALSE
    <3>1. PICK i : subscription' = [subscription EXCEPT ![i].status =
                                      IF subscription[i].status = "deleted" THEN "deleted" ELSE "cancelled"]
      BY <2>1 DEF CloseSubscription
    <3>2. subscription'[k].status \in {"active", "cancelled"}
      BY <3>1, Typed DEF Subscriptions
    <3> QED
      BY <3>2
  <2> QED
    BY <2>1
<1>7. ~CloseSubscriptions(s)
  <2>1. ASSUME CloseSubscriptions(s) PROVE FALSE
    <3>1. subscription'[k] = [subscription[k] EXCEPT !.status = "cancelled"]
      BY <2>1 DEF CloseSubscriptions
    <3>2. subscription'[k].status = "cancelled"
      BY <3>1, Typed DEF Subscriptions
    <3> QED
      BY <3>2
  <2> QED
    BY <2>1
<1>8. Unsubscribe(s)
  BY <1>4, <1>5, <1>6, <1>7
<1>9. k = job[s].sub
  BY <1>8, Typed DEF Unsubscribe, Subscriptions
<1> QED
  BY <1>8, <1>9

\* A refused series is undone whole: its subscription is deleted only when no
\* seat the request made is active, except on a ride that started.
THEOREM RefusalsUndone == SeriesSpec => RefusalUndoesTheSeries
<1>1. ASSUME SeriesInv, [SeriesNext]_seriesVars, NEW k \in SubIds,
             subscription[k].status = "active", subscription'[k].status = "deleted",
             NEW b \in SeatIds, seat'[b].for = k, seat'[b].status = "active"
      PROVE  instance'[seat'[b].ride].status = "started"
  <2>1. PICK s \in SeriesSessions : Unsubscribe(s) /\ k = job[s].sub
    BY <1>1, DeletedByUnsubscribe
  <2>2. PICK p \in Jobs : p = job[s] /\ JobFits(p, "unsubscribe") /\ MadeFits(p, "unsubscribe")
    BY <1>1, <2>1, Typed DEF Unsubscribe
  <2>3. seat'[b].status = seat[b].status /\ seat'[b].ride = seat[b].ride /\ seat'[b].for = seat[b].for
    <3>1. seat'[b] \in {seat[b], [seat[b] EXCEPT !.sub = NoRow]}
      BY <2>1 DEF Unsubscribe
    <3> QED
      BY <1>1, <3>1, Typed DEF Seats
  <2>4. instance[seat[b].ride].status = "started"
    BY <1>1, <2>1, <2>2, <2>3 DEF JobFits, MadeFits
  <2> QED
    BY <2>1, <2>3, <2>4 DEF Unsubscribe
<1>2. SeriesInv /\ [SeriesNext]_seriesVars
      => \A k \in SubIds :
           subscription[k].status = "active" /\ subscription'[k].status = "deleted"
           => \A b \in SeatIds : seat'[b].for = k /\ seat'[b].status = "active"
                                  => instance'[seat'[b].ride].status = "started"
  BY <1>1
<1> QED
  BY <1>2, SeriesInvariant, PTL DEF SeriesSpec, RefusalUndoesTheSeries
=============================================================================
