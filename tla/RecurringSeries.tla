-------------------------- MODULE RecurringSeries --------------------------
(***************************************************************************)
(* Recurring schedules and the passengers subscribed to them               *)
(* (backend/app/modules/rides/service_v2.py, crud_v2.py).  One schedule of *)
(* a driver promises a ride on each of its dates; a ride row appears when  *)
(* a request first needs it ("materialize"), and a passenger may book the  *)
(* whole series.  A request is a chain of commits: the subscription, then  *)
(* for each date the ride, the seat and the link between seat and          *)
(* subscription; a refusal on one date is compensated by cancelling what   *)
(* was made.  The nightly job, the driver's own cancellations and edits    *)
(* and the passenger's single bookings run between those commits.          *)
(***************************************************************************)
EXTENDS Integers, FiniteSetsExt

CONSTANTS
  Dates,          \* dates of the schedule, all of them to come
  Passengers,
  RideIds,        \* primary keys of `rides`: bound the rides of the schedule
  SubIds,         \* primary keys of recurring_schedule_subscriptions
  SeatIds,        \* primary keys of `ride_bookings`
  SeriesSessions, \* requests: each serves one job and is then "done"
  SeriesOps,      \* the jobs they perform, a subset of AllSeriesOps
  MaxOutside,     \* bound on what other endpoints do to these rows
  NoRow           \* no row, NULL in a foreign key

AllSeriesOps == {"series", "resolve", "home", "nightly", "cancel", "deactivate", "update"}

ASSUME DatesAssumption     == Dates \subseteq Nat /\ Dates # {}
ASSUME SeriesOpsAssumption == SeriesOps \subseteq AllSeriesOps
ASSUME OutsideAssumption   == MaxOutside \in Nat
ASSUME NoRowAssumption     == NoRow \notin RideIds \cup SubIds \cup SeatIds \cup Passengers \cup AllSeriesOps

VARIABLES
  scheduleActive, \* recurring_schedules.is_active
  driverBusy,     \* dates on which another ride of the driver has the slot
  instance,       \* rides materialized from the schedule
  subscription,   \* rows of recurring_schedule_subscriptions
  seat,           \* the passengers' rows of ride_bookings on those rides
  seriesAt,       \* next statement of each request
  job,            \* its local variables
  outside         \* what other endpoints have done so far

seriesTables == <<scheduleActive, driverBusy, instance, subscription, seat>>
seriesVars   == <<seriesTables, seriesAt, job, outside>>

InstanceStatus == {"unused", "open", "started", "cancelled", "deleted"}
Instances == [status : InstanceStatus, date : Nat]
NoInstance == [status |-> "unused", date |-> 0]

SubStatus == {"unused", "active", "cancelled", "deleted"}
Subscriptions == [status : SubStatus, owner : Passengers \cup {NoRow}]
NoSubscription == [status |-> "unused", owner |-> NoRow]

\* `for` is history: the subscription whose own series request made the seat.
SeatStatus == {"unused", "active", "cancelled", "deleted"}
Seats == [status : SeatStatus, owner : Passengers \cup {NoRow},
          ride : RideIds \cup {NoRow}, sub : SubIds \cup {NoRow}, for : SubIds \cup {NoRow}]
NoSeat == [status |-> "unused", owner |-> NoRow, ride |-> NoRow, sub |-> NoRow, for |-> NoRow]

SeriesSteps == {"idle", "subscribe", "find", "create", "fan", "ensure", "book", "link",
                "resume", "undo", "unsubscribe", "close", "closeAll", "purge", "done"}

\* `seen` holds the rides the session loaded while open: its copies stay so.
Jobs == [op : AllSeriesOps \cup {NoRow}, owner : Passengers \cup {NoRow},
         sub : SubIds \cup {NoRow}, subs : SUBSET SubIds, todo : SUBSET Dates,
         ride : RideIds \cup {NoRow}, seen : SUBSET RideIds,
         seat : SeatIds \cup {NoRow}, made : SUBSET SeatIds, undone : SUBSET SeatIds]
NoJob == [op |-> NoRow, owner |-> NoRow, sub |-> NoRow, subs |-> {}, todo |-> {},
          ride |-> NoRow, seen |-> {}, seat |-> NoRow, made |-> {}, undone |-> {}]

-----------------------------------------------------------------------------
Holding == {"open", "started"}      \* statuses that occupy the driver's slot
RidesOn(d) == {r \in RideIds : instance[r].date = d
                               /\ instance[r].status \notin {"unused", "deleted"}}
SlotHeld(d) == d \in driverBusy \/ \E r \in RidesOn(d) : instance[r].status \in Holding

Live(b) == seat[b].status = "active" /\ instance[seat[b].ride].status \in Holding
LiveSeats(p, d) == {b \in SeatIds : Live(b) /\ seat[b].owner = p
                                     /\ instance[seat[b].ride].date = d}

\* crud_v2.get_active_subscription_booking_for_ride
Linked(k, r) == {b \in SeatIds : seat[b].status = "active" /\ seat[b].sub = k /\ seat[b].ride = r}
\* crud_v2.get_active_passenger_booking_for_ride
Booked(p, r) == {b \in SeatIds : seat[b].status = "active" /\ seat[b].owner = p /\ seat[b].ride = r}
\* crud_v2.find_next_active_ride_for_subscription, ..._for_schedule
HasNext(k) == \E b \in SeatIds : seat[b].sub = k /\ Live(b)
ScheduleHasNext == \E r \in RideIds : instance[r].status \in Holding

\* A key no row uses yet; which one makes no difference.
Fresh(keys) == IF keys = {} THEN {} ELSE {CHOOSE k \in keys : TRUE}
FreshRides == Fresh({r \in RideIds : instance[r].status = "unused"})
FreshSubs  == Fresh({k \in SubIds : subscription[k].status = "unused"})
FreshSeats == Fresh({b \in SeatIds : seat[b].status = "unused"})

SeriesInit ==
  /\ scheduleActive = TRUE
  /\ driverBusy = {}
  /\ instance = [r \in RideIds |-> NoInstance]
  /\ subscription = [k \in SubIds |-> NoSubscription]
  /\ seat = [b \in SeatIds |-> NoSeat]
  /\ seriesAt = [s \in SeriesSessions |-> "idle"]
  /\ job = [s \in SeriesSessions |-> NoJob]
  /\ outside = 0

SeriesGoto(s, step) == seriesAt' = [seriesAt EXCEPT ![s] = step]

\* The answer is given, or the request died: its local variables are gone.
SeriesReturn(s) == SeriesGoto(s, "done") /\ job' = [job EXCEPT ![s] = NoJob]

-----------------------------------------------------------------------------
(* The requests, up to their first write.                                    *)

Start(s, fields, step) ==
  /\ seriesAt[s] = "idle"
  /\ job' = [job EXCEPT ![s] = fields]
  /\ SeriesGoto(s, step)
  /\ UNCHANGED seriesTables

\* The schedule is active and the passenger has no active subscription to it:
\* both are read before any lock is taken.
BeginSeries(s, p) ==
  /\ "series" \in SeriesOps /\ scheduleActive
  /\ ~\E k \in SubIds : subscription[k].status = "active" /\ subscription[k].owner = p
  /\ Start(s, [NoJob EXCEPT !.op = "series", !.owner = p, !.todo = Dates], "subscribe")

\* A tap on the card, or the home list, of a passenger's subscription.
BeginResolve(s, k) ==
  /\ "resolve" \in SeriesOps /\ scheduleActive /\ subscription[k].status = "active"
  /\ Start(s, [NoJob EXCEPT !.op = "resolve", !.owner = subscription[k].owner,
                            !.sub = k, !.todo = Dates], "resume")

\* The driver's home list or card.
BeginHome(s) ==
  /\ "home" \in SeriesOps /\ scheduleActive
  /\ Start(s, [NoJob EXCEPT !.op = "home", !.todo = Dates], "resume")

\* The materialization job, for one target date.
BeginNightly(s, d) ==
  /\ "nightly" \in SeriesOps /\ scheduleActive
  /\ Start(s, [NoJob EXCEPT !.op = "nightly", !.todo = {d}], "find")

\* Cancelling a subscription lists its seats on open rides first.
BeginCancel(s, k) ==
  LET future == {b \in SeatIds : seat[b].sub = k /\ Live(b)
                                  /\ instance[seat[b].ride].status = "open"} IN
  /\ "cancel" \in SeriesOps /\ subscription[k].status = "active"
  /\ Start(s, [NoJob EXCEPT !.op = "cancel", !.owner = subscription[k].owner,
                            !.sub = k, !.made = future, !.undone = future], "undo")

\* The driver edits the schedule, its is_active included, and leaves the
\* subscriptions alone; generated open rides are purged.
BeginUpdate(s) ==
  /\ "update" \in SeriesOps /\ seriesAt[s] = "idle"
  /\ scheduleActive' \in BOOLEAN
  /\ job' = [job EXCEPT ![s] = [NoJob EXCEPT !.op = "update"]]
  /\ SeriesGoto(s, "purge")
  /\ UNCHANGED <<driverBusy, instance, subscription, seat>>

\* The first commit of deactivate_user_schedule_service.
Deactivate(s) ==
  /\ "deactivate" \in SeriesOps /\ seriesAt[s] = "idle"
  /\ scheduleActive' = FALSE
  /\ job' = [job EXCEPT ![s] = [NoJob EXCEPT !.op = "deactivate"]]
  /\ SeriesGoto(s, "closeAll")
  /\ UNCHANGED <<driverBusy, instance, subscription, seat>>

-----------------------------------------------------------------------------
(* Booking the series.                                                       *)

\* The advisory lock of the passenger's bookings is held from the overlap
\* checks to the commit of the subscription, and no longer.
Subscribe(s) ==
  /\ seriesAt[s] = "subscribe"
  /\ IF \E d \in Dates : LiveSeats(job[s].owner, d) # {}
       THEN SeriesReturn(s) /\ UNCHANGED subscription
       ELSE \E k \in FreshSubs :
              /\ subscription' = [subscription EXCEPT ![k] = [status |-> "active",
                                                              owner |-> job[s].owner]]
              /\ job' = [job EXCEPT ![s].sub = k]
              /\ SeriesGoto(s, "find")
  /\ UNCHANGED <<scheduleActive, driverBusy, instance, seat>>

Today(s) == Min(job[s].todo)

\* Variant: the date is looked at again.
TodayAgain(s) == job[s].todo

Tomorrow(s) == job[s].todo \ {Today(s)}

\* The loops move on to the next date.  A series whose dates are done looks
\* for the next ride to report, as the resolve requests do.
NextDate(s, j) ==
  IF j.op = "series" /\ j.todo # {}
    THEN SeriesGoto(s, "find") /\ job' = [job EXCEPT ![s] = j]
    ELSE /\ SeriesGoto(s, "resume")
         /\ job' = [job EXCEPT ![s] =
              IF j.op = "series" THEN [j EXCEPT !.op = "resolve", !.todo = Dates] ELSE j]

\* The ride of the date is at hand.
Found(s, r, open) ==
  LET seenNow == IF open THEN job[s].seen \cup {r} ELSE job[s].seen
      j == [job[s] EXCEPT !.ride = r, !.seen = seenNow, !.todo = Tomorrow(s)] IN
  CASE job[s].op = "home"    -> NextDate(s, j)
    [] job[s].op = "nightly" -> SeriesGoto(s, "fan") /\ job' = [job EXCEPT ![s] = j]
    [] OTHER                 -> SeriesGoto(s, "ensure") /\ job' = [job EXCEPT ![s] = j]

\* crud_v2.get_materialized_ride_for_schedule_date: a row of any status.
Find(s) ==
  /\ seriesAt[s] = "find"
  /\ IF RidesOn(Today(s)) = {}
       THEN SeriesGoto(s, "create") /\ UNCHANGED job
       ELSE \E r \in RidesOn(Today(s)) : Found(s, r, instance[r].status = "open")
  /\ UNCHANGED seriesTables

\* Variant: the insert is not checked against the driver's other rides.
CreateUnchecked(s) ==
  /\ seriesAt[s] = "create"
  /\ \E r \in FreshRides :
       /\ instance' = [instance EXCEPT ![r] = [status |-> "open", date |-> Today(s)]]
       /\ Found(s, r, TRUE)
  /\ UNCHANGED <<scheduleActive, driverBusy, subscription, seat>>

\* crud_v2.create_ride.  When the database refuses the row (another ride
\* has the slot) the rollback expires schedule and subscription; the next
\* attribute read raises and the request dies where it stands.
CreateInstance(s) ==
  /\ seriesAt[s] = "create"
  /\ IF SlotHeld(Today(s))
       THEN SeriesReturn(s) /\ UNCHANGED instance
       ELSE \E r \in FreshRides :
              /\ instance' = [instance EXCEPT ![r] = [status |-> "open", date |-> Today(s)]]
              /\ Found(s, r, TRUE)
  /\ UNCHANGED <<scheduleActive, driverBusy, subscription, seat>>

\* The nightly job lists the subscriptions of the date and serves each.
FanOut(s) ==
  /\ seriesAt[s] = "fan"
  /\ job' = [job EXCEPT ![s].subs = {k \in SubIds : subscription[k].status = "active"}]
  /\ SeriesGoto(s, "resume")
  /\ UNCHANGED seriesTables

\* One seat is settled: the next subscription, or the next date.
SeatDone(s, j) == NextDate(s, [j EXCEPT !.seat = NoRow, !.ride = IF j.op = "nightly" THEN @ ELSE NoRow])

\* Variant: the seat is not remembered.
RecordForgotten(j, b) == j

\* created_booking_ids
Record(j, b) == [j EXCEPT !.made = @ \cup {b}]

\* A seat linked to the subscription is taken as it is.
Ensure(s) ==
  LET linked == Linked(job[s].sub, job[s].ride) IN
  /\ seriesAt[s] = "ensure"
  /\ IF linked = {}
       THEN SeriesGoto(s, "book") /\ UNCHANGED job
       ELSE \E b \in linked : SeatDone(s, Record(job[s], b))
  /\ UNCHANGED seriesTables

\* Any HTTPException of the booking: the series is undone; the nightly job
\* goes on, and so does a resolve request, without looking for its ride.
Refused(s) ==
  CASE job[s].op = "series"  -> SeriesGoto(s, "undo") /\ job' = [job EXCEPT ![s].undone = job[s].made]
    [] job[s].op = "nightly" -> SeatDone(s, job[s])
    [] OTHER -> IF job[s].todo = {} THEN SeriesReturn(s) ELSE SeriesGoto(s, "find") /\ UNCHANGED job

\* Variant: the overlap check is left out.
BookUnchecked(s) ==
  LET p == job[s].owner  r == job[s].ride IN
  /\ seriesAt[s] = "book"
  /\ \/ Refused(s) /\ UNCHANGED seat
     \/ \E b \in FreshSeats :
          /\ r \in job[s].seen /\ instance[r].status # "deleted"
          /\ seat' = [seat EXCEPT ![b] = [status |-> "active", owner |-> p, ride |-> r, sub |-> NoRow,
                                          for |-> IF job[s].op = "series" THEN job[s].sub ELSE NoRow]]
          /\ job' = [job EXCEPT ![s].seat = b]
          /\ SeriesGoto(s, "link")
  /\ UNCHANGED <<scheduleActive, driverBusy, instance, subscription>>

\* rides_service.book_ride_service, which holds the passenger's lock from the
\* overlap check to its commit (RideBooking has its steps).  The copy of the
\* ride it checks is the session's; seats or the detour may refuse it too.
\* A refusal that names an active seat of the passenger on this very ride
\* is no refusal: the seat is adopted.
BookSeat(s) ==
  LET p == job[s].owner
      r == job[s].ride
      mine == LiveSeats(p, instance[r].date) IN
  /\ seriesAt[s] = "book"
  /\ \/ Refused(s) /\ UNCHANGED seat
     \/ \E b \in Booked(p, r) :
          /\ b \in mine \/ (mine = {} /\ r \in job[s].seen)
          /\ job' = [job EXCEPT ![s].seat = b]
          /\ SeriesGoto(s, "link") /\ UNCHANGED seat
     \/ /\ mine = {} /\ Booked(p, r) = {}
        /\ r \in job[s].seen /\ instance[r].status # "deleted"
        /\ \E b \in FreshSeats :
             /\ seat' = [seat EXCEPT ![b] = [status |-> "active", owner |-> p, ride |-> r, sub |-> NoRow,
                                             for |-> IF job[s].op = "series" THEN job[s].sub ELSE NoRow]]
             /\ job' = [job EXCEPT ![s].seat = b]
             /\ SeriesGoto(s, "link")
  /\ UNCHANGED <<scheduleActive, driverBusy, instance, subscription>>

\* crud_v2.set_booking_subscription.  The foreign key refuses a subscription
\* deleted meanwhile, and the session is then of no use; a seat deleted
\* meanwhile is not updated.
LinkSeat(s) ==
  LET b == job[s].seat  k == job[s].sub IN
  /\ seriesAt[s] = "link"
  /\ IF subscription[k].status = "deleted" /\ seat[b].status # "deleted"
       THEN SeriesReturn(s) /\ UNCHANGED seat
       ELSE /\ seat' = [seat EXCEPT ![b].sub = IF seat[b].status = "deleted" THEN @ ELSE k]
            /\ SeatDone(s, Record(job[s], b))
  /\ UNCHANGED <<scheduleActive, driverBusy, instance, subscription>>

\* The nightly job turns to one more subscription; the resolve requests stop
\* at the first ride they have, or after the last date.
Resume(s) ==
  LET j == job[s]
      settled == CASE j.op = "resolve" -> HasNext(j.sub)
                   [] j.op = "home"    -> ScheduleHasNext
                   [] OTHER            -> FALSE IN
  /\ seriesAt[s] = "resume"
  /\ IF j.op = "nightly" /\ j.subs # {}
       THEN \E k \in j.subs :
              /\ job' = [job EXCEPT ![s].sub = k, ![s].owner = subscription[k].owner,
                                    ![s].subs = j.subs \ {k}]
              /\ SeriesGoto(s, "ensure")
       ELSE IF settled \/ j.todo = {} THEN SeriesReturn(s)
       ELSE SeriesGoto(s, "find") /\ UNCHANGED job
  /\ UNCHANGED seriesTables

-----------------------------------------------------------------------------
(* Compensation and cancellation.                                            *)

\* rides_crud.cancel_booking: refused on a ride that has started, unless the
\* session still holds the ride as it loaded it, open.
Cancellable(s, b) ==
  /\ seat[b].status = "active"
  /\ instance[seat[b].ride].status # "started" \/ seat[b].ride \in job[s].seen

\* One turn of the loop over the seats; what cannot be cancelled is skipped.
Undo(s) ==
  /\ seriesAt[s] = "undo" /\ job[s].undone # {}
  /\ \E b \in job[s].undone :
       /\ seat' = [seat EXCEPT ![b].status = IF Cancellable(s, b) THEN "cancelled" ELSE @]
       /\ job' = [job EXCEPT ![s].undone = @ \ {b}]
  /\ UNCHANGED <<scheduleActive, driverBusy, instance, subscription, seriesAt>>

Undone(s) ==
  /\ seriesAt[s] = "undo" /\ job[s].undone = {}
  /\ SeriesGoto(s, IF job[s].op = "series" THEN "unsubscribe" ELSE "close")
  /\ UNCHANGED <<seriesTables, job>>

\* crud_v2.delete_subscription; the seats lose their link (SET NULL).
Unsubscribe(s) ==
  LET k == job[s].sub IN
  /\ seriesAt[s] = "unsubscribe"
  /\ subscription' = [subscription EXCEPT ![k].status = "deleted"]
  /\ seat' = [b \in SeatIds |-> IF seat[b].sub = k THEN [seat[b] EXCEPT !.sub = NoRow] ELSE seat[b]]
  /\ SeriesReturn(s)
  /\ UNCHANGED <<scheduleActive, driverBusy, instance>>

\* Variant: a status the other queries do not know.
CloseMisspelt(s) ==
  /\ seriesAt[s] = "close"
  /\ subscription' = [subscription EXCEPT ![job[s].sub].status = "canceled"]
  /\ SeriesReturn(s)
  /\ UNCHANGED <<scheduleActive, driverBusy, instance, seat>>

\* crud_v2.mark_subscription_cancelled, whatever its status is by now.
CloseSubscription(s) ==
  LET k == job[s].sub IN
  /\ seriesAt[s] = "close"
  /\ subscription' = [subscription EXCEPT ![k].status = IF @ = "deleted" THEN @ ELSE "cancelled"]
  /\ SeriesReturn(s)
  /\ UNCHANGED <<scheduleActive, driverBusy, instance, seat>>

\* crud_v2.mark_schedule_subscriptions_cancelled
CloseSubscriptions(s) ==
  /\ seriesAt[s] = "closeAll"
  /\ subscription' = [k \in SubIds |-> IF subscription[k].status = "active"
                                         THEN [subscription[k] EXCEPT !.status = "cancelled"]
                                         ELSE subscription[k]]
  /\ SeriesGoto(s, "purge")
  /\ UNCHANGED <<scheduleActive, driverBusy, instance, seat, job>>

\* The rides in doomed are deleted, and by cascade their seats.
DropRides(doomed) ==
  /\ instance' = [r \in RideIds |-> IF r \in doomed THEN [instance[r] EXCEPT !.status = "deleted"]
                                                      ELSE instance[r]]
  /\ seat' = [b \in SeatIds |-> IF seat[b].ride \in doomed THEN [seat[b] EXCEPT !.status = "deleted", !.sub = NoRow]
                                                             ELSE seat[b]]

\* crud_v2.purge_future_open_rides_for_schedule, unless the client asked to
\* keep the rides.
Purge(s) ==
  /\ seriesAt[s] = "purge"
  /\ \/ DropRides({r \in RideIds : instance[r].status = "open"})
     \/ UNCHANGED <<instance, seat>>
  /\ SeriesReturn(s)
  /\ UNCHANGED <<scheduleActive, driverBusy, subscription>>

-----------------------------------------------------------------------------
(* What other endpoints do to the same rows (RideBooking has their steps).   *)

\* The driver publishes another ride for the slot, which the database admits
\* when none of his rides holds it, or gives that ride up.
PublishOther(d) == ~SlotHeld(d) /\ driverBusy' = driverBusy \cup {d}
WithdrawOther(d) == d \in driverBusy /\ driverBusy' = driverBusy \ {d}

\* The driver starts or cancels a ride; its seats stay as they are.
SetInstance(r, new) ==
  /\ instance[r].status = "open"
  /\ instance' = [instance EXCEPT ![r].status = new]

BookAlone(p, r) ==
  /\ instance[r].status = "open"
  /\ LiveSeats(p, instance[r].date) = {}
  /\ \E b \in FreshSeats :
       /\ seat' = [seat EXCEPT ![b] = [NoSeat EXCEPT !.status = "active", !.owner = p, !.ride = r]]

CancelAlone(b) ==
  /\ seat[b].status = "active" /\ instance[seat[b].ride].status # "started"
  /\ seat' = [seat EXCEPT ![b].status = "cancelled"]

OtherEndpoint ==
  \/ /\ \E d \in Dates : PublishOther(d) \/ WithdrawOther(d)
     /\ UNCHANGED <<scheduleActive, instance, subscription, seat, seriesAt, job>>
  \/ /\ \E r \in RideIds, new \in {"started", "cancelled"} : SetInstance(r, new)
     /\ UNCHANGED <<scheduleActive, driverBusy, subscription, seat, seriesAt, job>>
  \/ /\ \/ \E p \in Passengers, r \in RideIds : BookAlone(p, r)
        \/ \E b \in SeatIds : CancelAlone(b)
     /\ UNCHANGED <<scheduleActive, driverBusy, instance, subscription, seriesAt, job>>

Others == outside < MaxOutside /\ outside' = outside + 1 /\ OtherEndpoint

BeginJob(s) ==
  \/ \E p \in Passengers : BeginSeries(s, p)
  \/ \E k \in SubIds : BeginResolve(s, k) \/ BeginCancel(s, k)
  \/ \E d \in Dates : BeginNightly(s, d)
  \/ BeginHome(s) \/ BeginUpdate(s) \/ Deactivate(s)

SeriesStep(s) ==
  /\ seriesAt[s] \notin {"idle", "done"}
  /\ \/ Subscribe(s) \/ Find(s) \/ CreateInstance(s) \/ FanOut(s) \/ Ensure(s)
     \/ BookSeat(s) \/ LinkSeat(s) \/ Resume(s)
     \/ Undo(s) \/ Undone(s) \/ Unsubscribe(s)
     \/ CloseSubscription(s) \/ CloseSubscriptions(s) \/ Purge(s)

SeriesWork(s) == (BeginJob(s) \/ SeriesStep(s)) /\ UNCHANGED outside

SeriesNext == Others \/ \E s \in SeriesSessions : SeriesWork(s)

SeriesSpec == SeriesInit /\ [][SeriesNext]_seriesVars

\* A request that was begun is carried on.
SeriesFairness == \A s \in SeriesSessions : WF_seriesVars(SeriesStep(s) /\ UNCHANGED outside)
SeriesLiveSpec == SeriesSpec /\ SeriesFairness

-----------------------------------------------------------------------------
\* Rows and requests keep the shape the models and the schemas give them.
SeriesTypeOK ==
  /\ scheduleActive \in BOOLEAN
  /\ driverBusy \subseteq Dates
  /\ instance \in [RideIds -> Instances]
  /\ subscription \in [SubIds -> Subscriptions]
  /\ seat \in [SeatIds -> Seats]
  /\ seriesAt \in [SeriesSessions -> SeriesSteps]
  /\ job \in [SeriesSessions -> Jobs]
  /\ outside \in 0 .. MaxOutside

\* However many requests find a date without its ride at the same time, the
\* driver ends with one ride in the slot, and with none beside another ride.
OneRidePerDate ==
  \A d \in Dates :
    LET held == {r \in RidesOn(d) : instance[r].status \in Holding} IN
    /\ \A r1, r2 \in held : r1 = r2
    /\ d \in driverBusy => held = {}

\* Series bookings, the nightly job, resolve requests, duplicates of one
\* subscription and single bookings never seat a passenger twice in one slot.
OneSeatPerDate ==
  \A p \in Passengers, d \in Dates : \A b1, b2 \in LiveSeats(p, d) : b1 = b2

\* A refused series is undone whole: when its subscription is deleted, no
\* seat the request booked is active, whoever relinked it meanwhile, except
\* on a ride that started.
RefusalUndoesTheSeries ==
  [][\A k \in SubIds :
       subscription[k].status = "active" /\ subscription'[k].status = "deleted"
         => \A b \in SeatIds : seat'[b].for = k /\ seat'[b].status = "active"
                                => instance'[seat'[b].ride].status = "started"]_seriesVars

\* Every request comes to its answer: none of the loops over dates, seats
\* and subscriptions waits for another request or turns for ever.
SeriesRequestsEnd == <>[](\A s \in SeriesSessions : seriesAt[s] \in {"idle", "done"})

\* The docstring of book_recurring_schedule_series_service: the dates are
\* booked all or nothing.  A series that ends without having served every
\* date leaves no active seat behind, except on a ride that started.
AllOrNothing ==
  [][\A s \in SeriesSessions :
       seriesAt[s] # "done" /\ seriesAt'[s] = "done" /\ job[s].op = "series"
         => \A b \in SeatIds : seat'[b].for = job[s].sub /\ seat'[b].status = "active"
                                => \/ job[s].sub = NoRow
                                   \/ instance'[seat'[b].ride].status = "started"]_seriesVars
=============================================================================
