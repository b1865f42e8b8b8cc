----------------------------- MODULE Timetable -----------------------------
(***************************************************************************)
(* The recurring schedules of one driver (backend/app/modules/rides/       *)
(* service_v2.py, crud_v2.py): requests that create, change and deactivate *)
(* them, and rides the driver publishes meanwhile.  A request judges the   *)
(* schedule it is about to write against the other active schedules, week  *)
(* by week, and a new one also against the rides, date by date.  Creations *)
(* are serialized by one advisory lock of the driver and changes by        *)
(* another, each held up to the commit.                                    *)
(***************************************************************************)
EXTENDS Integers, FiniteSets

CONSTANTS
  Schedules,    \* primary keys of recurring_schedules: bound the creations
  Planners,     \* HTTP requests: each serves one operation and is then "done"
  Plans,        \* what a client may ask for
  Departures,   \* instants at which the driver may publish a single ride
  RideLength,   \* its duration
  Week, Day,    \* days of a week, and minutes of a day: 7 and 1440 in the code
  Now,          \* the instant of the requests
  NoPlan        \* no row, no operation

Plan == [days : SUBSET (0 .. Week - 1), time : 0 .. Day - 1, length : 1 .. Day,
         from : Nat, until : Nat, active : BOOLEAN]

ASSUME TimetableAssumption ==
  /\ Week \in Nat \ {0} /\ Day \in Nat \ {0} /\ RideLength \in Nat \ {0}
  /\ Departures \subseteq Nat /\ Now \in Nat
  /\ \A p \in Plans : p \in Plan /\ p.active
  /\ NoPlan \notin Plan \cup Schedules \cup {"create", "update", "publish"}

VARIABLES
  row,       \* rows of recurring_schedules
  published, \* departures of the single rides the driver has open
  planAt,    \* next statement of each request
  draft,     \* its local variables
  blind      \* history: schedules written since the request judged, by a
             \* request its lock does not exclude; its own since it was loaded

timetableVars == <<row, published, planAt, draft, blind>>

NoDraft == [op |-> NoPlan, key |-> NoPlan, loaded |-> NoPlan, want |-> NoPlan, depart |-> 0]
Drafts == [op : {NoPlan, "create", "update", "publish"}, key : Schedules \cup {NoPlan},
           loaded : Plan \cup {NoPlan}, want : Plan \cup {NoPlan}, depart : Nat]
PlanSteps == {"idle", "done", "lock", "judge", "judgeRides", "save", "judgePublish", "insert"}

Active == {k \in Schedules : row[k] # NoPlan /\ row[k].active}

-----------------------------------------------------------------------------
(* The judgement.  Dates are numbered from a Monday.                         *)

Earlier(a, b) == IF a < b THEN a ELSE b
Later(a, b)   == IF a < b THEN b ELSE a
Weekday(date) == date % Week

\* _expand_weekly_segments: a ride that ends after midnight continues on the
\* next day of the week.
Segments(p) ==
  LET end == p.time + p.length
  IN  {[day |-> d, from |-> p.time, to |-> Earlier(end, Day)] : d \in p.days}
      \cup (IF end > Day
              THEN {[day |-> (d + 1) % Week, from |-> 0, to |-> end - Day] : d \in p.days}
              ELSE {})

\* _range_contains_weekday.
RangeContains(first, last, day) == first + ((day - Weekday(first)) % Week) <= last

\* _find_schedule_overlap_day.
OverlapDay(p, q) ==
  LET first == Later(p.from, q.from)
      last  == Earlier(p.until, q.until)
  IN  \E a \in Segments(p), b \in Segments(q) :
        /\ first <= last
        /\ a.day = b.day /\ a.from < b.to /\ b.from < a.to
        /\ RangeContains(first, last, a.day)

\* _matching_dates_in_overlap, and _combine_schedule_datetime.
PromisedDates(p) == {d \in p.from .. p.until : Weekday(d) \in p.days}
DepartureOn(p, date) == date * Day + p.time

\* _find_driver_overlap.
RideIn(start, end) == \E r \in published : r < end /\ start < r + RideLength

-----------------------------------------------------------------------------
(* The requests.                                                             *)

NoRequest ==
  /\ published = {}
  /\ planAt = [s \in Planners |-> "idle"]
  /\ draft = [s \in Planners |-> NoDraft]
  /\ blind = [s \in Planners |-> {}]

\* The schedules of earlier requests.
TimetableInit ==
  /\ row \in {f \in [Schedules -> Plans \cup {NoPlan}] :
                \A j, k \in Schedules : j # k /\ f[j] # NoPlan /\ f[k] # NoPlan => ~OverlapDay(f[j], f[k])}
  /\ NoRequest
TimetableEmpty == row = [k \in Schedules |-> NoPlan] /\ NoRequest

PlanGoto(s, step) == planAt' = [planAt EXCEPT ![s] = step]

\* The transaction ends, and with it the locks of the request.
PlanReturn(s) ==
  PlanGoto(s, "done") /\ draft' = [draft EXCEPT ![s] = NoDraft]

BeginPlan(s, d, step) ==
  /\ planAt[s] = "idle"
  /\ draft' = [draft EXCEPT ![s] = d]
  /\ PlanGoto(s, step)
  /\ UNCHANGED <<row, published>>

\* Bound: a creation begins only when a key is left for it.
Creating == {s \in Planners : draft[s].op = "create"}
FreeKeys == {k \in Schedules : row[k] = NoPlan}

BeginCreate(s, p) ==
  /\ Cardinality(FreeKeys) > Cardinality(Creating)
  /\ BeginPlan(s, [NoDraft EXCEPT !.op = "create", !.want = p], "lock")
  /\ UNCHANGED blind

\* The row is loaded before any lock is taken.  What the client left out is
\* taken from the row, and the duration always is; a schedule that stays
\* inactive takes no lock and is not judged.
BeginUpdate(s, k, p, active) ==
  /\ row[k] # NoPlan
  /\ LET want == [p EXCEPT !.length = row[k].length, !.active = active]
     IN  BeginPlan(s, [NoDraft EXCEPT !.op = "update", !.key = k, !.loaded = row[k], !.want = want],
                   IF active THEN "lock" ELSE "save")
  /\ blind' = [blind EXCEPT ![s] = {}]

\* create_ride_service of the first version.
BeginPublishing(s, at) ==
  /\ BeginPlan(s, [NoDraft EXCEPT !.op = "publish", !.depart = at], "judgePublish")
  /\ UNCHANGED blind

\* Variant: nothing keeps two requests of a kind apart.
NoPlanLock(s) == TRUE

\* pg_advisory_xact_lock of "recurring-schedule-create" and of
\* "recurring-schedule-update", each with the identity of the driver.
PlanLockFree(s) ==
  \A t \in Planners \ {s} :
    ~(draft[t].op = draft[s].op /\ planAt[t] \in {"judge", "judgeRides", "save"}
      /\ (draft[t].op = "update" => draft[t].want.active))

TakePlanLock(s) ==
  /\ planAt[s] = "lock" /\ PlanLockFree(s)
  /\ PlanGoto(s, "judge")
  /\ UNCHANGED <<row, published, draft, blind>>

\* pg_advisory_xact_lock of "driver-create-ride", which creations and
\* publications take.
RideLockFree(s) ==
  \A t \in Planners \ {s} :
    ~ \/ planAt[t] = "insert"
      \/ draft[t].op = "create" /\ planAt[t] \in {"judgeRides", "save"}

\* The query of the active schedules, and the loop over its rows.
JudgeSchedules(s) ==
  /\ planAt[s] = "judge" /\ (draft[s].op = "create" => RideLockFree(s))
  /\ IF \E k \in Active \ {draft[s].key} : OverlapDay(row[k], draft[s].want)
       THEN PlanReturn(s) /\ UNCHANGED blind
       ELSE /\ PlanGoto(s, IF draft[s].op = "create" THEN "judgeRides" ELSE "save")
            /\ blind' = [blind EXCEPT ![s] = @ \cap {draft[s].key}]
            /\ UNCHANGED draft
  /\ UNCHANGED <<row, published>>

\* One query for each promised date whose departure is still to come.
JudgeRides(s) ==
  /\ planAt[s] = "judgeRides"
  /\ LET p == draft[s].want
     IN  IF \E d \in PromisedDates(p) :
              /\ DepartureOn(p, d) >= Now
              /\ RideIn(DepartureOn(p, d), DepartureOn(p, d) + p.length)
           THEN PlanReturn(s)
           ELSE PlanGoto(s, "save") /\ UNCHANGED draft
  /\ UNCHANGED <<row, published, blind>>

\* A write of k is news to a request that has judged, or has loaded k.
Unlocked(s) == draft[s].op = "update" /\ ~draft[s].want.active
Noticed(s, k) ==
  blind' = [t \in Planners |->
              IF \/ t # s /\ draft[t].key = k
                 \/ /\ planAt[t] \in {"judgeRides", "save"}
                    /\ (draft[t].op # draft[s].op \/ Unlocked(s) \/ Unlocked(t))
                THEN blind[t] \cup {k} ELSE blind[t]]

SaveNew(s) ==
  /\ planAt[s] = "save" /\ draft[s].op = "create"
  /\ \E k \in FreeKeys :
       /\ k = CHOOSE j \in FreeKeys : TRUE
       /\ row' = [row EXCEPT ![k] = draft[s].want]
       /\ Noticed(s, k)
  /\ PlanReturn(s)
  /\ UNCHANGED published

\* The session writes the columns that differ from those it loaded, into the
\* row as it is now.
Column(want, loaded, now, f) == IF want[f] # loaded[f] THEN want[f] ELSE now[f]
Merged(want, loaded, now) ==
  [days   |-> Column(want, loaded, now, "days"),
   time   |-> Column(want, loaded, now, "time"),
   length |-> Column(want, loaded, now, "length"),
   from   |-> Column(want, loaded, now, "from"),
   until  |-> Column(want, loaded, now, "until"),
   active |-> Column(want, loaded, now, "active")]

SaveChange(s) ==
  /\ planAt[s] = "save" /\ draft[s].op = "update"
  /\ row' = [row EXCEPT ![draft[s].key] = Merged(draft[s].want, draft[s].loaded, @)]
  /\ Noticed(s, draft[s].key)
  /\ PlanReturn(s)
  /\ UNCHANGED published

\* crud_v2.deactivate_schedule takes no lock.
DeactivateSchedule(k) ==
  /\ row[k] # NoPlan /\ row[k].active
  /\ row' = [row EXCEPT ![k].active = FALSE]
  /\ UNCHANGED <<published, planAt, draft, blind>>

JudgePublish(s) ==
  /\ planAt[s] = "judgePublish" /\ RideLockFree(s)
  /\ IF RideIn(draft[s].depart, draft[s].depart + RideLength)
       THEN PlanReturn(s)
       ELSE PlanGoto(s, "insert") /\ UNCHANGED draft
  /\ UNCHANGED <<row, published, blind>>

InsertPublished(s) ==
  /\ planAt[s] = "insert"
  /\ published' = published \cup {draft[s].depart}
  /\ PlanReturn(s)
  /\ UNCHANGED <<row, blind>>

\* The driver cancels a published ride.
CancelPublished(r) ==
  /\ r \in published
  /\ published' = published \ {r}
  /\ UNCHANGED <<row, planAt, draft, blind>>

TimetableNext ==
  \/ \E s \in Planners :
       \/ \E p \in Plans : BeginCreate(s, p)
       \/ \E k \in Schedules, p \in Plans, active \in BOOLEAN : BeginUpdate(s, k, p, active)
       \/ \E at \in Departures : BeginPublishing(s, at)
       \/ TakePlanLock(s) \/ JudgeSchedules(s) \/ JudgeRides(s) \/ SaveNew(s) \/ SaveChange(s)
       \/ JudgePublish(s) \/ InsertPublished(s)
  \/ \E k \in Schedules : DeactivateSchedule(k)
  \/ \E r \in published : CancelPublished(r)

TimetableSpec == TimetableInit /\ [][TimetableNext]_timetableVars

-----------------------------------------------------------------------------
(* Properties.                                                               *)

\* The schedules, and the local variables of the requests, keep their shape.
TimetableTypeOK ==
  /\ row \in [Schedules -> Plan \cup {NoPlan}]
  /\ published \subseteq Departures
  /\ planAt \in [Planners -> PlanSteps]
  /\ draft \in [Planners -> Drafts]
  /\ blind \in [Planners -> SUBSET Schedules]

\* p and q promise the driver to two rides at once, on dates up to the last
\* one of both.  The judgement does not look further: a ride of the last
\* date that runs past midnight may meet one of the day after.
PromisedTwice(p, q) ==
  \E d \in PromisedDates(p), e \in PromisedDates(q) :
    /\ d <= q.until /\ e <= p.until
    /\ DepartureOn(p, d) < DepartureOn(q, e) + q.length
    /\ DepartureOn(q, e) < DepartureOn(p, d) + p.length

\* p promises a ride to come at the time of one the driver has published.
PromisedOverRide(p) ==
  \E d \in PromisedDates(p) :
    DepartureOn(p, d) >= Now /\ RideIn(DepartureOn(p, d), DepartureOn(p, d) + p.length)

\* A request leaves no schedule active that promises the driver to two rides
\* at once, on whatever dates and across midnight: not with another schedule,
\* and a new one not with a ride published before it is saved, although the
\* judgement only compares days of the week and another request may write
\* between the judgement and the commit (create_recurring_schedule_service,
\* update_user_schedule_service, create_ride_service).  Excepted are the
\* schedules in `blind`: the two kinds of request take locks of different
\* names, and a change merges into what others wrote to its row since it was
\* loaded.
PromisesAreJudged ==
  [][\A s \in Planners, k \in Schedules :
       (/\ planAt[s] = "save" /\ planAt'[s] = "done"
        /\ row'[k] # row[k] /\ row'[k].active /\ k \notin blind[s])
       => /\ \A j \in Active \ ({k} \cup blind[s]) : ~PromisedTwice(row'[k], row[j])
          /\ row[k] = NoPlan => ~PromisedOverRide(row'[k])]_timetableVars
=============================================================================
