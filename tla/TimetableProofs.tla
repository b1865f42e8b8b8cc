--------------------------- MODULE TimetableProofs ---------------------------
(***************************************************************************)
(* Theorems about Timetable, for every set of schedules, requests, plans   *)
(* and departures and every length of a day and of a week: what a request  *)
(* leaves active promises the driver to no two rides at once.              *)
(* The first part is about the judgement: comparing segments of days of    *)
(* the week finds every two rides that meet.  The second part is about     *)
(* the requests: what was judged still holds at the commit.                *)
(***************************************************************************)
EXTENDS Timetable, TLAPS

-----------------------------------------------------------------------------
(* Invariants.                                                               *)

Past(s) == planAt[s] \in {"judgeRides", "save"}
Wants(s) == draft[s].op \in {"create", "update"}

\* The local variables of a request fit its next statement.
DraftOK(s) ==
  /\ planAt[s] \in {"lock", "judge", "judgeRides", "save"} => Wants(s)
  /\ planAt[s] = "judgeRides" => draft[s].op = "create"
  /\ planAt[s] \in {"judgePublish", "insert"} => draft[s].op = "publish" /\ draft[s].depart \in Departures
  /\ planAt[s] \in {"idle", "done"} => draft[s].op = NoPlan
  /\ Wants(s) => draft[s].want \in Plan
  /\ draft[s].op = "create" => draft[s].key = NoPlan /\ draft[s].want.active
  /\ draft[s].op = "update" => draft[s].key \in Schedules /\ draft[s].loaded \in Plan
  /\ planAt[s] \in {"lock", "judge"} => draft[s].want.active

\* The row a change has loaded is still there, and nobody else wrote it
\* unnoticed, except to deactivate it.
SameRow(loaded, now) ==
  \/ now = loaded
  \/ loaded.active /\ now = [loaded EXCEPT !.active = FALSE]
LoadedOK(s) ==
  draft[s].op = "update"
  => /\ row[draft[s].key] \in Plan
     /\ draft[s].key \notin blind[s] => SameRow(draft[s].loaded, row[draft[s].key])

\* What a request wants agrees with every schedule that is not news to it.
JudgedOK(s) ==
  Past(s) /\ draft[s].want.active
  => \A k \in Active \ (blind[s] \cup {draft[s].key}) : ~OverlapDay(row[k], draft[s].want)

\* A creation past its last query agrees with every published ride.
RidesOK(s) ==
  planAt[s] = "save" /\ draft[s].op = "create" => ~PromisedOverRide(draft[s].want)

\* The lock of creations, the lock of changes and the lock of rides.
HoldsPlanLock(s) ==
  planAt[s] \in {"judge", "judgeRides", "save"} /\ (draft[s].op = "update" => draft[s].want.active)
Apart(s, t) ==
  /\ HoldsPlanLock(s) /\ HoldsPlanLock(t) => draft[s].op # draft[t].op
  /\ planAt[s] = "insert" => ~(draft[t].op = "create" /\ Past(t))
  /\ planAt[t] = "insert" => ~(draft[s].op = "create" /\ Past(s))

RequestOK(s) == DraftOK(s) /\ LoadedOK(s) /\ JudgedOK(s) /\ RidesOK(s)

TimetableInv ==
  /\ TimetableTypeOK
  /\ \A s \in Planners : RequestOK(s)
  /\ \A s, t \in Planners : s # t => Apart(s, t)

-----------------------------------------------------------------------------
(* Days and weeks.                                                           *)

LEMMA DivMod ==
  ASSUME NEW w \in Nat \ {0}, NEW x \in Int
  PROVE  x = w * (x \div w) + (x % w) /\ x % w \in 0 .. w - 1 /\ x \div w \in Int
BY Z3

LEMMA ModUnique ==
  ASSUME NEW w \in Nat \ {0}, NEW q \in Int, NEW r \in 0 .. w - 1, NEW x \in Int, x = w * q + r
  PROVE  x % w = r
<1>1. x = w * (x \div w) + (x % w) /\ x % w \in 0 .. w - 1 /\ x \div w \in Int
  BY DivMod
<1>2. CASE q > x \div w
  BY <1>1, <1>2, Z3
<1>3. CASE q < x \div w
  BY <1>1, <1>3, Z3
<1> QED
  BY <1>1, <1>2, <1>3, Z3

\* The weekday of the next date is the next weekday.
LEMMA NextDay ==
  ASSUME NEW w \in Nat \ {0}, NEW d \in Nat
  PROVE  /\ ((d % w) + 1) % w = (d + 1) % w
         /\ (d + 1) % w \in 0 .. w - 1 /\ d % w \in 0 .. w - 1
<1> DEFINE r == d % w
           q == d \div w
<1>1. d = w * q + r /\ r \in 0 .. w - 1 /\ q \in Int
  BY DivMod
<1> HIDE DEF r, q
<1>2. CASE r + 1 < w
  <2>1. r + 1 = w * 0 + (r + 1) /\ r + 1 \in 0 .. w - 1 /\ r + 1 \in Int
    BY <1>1, <1>2, Z3
  <2>2. (r + 1) % w = r + 1
    BY <2>1, ModUnique
  <2>3. d + 1 = w * q + (r + 1) /\ d + 1 \in Int
    BY <1>1, Z3
  <2>4. (d + 1) % w = r + 1
    BY <1>1, <2>1, <2>3, ModUnique
  <2> QED
    BY <1>1, <2>1, <2>2, <2>4 DEF r
<1>3. CASE r + 1 = w
  <2>1. r + 1 = w * 1 + 0 /\ 0 \in 0 .. w - 1 /\ r + 1 \in Int
    BY <1>1, <1>3, Z3
  <2>2. d + 1 = w * (q + 1) + 0 /\ d + 1 \in Int /\ q + 1 \in Int
    BY <1>1, <1>3, Z3
  <2>3. \A x \in Int, k \in Int : x = w * k + 0 => x % w = 0
    BY <2>1, ModUnique
  <2>4. (r + 1) % w = 0
    BY <2>1, ModUnique
  <2>5. (d + 1) % w = 0
    BY <2>2, <2>3
  <2> QED
    BY <1>1, <2>1, <2>4, <2>5 DEF r
<1> QED
  BY <1>1, <1>2, <1>3

\* A weekday of a date comes round, from an earlier date, by that date.
LEMMA Reached ==
  ASSUME NEW w \in Nat \ {0}, NEW f \in Nat, NEW d \in Nat, f <= d
  PROVE  f + (((d % w) - (f % w)) % w) <= d
<1> DEFINE r == d % w
           q == d \div w
           u == f % w
           v == f \div w
<1>1. d = w * q + r /\ r \in 0 .. w - 1 /\ q \in Int
  BY DivMod
<1>2. f = w * v + u /\ u \in 0 .. w - 1 /\ v \in Int
  BY DivMod
<1> HIDE DEF r, q, u, v
<1>3. r - u \in Int /\ (r - u) % w \in 0 .. w - 1
  BY <1>1, <1>2, DivMod
<1>4. CASE d - f >= w
  BY <1>3, <1>4 DEF r, u
<1>5. CASE d - f < w
  <2> DEFINE k == d - f
  <2>1. r - u = w * (v - q) + k /\ v - q \in Int
    BY <1>1, <1>2, Z3
  <2>2. k \in 0 .. w - 1
    BY <1>5
  <2>3. \A x \in Int, y \in Int : x = w * y + k => x % w = k
    BY <2>2, ModUnique
  <2>4. (r - u) % w = k
    BY <1>3, <2>1, <2>3
  <2> QED
    BY <2>4 DEF r, u
<1> QED
  BY <1>4, <1>5

LEMMA LaterDays ==
  ASSUME NEW m \in Nat \ {0}, NEW d \in Nat, NEW e \in Nat
  PROVE  /\ d * m \in Nat /\ e * m \in Nat
         /\ e = d + 1 => e * m = d * m + m
         /\ e >= d + 2 => e * m >= d * m + m + m
BY Z3

-----------------------------------------------------------------------------
(* The judgement.                                                            *)

LEMMA WeekdayInRange ==
  ASSUME NEW first \in Nat, NEW last \in Nat, NEW d \in first .. last
  PROVE  RangeContains(first, last, Weekday(d))
<1>1. first + ((Weekday(d) - Weekday(first)) % Week) <= d
  BY Reached, TimetableAssumption DEF Weekday
<1>2. (Weekday(d) - Weekday(first)) % Week \in Int
  BY NextDay, DivMod, TimetableAssumption DEF Weekday
<1> QED
  BY <1>1, <1>2 DEF RangeContains

\* Two segments that meet on the weekday of a date both schedules reach.
LEMMA SegmentsMeet ==
  ASSUME NEW p \in Plan, NEW q \in Plan, NEW date \in Nat,
         p.from <= date, q.from <= date, date <= p.until, date <= q.until,
         NEW a \in Segments(p), NEW b \in Segments(q),
         a.day = Weekday(date), b.day = Weekday(date), a.from < b.to, b.from < a.to
  PROVE  OverlapDay(p, q)
<1> DEFINE first == Later(p.from, q.from)
           last  == Earlier(p.until, q.until)
<1>1. first \in Nat /\ last \in Nat /\ date \in first .. last
  BY DEF Later, Earlier, Plan
<1>2. RangeContains(first, last, Weekday(date))
  BY <1>1, WeekdayInRange
<1>3. first <= last
  BY <1>1
<1> QED
  BY <1>2, <1>3 DEF OverlapDay

\* A ride occupies its own day up to midnight, and the next one from midnight.
LEMMA FirstSegment ==
  ASSUME NEW p \in Plan, NEW d \in PromisedDates(p)
  PROVE  [day |-> Weekday(d), from |-> p.time, to |-> Earlier(p.time + p.length, Day)] \in Segments(p)
BY DEF Segments, PromisedDates

LEMMA SecondSegment ==
  ASSUME NEW p \in Plan, NEW d \in PromisedDates(p), p.time + p.length > Day
  PROVE  [day |-> Weekday(d + 1), from |-> 0, to |-> (p.time + p.length) - Day] \in Segments(p)
<1>1. d \in Nat /\ Weekday(d) \in p.days
  BY DEF PromisedDates, Plan
<1>2. (Weekday(d) + 1) % Week = Weekday(d + 1)
  BY <1>1, NextDay, TimetableAssumption DEF Weekday
<1> DEFINE end == p.time + p.length
           next == Weekday(d + 1)
<1>3. \E x \in p.days : next = (x + 1) % Week
  BY <1>1, <1>2
<1> HIDE DEF next
<1>4. [day |-> next, from |-> 0, to |-> end - Day]
        \in {[day |-> (x + 1) % Week, from |-> 0, to |-> end - Day] : x \in p.days}
  BY <1>3, Zenon
<1>5. [day |-> next, from |-> 0, to |-> end - Day] \in Segments(p)
  BY <1>4, Zenon DEF Segments
<1> QED
  BY <1>5 DEF next

\* Two promised rides that meet are on one date, or on two in succession.
LEMMA JudgementFinds ==
  ASSUME NEW p \in Plan, NEW q \in Plan, PromisedTwice(p, q)
  PROVE  OverlapDay(p, q)
<1>1. PICK d \in PromisedDates(p), e \in PromisedDates(q) :
        /\ d <= q.until /\ e <= p.until
        /\ DepartureOn(p, d) < DepartureOn(q, e) + q.length
        /\ DepartureOn(q, e) < DepartureOn(p, d) + p.length
  BY DEF PromisedTwice
<1>2. /\ d \in Nat /\ p.from <= d /\ d <= p.until
      /\ e \in Nat /\ q.from <= e /\ e <= q.until
  BY DEF PromisedDates, Plan
<1>3. /\ p.time \in 0 .. Day - 1 /\ p.length \in 1 .. Day
      /\ q.time \in 0 .. Day - 1 /\ q.length \in 1 .. Day /\ Day \in Nat \ {0}
      /\ {p.from, p.until, q.from, q.until} \subseteq Nat
  BY TimetableAssumption DEF Plan
<1>4. /\ d * Day + p.time < e * Day + q.time + q.length
      /\ e * Day + q.time < d * Day + p.time + p.length
  BY <1>1 DEF DepartureOn
<1>5. d * Day \in Nat /\ e * Day \in Nat
  BY <1>2, <1>3, LaterDays
<1>6. CASE d = e
  <2>1. /\ p.time < Earlier(q.time + q.length, Day)
        /\ q.time < Earlier(p.time + p.length, Day)
    BY <1>3, <1>4, <1>5, <1>6 DEF Earlier
  <2> QED
    BY <1>1, <1>2, <1>6, <2>1, FirstSegment, SegmentsMeet
<1>7. CASE e = d + 1
  <2>1. e * Day = d * Day + Day
    BY <1>2, <1>3, <1>7, LaterDays
  <2>2. /\ p.time + p.length > Day
        /\ q.time < (p.time + p.length) - Day
        /\ 0 < Earlier(q.time + q.length, Day)
    BY <1>3, <1>4, <1>5, <2>1 DEF Earlier
  <2> DEFINE a == [day |-> Weekday(e), from |-> 0, to |-> (p.time + p.length) - Day]
             b == [day |-> Weekday(e), from |-> q.time, to |-> Earlier(q.time + q.length, Day)]
  <2>3. a \in Segments(p) /\ b \in Segments(q)
    BY <1>1, <1>7, <2>2, FirstSegment, SecondSegment
  <2>4. p.from <= e
    BY <1>2, <1>3, <1>7
  <2>5. a.from < b.to /\ b.from < a.to /\ a.day = Weekday(e) /\ b.day = Weekday(e)
    BY <2>2
  <2> HIDE DEF a, b
  <2> QED
    BY <1>1, <1>2, <2>3, <2>4, <2>5, SegmentsMeet
<1>8. CASE d = e + 1
  <2>1. d * Day = e * Day + Day
    BY <1>2, <1>3, <1>8, LaterDays
  <2>2. /\ q.time + q.length > Day
        /\ p.time < (q.time + q.length) - Day
        /\ 0 < Earlier(p.time + p.length, Day)
    BY <1>3, <1>4, <1>5, <2>1 DEF Earlier
  <2> DEFINE a == [day |-> Weekday(d), from |-> p.time, to |-> Earlier(p.time + p.length, Day)]
             b == [day |-> Weekday(d), from |-> 0, to |-> (q.time + q.length) - Day]
  <2>3. a \in Segments(p) /\ b \in Segments(q)
    BY <1>1, <1>8, <2>2, FirstSegment, SecondSegment
  <2>4. q.from <= d
    BY <1>2, <1>3, <1>8
  <2>5. a.from < b.to /\ b.from < a.to /\ a.day = Weekday(d) /\ b.day = Weekday(d)
    BY <2>2
  <2> HIDE DEF a, b
  <2> QED
    BY <1>1, <1>2, <2>3, <2>4, <2>5, SegmentsMeet
<1>9. CASE e >= d + 2
  <2>1. e * Day >= d * Day + Day + Day
    BY <1>2, <1>3, <1>9, LaterDays
  <2> QED
    BY <1>3, <1>4, <1>5, <2>1
<1>10. CASE d >= e + 2
  <2>1. d * Day >= e * Day + Day + Day
    BY <1>2, <1>3, <1>10, LaterDays
  <2> QED
    BY <1>3, <1>4, <1>5, <2>1
<1> QED
  BY <1>2, <1>6, <1>7, <1>8, <1>9, <1>10

LEMMA MeetingIsMutual ==
  ASSUME NEW p \in Plan, NEW q \in Plan, PromisedTwice(p, q)
  PROVE  PromisedTwice(q, p)
BY DEF PromisedTwice

-----------------------------------------------------------------------------
(* The requests.                                                             *)

USE DEF PlanGoto, PlanReturn, NoDraft

LEMMA NoPlanIsNone ==
  /\ NoPlan \notin Plan /\ NoPlan \notin Schedules
  /\ NoPlan \notin {"create", "update", "publish"}
BY TimetableAssumption

LEMMA DraftTypes == NoDraft \in Drafts /\ \A p \in Plans : p \in Plan /\ p.active
BY TimetableAssumption DEF Drafts

LEMMA InitInv == TimetableInit => TimetableInv
<1> SUFFICES ASSUME TimetableInit PROVE TimetableInv
  OBVIOUS
<1>1. TimetableTypeOK
  BY DraftTypes DEF TimetableInit, NoRequest, TimetableTypeOK, PlanSteps
<1>2. ASSUME NEW s \in Planners PROVE RequestOK(s)
  BY NoPlanIsNone DEF TimetableInit, NoRequest, RequestOK, DraftOK, LoadedOK, JudgedOK, RidesOK, Wants, Past
<1>3. ASSUME NEW s \in Planners, NEW t \in Planners PROVE Apart(s, t)
  BY DEF TimetableInit, NoRequest, Apart, HoldsPlanLock, Past
<1> QED
  BY <1>1, <1>2, <1>3 DEF TimetableInv

Still(t) == planAt'[t] = planAt[t] /\ draft'[t] = draft[t] /\ blind'[t] = blind[t]

\* One request moves and the tables do not.
LEMMA OneMoves ==
  ASSUME TimetableInv, TimetableTypeOK', UNCHANGED <<row, published>>,
         NEW s \in Planners, \A t \in Planners \ {s} : Still(t),
         RequestOK(s)', \A t \in Planners \ {s} : Apart(s, t)'
  PROVE  TimetableInv'
<1>1. ASSUME NEW t \in Planners PROVE RequestOK(t)'
  <2>1. CASE t # s
    BY <2>1 DEF TimetableInv, Still, RequestOK, DraftOK, LoadedOK, JudgedOK, RidesOK, Wants, Past, Active,
                PromisedOverRide, RideIn
  <2> QED
    BY <2>1
<1>2. ASSUME NEW t \in Planners, NEW u \in Planners, t # u PROVE Apart(t, u)'
  <2>1. CASE t # s /\ u # s
    BY <1>2, <2>1 DEF TimetableInv, Still, Apart, HoldsPlanLock, Past
  <2>2. CASE u = s
    BY <1>2, <2>2 DEF Apart
  <2> QED
    BY <1>2, <2>1, <2>2
<1> QED
  BY <1>1, <1>2 DEF TimetableInv

\* A request that has returned asks nothing of the tables.
LEMMA Returned ==
  ASSUME TimetableTypeOK, NEW s \in Planners, PlanReturn(s)
  PROVE  RequestOK(s)' /\ \A t \in Planners \ {s} : Apart(s, t)'
BY NoPlanIsNone DEF TimetableTypeOK, RequestOK, DraftOK, LoadedOK, JudgedOK, RidesOK, Wants, Past, Apart, HoldsPlanLock


\* A request ends and writes nothing.
LEMMA Refused ==
  ASSUME TimetableInv, NEW s \in Planners, PlanReturn(s), UNCHANGED <<row, published, blind>>
  PROVE  TimetableInv'
<1>1. TimetableTypeOK'
  BY DraftTypes DEF TimetableInv, TimetableTypeOK, PlanSteps
<1>2. \A t \in Planners \ {s} : Still(t)
  BY DEF TimetableInv, TimetableTypeOK, Still
<1>3. RequestOK(s)' /\ \A t \in Planners \ {s} : Apart(s, t)'
  BY Returned DEF TimetableInv
<1> QED
  BY <1>1, <1>2, <1>3, OneMoves

\* A request goes on to its next statement.
LEMMA GoesOn ==
  ASSUME TimetableInv, NEW s \in Planners, NEW step \in PlanSteps, PlanGoto(s, step),
         UNCHANGED <<row, published, draft>>, blind' \in [Planners -> SUBSET Schedules],
         \A t \in Planners \ {s} : blind'[t] = blind[t]
  PROVE  TimetableTypeOK' /\ \A t \in Planners \ {s} : Still(t)
BY DEF TimetableInv, TimetableTypeOK, Still

LEMMA CreateBegins ==
  ASSUME TimetableInv, NEW s \in Planners, NEW p \in Plans, BeginCreate(s, p)
  PROVE  TimetableInv'
<1> DEFINE d == [NoDraft EXCEPT !.op = "create", !.want = p]
<1>1. d \in Drafts /\ p \in Plan /\ p.active
  BY DraftTypes DEF Drafts
<1>2. planAt' = [planAt EXCEPT ![s] = "lock"] /\ draft' = [draft EXCEPT ![s] = d]
      /\ UNCHANGED <<row, published, blind>>
  BY DEF BeginCreate, BeginPlan
<1>3. TimetableTypeOK'
  BY <1>1, <1>2 DEF TimetableInv, TimetableTypeOK, PlanSteps
<1>4. planAt'[s] = "lock" /\ draft'[s] = d
  BY <1>2 DEF TimetableInv, TimetableTypeOK
<1>5. \A t \in Planners \ {s} : Still(t)
  BY <1>2 DEF TimetableInv, TimetableTypeOK, Still
<1>6. RequestOK(s)'
  BY <1>1, <1>4 DEF RequestOK, DraftOK, LoadedOK, JudgedOK, RidesOK, Wants, Past
<1>7. \A t \in Planners \ {s} : Apart(s, t)'
  BY <1>4 DEF Apart, HoldsPlanLock, Past
<1> QED
  BY <1>3, <1>5, <1>6, <1>7, <1>2, OneMoves

LEMMA UpdateBegins ==
  ASSUME TimetableInv, NEW s \in Planners, NEW k \in Schedules, NEW p \in Plans, NEW active \in BOOLEAN,
         BeginUpdate(s, k, p, active)
  PROVE  TimetableInv'
<1> DEFINE want == [p EXCEPT !.length = row[k].length, !.active = active]
           d == [NoDraft EXCEPT !.op = "update", !.key = k, !.loaded = row[k], !.want = want]
           step == IF active THEN "lock" ELSE "save"
<1>1. row[k] \in Plan /\ p \in Plan
  BY DraftTypes DEF BeginUpdate, TimetableInv, TimetableTypeOK
<1>2. want \in Plan /\ want.active = active
  BY <1>1 DEF Plan
<1>3. planAt' = [planAt EXCEPT ![s] = step] /\ draft' = [draft EXCEPT ![s] = d]
      /\ blind' = [blind EXCEPT ![s] = {}] /\ UNCHANGED <<row, published>>
  BY DEF BeginUpdate, BeginPlan
<1> HIDE DEF want
<1>4. d \in Drafts /\ step \in PlanSteps
  BY <1>1, <1>2, DraftTypes DEF Drafts, PlanSteps
<1>5. TimetableTypeOK'
  BY <1>3, <1>4 DEF TimetableInv, TimetableTypeOK
<1>6. /\ planAt'[s] = step /\ draft'[s].op = "update" /\ draft'[s].key = k
      /\ draft'[s].loaded = row[k] /\ draft'[s].want = want /\ row' = row
  BY <1>3 DEF TimetableInv, TimetableTypeOK
<1>7. \A t \in Planners \ {s} : Still(t)
  BY <1>3 DEF TimetableInv, TimetableTypeOK, Still
<1>8. RequestOK(s)'
  BY <1>1, <1>2, <1>6 DEF RequestOK, DraftOK, LoadedOK, SameRow, JudgedOK, RidesOK, Wants, Past
<1>9. \A t \in Planners \ {s} : Apart(s, t)'
  BY <1>2, <1>6 DEF Apart, HoldsPlanLock, Past
<1> QED
  BY <1>3, <1>5, <1>7, <1>8, <1>9, OneMoves

LEMMA PublishingBegins ==
  ASSUME TimetableInv, NEW s \in Planners, NEW at \in Departures, BeginPublishing(s, at)
  PROVE  TimetableInv'
<1> DEFINE d == [NoDraft EXCEPT !.op = "publish", !.depart = at]
<1>1. d \in Drafts
  BY DraftTypes, TimetableAssumption DEF Drafts
<1>2. planAt' = [planAt EXCEPT ![s] = "judgePublish"] /\ draft' = [draft EXCEPT ![s] = d]
      /\ UNCHANGED <<row, published, blind>>
  BY DEF BeginPublishing, BeginPlan
<1>3. TimetableTypeOK'
  BY <1>1, <1>2 DEF TimetableInv, TimetableTypeOK, PlanSteps
<1>4. planAt'[s] = "judgePublish" /\ draft'[s] = d
  BY <1>2 DEF TimetableInv, TimetableTypeOK
<1>5. \A t \in Planners \ {s} : Still(t)
  BY <1>2 DEF TimetableInv, TimetableTypeOK, Still
<1>6. RequestOK(s)'
  BY <1>4 DEF RequestOK, DraftOK, LoadedOK, JudgedOK, RidesOK, Wants, Past
<1>7. \A t \in Planners \ {s} : Apart(s, t)'
  BY <1>4 DEF Apart, HoldsPlanLock, Past
<1> QED
  BY <1>3, <1>5, <1>6, <1>7, <1>2, OneMoves


LEMMA LockTaken ==
  ASSUME TimetableInv, NEW s \in Planners, TakePlanLock(s)
  PROVE  TimetableInv'
<1>1. PlanGoto(s, "judge") /\ UNCHANGED <<row, published, draft, blind>> /\ "judge" \in PlanSteps
  BY DEF TakePlanLock, PlanSteps
<1>2. TimetableTypeOK' /\ \A t \in Planners \ {s} : Still(t)
  BY <1>1, GoesOn DEF TimetableInv, TimetableTypeOK
<1>3. planAt[s] = "lock" /\ planAt'[s] = "judge"
  BY <1>1 DEF TakePlanLock, TimetableInv, TimetableTypeOK
<1>4. RequestOK(s)'
  BY <1>1, <1>3 DEF TimetableInv, RequestOK, DraftOK, LoadedOK, JudgedOK, RidesOK, Wants, Past
<1>5. ASSUME NEW t \in Planners \ {s} PROVE Apart(s, t)'
  <2>1. Still(t) /\ RequestOK(s) /\ RequestOK(t) /\ Apart(s, t)
    BY <1>2 DEF TimetableInv
  <2>2. HoldsPlanLock(t) => draft[t].op # draft[s].op
    BY DEF TakePlanLock, PlanLockFree, HoldsPlanLock
  <2> QED
    BY <1>1, <1>3, <2>1, <2>2 DEF Apart, HoldsPlanLock, Past, Still
<1> QED
  BY <1>1, <1>2, <1>4, <1>5, OneMoves

LEMMA SchedulesJudged ==
  ASSUME TimetableInv, NEW s \in Planners, JudgeSchedules(s)
  PROVE  TimetableInv'
<1>1. CASE \E k \in Active \ {draft[s].key} : OverlapDay(row[k], draft[s].want)
  BY <1>1, Refused DEF JudgeSchedules
<1>2. CASE ~ \E k \in Active \ {draft[s].key} : OverlapDay(row[k], draft[s].want)
  <2> DEFINE step == IF draft[s].op = "create" THEN "judgeRides" ELSE "save"
  <2>1. /\ PlanGoto(s, step) /\ UNCHANGED <<row, published, draft>> /\ step \in PlanSteps
        /\ blind' = [blind EXCEPT ![s] = @ \cap {draft[s].key}]
    BY <1>2 DEF JudgeSchedules, PlanSteps
  <2>2. blind' \in [Planners -> SUBSET Schedules] /\ \A t \in Planners \ {s} : blind'[t] = blind[t]
    BY <2>1 DEF TimetableInv, TimetableTypeOK
  <2>3. TimetableTypeOK' /\ \A t \in Planners \ {s} : Still(t)
    BY <2>1, <2>2, GoesOn
  <2>4. /\ planAt[s] = "judge" /\ planAt'[s] = step /\ draft' = draft /\ row' = row
        /\ blind'[s] = blind[s] \cap {draft[s].key}
    BY <2>1 DEF JudgeSchedules, TimetableInv, TimetableTypeOK
  <2>5. RequestOK(s) /\ Wants(s) /\ draft[s].want.active
    BY <2>4 DEF TimetableInv, RequestOK, DraftOK
  <2>6. DraftOK(s)' /\ LoadedOK(s)'
    BY <2>4, <2>5 DEF RequestOK, DraftOK, LoadedOK, Wants
  <2>7. Active' = Active
    BY <2>4 DEF Active
  <2>8. JudgedOK(s)'
    BY <1>2, <2>4, <2>7 DEF JudgedOK
  <2>9. RidesOK(s)'
    BY <2>4 DEF RidesOK
  <2>10. ASSUME NEW t \in Planners \ {s} PROVE Apart(s, t)'
    <3>1. Still(t) /\ Apart(s, t) /\ RequestOK(t)
      BY <2>3 DEF TimetableInv
    <3>2. draft[s].op = "create" => planAt[t] # "insert"
      BY DEF JudgeSchedules, RideLockFree
    <3> QED
      BY <2>4, <3>1, <3>2 DEF Apart, HoldsPlanLock, Past, Still
  <2> QED
    BY <2>1, <2>3, <2>6, <2>8, <2>9, <2>10, OneMoves DEF RequestOK
<1> QED
  BY <1>1, <1>2

LEMMA RidesJudged ==
  ASSUME TimetableInv, NEW s \in Planners, JudgeRides(s)
  PROVE  TimetableInv'
<1>1. CASE PromisedOverRide(draft[s].want)
  BY <1>1, Refused DEF JudgeRides, PromisedOverRide
<1>2. CASE ~PromisedOverRide(draft[s].want)
  <2>1. /\ PlanGoto(s, "save") /\ UNCHANGED <<row, published, draft, blind>> /\ "save" \in PlanSteps
    BY <1>2 DEF JudgeRides, PromisedOverRide, PlanSteps
  <2>2. TimetableTypeOK' /\ \A t \in Planners \ {s} : Still(t)
    BY <2>1, GoesOn DEF TimetableInv, TimetableTypeOK
  <2>3. planAt[s] = "judgeRides" /\ planAt'[s] = "save"
    BY <2>1 DEF JudgeRides, TimetableInv, TimetableTypeOK
  <2>4. RequestOK(s)
    BY DEF TimetableInv
  <2>5. DraftOK(s)' /\ LoadedOK(s)' /\ JudgedOK(s)'
    BY <2>1, <2>3, <2>4 DEF RequestOK, DraftOK, LoadedOK, JudgedOK, Wants, Past, Active
  <2>6. RidesOK(s)'
    BY <1>2, <2>1 DEF RidesOK, PromisedOverRide, RideIn
  <2>7. ASSUME NEW t \in Planners \ {s} PROVE Apart(s, t)'
    <3>1. Still(t) /\ Apart(s, t)
      BY <2>2 DEF TimetableInv
    <3> QED
      BY <2>1, <2>3, <3>1 DEF Apart, HoldsPlanLock, Past, Still
  <2> QED
    BY <2>1, <2>2, <2>5, <2>6, <2>7, OneMoves DEF RequestOK
<1> QED
  BY <1>1, <1>2

LEMMA PublishJudged ==
  ASSUME TimetableInv, NEW s \in Planners, JudgePublish(s)
  PROVE  TimetableInv'
<1>1. CASE RideIn(draft[s].depart, draft[s].depart + RideLength)
  BY <1>1, Refused DEF JudgePublish
<1>2. CASE ~RideIn(draft[s].depart, draft[s].depart + RideLength)
  <2>1. /\ PlanGoto(s, "insert") /\ UNCHANGED <<row, published, draft, blind>> /\ "insert" \in PlanSteps
    BY <1>2 DEF JudgePublish, PlanSteps
  <2>2. TimetableTypeOK' /\ \A t \in Planners \ {s} : Still(t)
    BY <2>1, GoesOn DEF TimetableInv, TimetableTypeOK
  <2>3. planAt[s] = "judgePublish" /\ planAt'[s] = "insert" /\ RequestOK(s)
    BY <2>1 DEF JudgePublish, TimetableInv, TimetableTypeOK
  <2>4. draft[s].op = "publish"
    BY <2>3 DEF RequestOK, DraftOK
  <2>5. RequestOK(s)'
    BY <2>1, <2>3, <2>4 DEF RequestOK, DraftOK, LoadedOK, JudgedOK, RidesOK, Wants, Past
  <2>6. ASSUME NEW t \in Planners \ {s} PROVE Apart(s, t)'
    <3>1. Still(t) /\ ~(draft[t].op = "create" /\ Past(t))
      BY <2>2 DEF JudgePublish, RideLockFree, Past
    <3> QED
      BY <2>1, <2>3, <2>4, <3>1 DEF Apart, HoldsPlanLock, Past, Still
  <2> QED
    BY <2>1, <2>2, <2>5, <2>6, OneMoves
<1> QED
  BY <1>1, <1>2


-----------------------------------------------------------------------------
(* Requests and endpoints that write.                                        *)

\* A request s writes schedule k and returns.  To another request the write is
\* news if it has judged, unless the lock of s kept the two apart.
LEMMA Written ==
  ASSUME TimetableInv, NEW s \in Planners, NEW k \in Schedules, NEW p \in Plan,
         planAt[s] = "save", row' = [row EXCEPT ![k] = p], PlanReturn(s), Noticed(s, k), UNCHANGED published
  PROVE  TimetableInv'
<1>1. TimetableTypeOK'
  <2>1. blind' \in [Planners -> SUBSET Schedules]
    BY DEF Noticed, TimetableInv, TimetableTypeOK
  <2> QED
    BY <2>1, DraftTypes DEF TimetableInv, TimetableTypeOK, PlanSteps
<1>2. RequestOK(s)' /\ \A t \in Planners \ {s} : Apart(s, t)' /\ Apart(t, s)'
  BY Returned DEF TimetableInv, Apart
<1>3. ASSUME NEW t \in Planners \ {s} PROVE RequestOK(t)'
  <2>1. planAt'[t] = planAt[t] /\ draft'[t] = draft[t] /\ RequestOK(t) /\ Apart(s, t) /\ RequestOK(s)
    BY DEF TimetableInv, TimetableTypeOK
  <2>2. \A j \in Schedules \ {k} : row'[j] = row[j]
    BY DEF TimetableInv, TimetableTypeOK
  <2>3. /\ blind[t] \subseteq blind'[t]
        /\ draft[t].key = k => k \in blind'[t]
        /\ Past(t) /\ (draft[t].op # draft[s].op \/ Unlocked(s) \/ Unlocked(t)) => k \in blind'[t]
    BY DEF Noticed, Past
  <2>4. DraftOK(t)' /\ RidesOK(t)'
    BY <2>1 DEF RequestOK, DraftOK, RidesOK, Wants, PromisedOverRide, RideIn
  <2>5. LoadedOK(t)'
    BY <2>1, <2>2, <2>3 DEF RequestOK, LoadedOK, DraftOK, Wants
  <2>6. Past(t) => k \in blind'[t]
    <3>1. SUFFICES ASSUME Past(t), draft[t].op = draft[s].op, ~Unlocked(s), ~Unlocked(t) PROVE FALSE
      BY <2>3
    <3>2. HoldsPlanLock(s) /\ HoldsPlanLock(t)
      BY <3>1 DEF HoldsPlanLock, Unlocked, Past
    <3> QED
      BY <2>1, <3>1, <3>2 DEF Apart
  <2>7. JudgedOK(t)'
    <3>1. SUFFICES ASSUME Past(t), draft[t].want.active,
                          NEW j \in Active' \ (blind'[t] \cup {draft[t].key})
                   PROVE  ~OverlapDay(row'[j], draft[t].want)
      BY <2>1 DEF JudgedOK, Past
    <3>2. j # k /\ j \in Active \ (blind[t] \cup {draft[t].key})
      BY <2>2, <2>3, <2>6, <3>1 DEF Active
    <3> QED
      BY <2>1, <2>2, <3>1, <3>2 DEF RequestOK, JudgedOK, Active
  <2> QED
    BY <2>4, <2>5, <2>7 DEF RequestOK
<1>4. ASSUME NEW t \in Planners \ {s}, NEW u \in Planners \ {s}, t # u PROVE Apart(t, u)'
  BY <1>4 DEF TimetableInv, TimetableTypeOK, Apart, HoldsPlanLock, Past
<1> QED
  BY <1>1, <1>2, <1>3, <1>4 DEF TimetableInv

\* What a change writes: if it leaves the row active, the row it wants, unless
\* the row was written by another since it was loaded.
LEMMA MergedIs ==
  ASSUME NEW want \in Plan, NEW loaded \in Plan, NEW now \in Plan
  PROVE  /\ Merged(want, loaded, now) \in Plan
         /\ SameRow(loaded, now) /\ Merged(want, loaded, now).active
            => Merged(want, loaded, now) = want
<1>1. Merged(want, loaded, now) \in Plan
  BY DEF Merged, Column, Plan
<1>2. ASSUME SameRow(loaded, now), Merged(want, loaded, now).active
      PROVE  Merged(want, loaded, now) = want
  <2>1. /\ Merged(want, loaded, now).days = want.days
        /\ Merged(want, loaded, now).time = want.time
        /\ Merged(want, loaded, now).length = want.length
        /\ Merged(want, loaded, now).from = want.from
        /\ Merged(want, loaded, now).until = want.until
    BY <1>2 DEF Merged, Column, SameRow, Plan
  <2>2. Merged(want, loaded, now).active = want.active
    BY <1>2 DEF Merged, Column, SameRow, Plan
  <2> QED
    BY <1>1, <2>1, <2>2 DEF Plan
<1> QED
  BY <1>1, <1>2

\* The row a request is about to save, and the step that saves it.
LEMMA NewSaved ==
  ASSUME TimetableInv, NEW s \in Planners, SaveNew(s)
  PROVE  /\ draft[s].op = "create" /\ draft[s].want \in Plan /\ planAt[s] = "save"
         /\ \E k \in Schedules : row[k] = NoPlan /\ row' = [row EXCEPT ![k] = draft[s].want] /\ Noticed(s, k)
BY DEF SaveNew, FreeKeys, TimetableInv, RequestOK, DraftOK, Wants

LEMMA ChangeSaved ==
  ASSUME TimetableInv, NEW s \in Planners, SaveChange(s)
  PROVE  /\ draft[s].op = "update" /\ draft[s].want \in Plan /\ planAt[s] = "save"
         /\ draft[s].loaded \in Plan /\ draft[s].key \in Schedules /\ row[draft[s].key] \in Plan
         /\ row' = [row EXCEPT ![draft[s].key] = Merged(draft[s].want, draft[s].loaded, row[draft[s].key])]
         /\ Noticed(s, draft[s].key)
BY DEF SaveChange, TimetableInv, RequestOK, DraftOK, LoadedOK, Wants

LEMMA Deactivated ==
  ASSUME TimetableInv, NEW k \in Schedules, DeactivateSchedule(k)
  PROVE  TimetableInv'
<1>1. /\ row[k] \in Plan /\ row[k].active /\ row' = [row EXCEPT ![k] = [row[k] EXCEPT !.active = FALSE]]
      /\ UNCHANGED <<published, planAt, draft, blind>>
  BY DEF DeactivateSchedule, TimetableInv, TimetableTypeOK
<1>2. [row[k] EXCEPT !.active = FALSE] \in Plan /\ ~[row[k] EXCEPT !.active = FALSE].active
  BY <1>1 DEF Plan
<1>3. TimetableTypeOK'
  BY <1>1, <1>2 DEF TimetableInv, TimetableTypeOK
<1>4. ASSUME NEW s \in Planners PROVE RequestOK(s)'
  <2>1. RequestOK(s) /\ \A j \in Schedules \ {k} : row'[j] = row[j]
    BY <1>1 DEF TimetableInv, TimetableTypeOK
  <2>2. row'[k] = [row[k] EXCEPT !.active = FALSE]
    BY <1>1 DEF TimetableInv, TimetableTypeOK
  <2>3. DraftOK(s)' /\ RidesOK(s)'
    BY <1>1, <2>1 DEF RequestOK, DraftOK, RidesOK, Wants, PromisedOverRide, RideIn
  <2>4. LoadedOK(s)'
    <3>1. CASE draft[s].op = "update" /\ draft[s].key = k
      <4>1. draft[s].loaded \in Plan
        BY <2>1, <3>1 DEF RequestOK, DraftOK
      <4>2. draft[s].key \notin blind[s] => row[k] = draft[s].loaded
        BY <1>1, <1>2, <2>1, <3>1, <4>1 DEF RequestOK, LoadedOK, SameRow, Plan
      <4> QED
        BY <1>1, <1>2, <2>2, <3>1, <4>2 DEF LoadedOK, SameRow
    <3>2. CASE draft[s].op = "update" /\ draft[s].key # k
      BY <1>1, <2>1, <3>2 DEF RequestOK, DraftOK, LoadedOK
    <3> QED
      BY <1>1, <3>1, <3>2 DEF LoadedOK
  <2>5. Active' \subseteq Active \ {k}
    BY <1>1, <1>2, <2>1, <2>2 DEF Active
  <2>6. JudgedOK(s)'
    BY <1>1, <2>1, <2>5 DEF RequestOK, JudgedOK, Past, Active
  <2> QED
    BY <2>3, <2>4, <2>6 DEF RequestOK
<1>5. ASSUME NEW s \in Planners, NEW t \in Planners, s # t PROVE Apart(s, t)'
  BY <1>1, <1>5 DEF TimetableInv, Apart, HoldsPlanLock, Past
<1> QED
  BY <1>3, <1>4, <1>5 DEF TimetableInv

\* A ride is published while no creation is past its queries.
LEMMA Published ==
  ASSUME TimetableInv, NEW s \in Planners, InsertPublished(s)
  PROVE  TimetableInv'
<1>1. PlanReturn(s) /\ planAt[s] = "insert" /\ UNCHANGED <<row, blind>>
      /\ published' = published \cup {draft[s].depart}
  BY DEF InsertPublished
<1>2. TimetableTypeOK'
  BY <1>1, DraftTypes DEF TimetableInv, TimetableTypeOK, RequestOK, DraftOK, PlanSteps
<1>3. RequestOK(s)' /\ \A t \in Planners \ {s} : Apart(s, t)' /\ Apart(t, s)'
  BY <1>1, Returned DEF TimetableInv, Apart
<1>4. ASSUME NEW t \in Planners \ {s} PROVE RequestOK(t)'
  <2>1. planAt'[t] = planAt[t] /\ draft'[t] = draft[t] /\ RequestOK(t) /\ Apart(s, t)
    BY <1>1 DEF TimetableInv, TimetableTypeOK
  <2>2. ~(draft[t].op = "create" /\ planAt[t] = "save")
    BY <1>1, <2>1 DEF Apart, Past
  <2> QED
    BY <1>1, <2>1, <2>2 DEF RequestOK, DraftOK, LoadedOK, JudgedOK, RidesOK, Wants, Past, Active
<1>5. ASSUME NEW t \in Planners \ {s}, NEW u \in Planners \ {s}, t # u PROVE Apart(t, u)'
  BY <1>1, <1>5 DEF TimetableInv, TimetableTypeOK, Apart, HoldsPlanLock, Past
<1> QED
  BY <1>2, <1>3, <1>4, <1>5 DEF TimetableInv

LEMMA RideCancelled ==
  ASSUME TimetableInv, NEW r \in published, CancelPublished(r)
  PROVE  TimetableInv'
<1>1. published' \subseteq published /\ UNCHANGED <<row, planAt, draft, blind>>
  BY DEF CancelPublished
<1>2. TimetableTypeOK'
  BY <1>1 DEF TimetableInv, TimetableTypeOK
<1>3. ASSUME NEW s \in Planners PROVE RequestOK(s)'
  <2>1. RequestOK(s)
    BY DEF TimetableInv
  <2>2. RidesOK(s)'
    BY <1>1, <2>1 DEF RequestOK, RidesOK, PromisedOverRide, RideIn
  <2> QED
    BY <1>1, <2>1, <2>2 DEF RequestOK, DraftOK, LoadedOK, JudgedOK, Wants, Past, Active
<1>4. ASSUME NEW s \in Planners, NEW t \in Planners, s # t PROVE Apart(s, t)'
  BY <1>1, <1>4 DEF TimetableInv, Apart, HoldsPlanLock, Past
<1> QED
  BY <1>2, <1>3, <1>4 DEF TimetableInv

-----------------------------------------------------------------------------
(* Theorems.                                                                 *)

LEMMA EveryStep == TimetableInv /\ [TimetableNext]_timetableVars => TimetableInv'
<1> SUFFICES ASSUME TimetableInv, [TimetableNext]_timetableVars PROVE TimetableInv'
  OBVIOUS
<1>1. ASSUME NEW s \in Planners, SaveNew(s) PROVE TimetableInv'
  BY <1>1, NewSaved, Written DEF SaveNew
<1>2. ASSUME NEW s \in Planners, SaveChange(s) PROVE TimetableInv'
  BY <1>2, ChangeSaved, MergedIs, Written DEF SaveChange
<1>3. CASE UNCHANGED timetableVars
  <2>1. TimetableTypeOK' /\ \A s \in Planners : RequestOK(s)'
    BY <1>3 DEF timetableVars, TimetableInv, TimetableTypeOK, RequestOK, DraftOK, LoadedOK, JudgedOK, RidesOK,
                Wants, Past, Active, PromisedOverRide, RideIn
  <2>2. \A s, t \in Planners : s # t => Apart(s, t)'
    BY <1>3 DEF timetableVars, TimetableInv, Apart, HoldsPlanLock, Past
  <2> QED
    BY <2>1, <2>2 DEF TimetableInv
<1> QED
  BY <1>1, <1>2, <1>3, CreateBegins, UpdateBegins, PublishingBegins, LockTaken, SchedulesJudged, RidesJudged,
     PublishJudged, Published, Deactivated, RideCancelled DEF TimetableNext

LEMMA TimetableInvariant == TimetableSpec => []TimetableInv
  BY InitInv, EveryStep, PTL DEF TimetableSpec

\* Tables and local variables keep their types.
THEOREM TimetableTypes == TimetableSpec => []TimetableTypeOK
<1>1. TimetableInv => TimetableTypeOK
  BY DEF TimetableInv
<1> QED
  BY <1>1, TimetableInvariant, PTL

\* A request that goes from its save to its end saves.
LEMMA OnlySaves ==
  ASSUME TimetableInv, TimetableNext, NEW s \in Planners, planAt[s] = "save", planAt'[s] = "done"
  PROVE  SaveNew(s) \/ SaveChange(s)
<1>1. planAt \in [Planners -> PlanSteps]
  BY DEF TimetableInv, TimetableTypeOK
<1>2. ASSUME NEW t \in Planners, NEW step, PlanGoto(t, step) PROVE t = s
  BY <1>1, <1>2 DEF PlanGoto
<1>3. /\ \A k \in Schedules : ~DeactivateSchedule(k)
      /\ \A r \in published : ~CancelPublished(r)
  BY DEF DeactivateSchedule, CancelPublished
<1>4. ASSUME NEW t \in Planners
      PROVE /\ \A p \in Plans : BeginCreate(t, p) => t = s
            /\ \A at \in Departures : BeginPublishing(t, at) => t = s
            /\ TakePlanLock(t) \/ JudgeSchedules(t) \/ JudgeRides(t) => t = s
            /\ JudgePublish(t) \/ InsertPublished(t) => t = s
            /\ SaveNew(t) \/ SaveChange(t) => t = s
  <2>1. ASSUME PlanReturn(t) PROVE t = s
    BY <1>2, <2>1 DEF PlanReturn
  <2>2. /\ \A p \in Plans : BeginCreate(t, p) => PlanGoto(t, "lock")
        /\ \A at \in Departures : BeginPublishing(t, at) => PlanGoto(t, "judgePublish")
    BY DEF BeginCreate, BeginPublishing, BeginPlan
  <2>3. TakePlanLock(t) => PlanGoto(t, "judge")
    BY DEF TakePlanLock
  <2>4. JudgeSchedules(t) => PlanReturn(t) \/ \E step : PlanGoto(t, step)
    BY Zenon DEF JudgeSchedules
  <2>5. JudgeRides(t) => PlanReturn(t) \/ PlanGoto(t, "save")
    BY Zenon DEF JudgeRides
  <2>6. JudgePublish(t) => PlanReturn(t) \/ PlanGoto(t, "insert")
    BY Zenon DEF JudgePublish
  <2>7. InsertPublished(t) \/ SaveNew(t) \/ SaveChange(t) => PlanReturn(t)
    BY Zenon DEF InsertPublished, SaveNew, SaveChange
  <2> QED
    BY <1>2, <2>1, <2>2, <2>3, <2>4, <2>5, <2>6, <2>7, Zenon
<1>5. ASSUME NEW t \in Planners, NEW k \in Schedules, NEW p \in Plans, NEW active \in BOOLEAN,
             BeginUpdate(t, k, p, active)
      PROVE  t = s
  BY <1>2, <1>5 DEF BeginUpdate, BeginPlan
<1>6. /\ \A p \in Plans : ~BeginCreate(s, p)
      /\ \A k \in Schedules, p \in Plans, active \in BOOLEAN : ~BeginUpdate(s, k, p, active)
      /\ \A at \in Departures : ~BeginPublishing(s, at)
      /\ ~TakePlanLock(s) /\ ~JudgeSchedules(s) /\ ~JudgeRides(s) /\ ~JudgePublish(s) /\ ~InsertPublished(s)
  BY DEF BeginCreate, BeginUpdate, BeginPublishing, BeginPlan, TakePlanLock, JudgeSchedules, JudgeRides,
         JudgePublish, InsertPublished
<1> QED
  BY <1>3, <1>4, <1>5, <1>6 DEF TimetableNext

\* The row a request leaves behind, if it is active and not news to it, is the
\* one it judged.
LEMMA JudgedStep ==
  ASSUME TimetableInv, TimetableNext, NEW s \in Planners, NEW k \in Schedules,
         planAt[s] = "save", planAt'[s] = "done", row'[k] # row[k], row'[k].active, k \notin blind[s]
  PROVE  /\ \A j \in Active \ ({k} \cup blind[s]) : ~PromisedTwice(row'[k], row[j])
         /\ row[k] = NoPlan => ~PromisedOverRide(row'[k])
<1> DEFINE want == draft[s].want
<1>1. row'[k] = want /\ want \in Plan /\ want.active /\ k \notin Active \ {draft[s].key}
      /\ (row[k] = NoPlan => draft[s].op = "create")
      /\ Active \ ({k} \cup blind[s]) \subseteq Active \ (blind[s] \cup {draft[s].key})
  <2>1. CASE SaveNew(s)
    <3>1. PICK j \in Schedules : row[j] = NoPlan /\ row' = [row EXCEPT ![j] = want]
      BY <2>1, NewSaved
    <3>2. draft[s].op = "create" /\ want \in Plan /\ want.active /\ draft[s].key = NoPlan
      BY <2>1, NewSaved DEF TimetableInv, RequestOK, DraftOK
    <3>3. j = k /\ row'[k] = want
      BY <3>1 DEF TimetableInv, TimetableTypeOK
    <3> QED
      BY <3>1, <3>2, <3>3, NoPlanIsNone DEF Active
  <2>2. CASE SaveChange(s)
    <3>1. /\ draft[s].op = "update" /\ want \in Plan /\ draft[s].key \in Schedules
          /\ draft[s].loaded \in Plan /\ row[draft[s].key] \in Plan
          /\ row' = [row EXCEPT ![draft[s].key] = Merged(want, draft[s].loaded, row[draft[s].key])]
      BY <2>2, ChangeSaved
    <3>2. k = draft[s].key /\ row'[k] = Merged(want, draft[s].loaded, row[k])
      BY <3>1 DEF TimetableInv, TimetableTypeOK
    <3>3. SameRow(draft[s].loaded, row[k])
      BY <3>1, <3>2 DEF TimetableInv, RequestOK, LoadedOK
    <3>4. row'[k] = want
      BY <3>1, <3>2, <3>3, MergedIs
    <3> QED
      BY <3>1, <3>2, <3>4, NoPlanIsNone
  <2> QED
    BY <2>1, <2>2, OnlySaves
<1>2. JudgedOK(s) /\ RidesOK(s) /\ Past(s)
  BY DEF TimetableInv, RequestOK, Past
<1>3. ASSUME NEW j \in Active \ ({k} \cup blind[s]) PROVE ~PromisedTwice(row'[k], row[j])
  <2>1. ~OverlapDay(row[j], want) /\ row[j] \in Plan
    BY <1>1, <1>2, <1>3 DEF JudgedOK, Active, TimetableInv, TimetableTypeOK
  <2> QED
    BY <1>1, <2>1, JudgementFinds, MeetingIsMutual
<1>4. row[k] = NoPlan => ~PromisedOverRide(row'[k])
  BY <1>1, <1>2 DEF RidesOK
<1> QED
  BY <1>3, <1>4

\* Whatever a request leaves active promises the driver to no two rides at
\* once: the comparison of weekdays finds every pair of rides that meet, and
\* what was found still holds at the commit.
THEOREM PromisesKept == TimetableSpec => PromisesAreJudged
<1> DEFINE Judged ==
      \A s \in Planners, k \in Schedules :
        (/\ planAt[s] = "save" /\ planAt'[s] = "done"
         /\ row'[k] # row[k] /\ row'[k].active /\ k \notin blind[s])
        => /\ \A j \in Active \ ({k} \cup blind[s]) : ~PromisedTwice(row'[k], row[j])
           /\ row[k] = NoPlan => ~PromisedOverRide(row'[k])
<1>1. TimetableInv /\ [TimetableNext]_timetableVars => [Judged]_timetableVars
  <2> SUFFICES ASSUME TimetableInv, TimetableNext PROVE Judged
    OBVIOUS
  <2> QED
    BY JudgedStep
<1> QED
  BY <1>1, TimetableInvariant, PTL DEF TimetableSpec, PromisesAreJudged
==============================================================================
