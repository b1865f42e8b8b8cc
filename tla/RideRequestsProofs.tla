------------------------- MODULE RideRequestsProofs -------------------------
(***************************************************************************)
(* Theorems about RideRequests, for any drivers, passengers, departures    *)
(* and sessions.  The argument: from the query of the trigger to its       *)
(* commit a write that occupies a slot owns the driver's advisory lock, so *)
(* what the query found free is still free when the row appears; a row     *)
(* under change is kept from other writers by its row lock.                *)
(***************************************************************************)
EXTENDS RideRequests, TLAPS

Updates == {"retime", "reactivate"}

\* Rows that were inserted have a driver, an owner and a departure.
PlacedOK ==
  /\ \A r \in Trips : trip[r].status # "unused" => trip[r].driver \in Drivers /\ trip[r].start \in Starts
  /\ \A q \in AskIds : ask[q].status # "unused" => ask[q].owner \in Riders /\ ask[q].start \in Starts

\* The local variables of a session fit the statement it is at, and the rows
\* they name were inserted.
DealOK(s) ==
  /\ deal[s].op \in Inserts =>
       deal[s].driver \in Drivers /\ deal[s].start \in Starts /\ deal[s].trip = Free
  /\ deal[s].op = "accept" => /\ deal[s].ask \in AskIds /\ ask[deal[s].ask].status # "unused"
                              /\ deal[s].rider = ask[deal[s].ask].owner
  /\ deal[s].op \in Updates => /\ deal[s].trip \in Trips /\ trip[deal[s].trip].status # "unused"
                               /\ deal[s].driver = trip[deal[s].trip].driver
  /\ deal[s].op = "retime" => deal[s].start \in Starts
  /\ deal[s].op = "ask" => deal[s].rider \in Riders /\ deal[s].start \in Starts
  /\ deal[s].op = "withdraw" => deal[s].ask \in AskIds /\ ask[deal[s].ask].status # "unused"
  /\ askAt[s] \in {"query", "trigger", "commit"} => deal[s].op \in Inserts \cup Updates
  /\ askAt[s] \in {"askQuery", "askInsert"} => deal[s].op = "ask"
  /\ askAt[s] = "askCancel" => deal[s].op = "withdraw"
DealsOK == \A s \in AskSessions : DealOK(s)

\* Two writes that occupy slots of one driver, or change one row, are never
\* both between their trigger and their commit.
LocksOK ==
  \A s, t \in AskSessions : s # t /\ askAt[s] = "commit" /\ askAt[t] = "commit" =>
    /\ Occupies(s) /\ Occupies(t) => deal[s].driver # deal[t].driver
    /\ deal[s].trip # Free => deal[s].trip # deal[t].trip

\* What the trigger has found is so up to the commit.
GuardOK ==
  \A s \in AskSessions : askAt[s] = "commit" =>
    /\ deal[s].trip # Free => trip[deal[s].trip].status # "deleted"
    /\ Occupies(s) => ~DriverEngaged(deal[s].driver, Departure(s), deal[s].trip)

NeverDouble ==
  \A r, q \in Trips :
    /\ r # q /\ trip[r].status \in Occupying /\ trip[q].status \in Occupying
    /\ trip[r].driver = trip[q].driver
    => ~Overlaps(trip[r].start, trip[q].start)

AInv == AsksTypeOK /\ PlacedOK /\ DealsOK /\ LocksOK /\ GuardOK /\ NeverDouble

LEMMA NoDealFields ==
  /\ NoDeal \in Deals /\ NoDeal.op = Free /\ NoDeal.driver = Free /\ NoDeal.rider = Free
  /\ NoDeal.trip = Free /\ NoDeal.ask = Free /\ NoDeal.start = 0
  BY DEF NoDeal, Deals

LEMMA AsksInitInv == AsksInit => AInv
<1> SUFFICES ASSUME AsksInit PROVE AInv
  OBVIOUS
<1> USE AsksAssumption, NoDealFields DEF AsksInit
<1>1. AsksTypeOK
  BY DEF AsksTypeOK, TripRows, NoTrip, AskRows, NoAsk, AskSteps, TripStatus, AskStatus
<1>2. PlacedOK /\ LocksOK /\ GuardOK /\ NeverDouble
  BY DEF PlacedOK, LocksOK, GuardOK, NeverDouble, NoTrip, NoAsk, Occupying
<1>3. DealsOK
  BY DEF DealsOK, DealOK, Inserts, Updates, AskOps
<1> QED
  BY <1>1, <1>2, <1>3 DEF AInv

LEMMA FreshIsMember == ASSUME NEW keys, NEW k \in FreshOf(keys) PROVE k \in keys
  BY DEF FreshOf

\* A request begins, with arguments that fit its operation; no lock is held.
LEMMA BeginStep ==
  ASSUME AInv, NEW s \in AskSessions, NEW d \in Deals, NEW step \in {"query", "trigger", "askQuery", "askCancel"},
         BeginDeal(s, d, step),
         DealOK(s)'
  PROVE  AInv'
<1> USE AsksAssumption DEF AInv, BeginDeal, AskGoto, askTables
<1>1. AsksTypeOK'
  BY DEF AsksTypeOK, AskSteps
<1>2. PlacedOK'
  BY DEF PlacedOK
<1>3. DealsOK'
  <2> SUFFICES ASSUME NEW t \in AskSessions PROVE DealOK(t)'
    BY DEF DealsOK
  <2>1. CASE t = s
    BY <2>1
  <2>2. CASE t # s
    <3>1. deal'[t] = deal[t] /\ askAt'[t] = askAt[t]
      BY <2>2 DEF AsksTypeOK
    <3> QED
      BY <3>1 DEF DealsOK, DealOK
  <2> QED
    BY <2>1, <2>2
<1>4. \A t \in AskSessions : askAt'[t] = "commit" => askAt[t] = "commit" /\ deal'[t] = deal[t]
  BY DEF AsksTypeOK
<1>5. LocksOK'
  BY <1>4 DEF LocksOK, Occupies
<1>6. GuardOK'
  BY <1>4 DEF GuardOK, Occupies, DriverEngaged, Departure
<1>7. NeverDouble'
  BY DEF NeverDouble
<1> QED
  BY <1>1, <1>2, <1>3, <1>5, <1>6, <1>7

\* A change of a ride begins with the driver of the row it loaded.
LEMMA BeginUpdateStep ==
  ASSUME AInv, NEW s \in AskSessions, NEW d \in Deals, BeginDeal(s, d, "trigger"),
         d.op \in Updates, d.trip \in Trips, trip[d.trip].status # "unused",
         d.driver = trip[d.trip].driver, d.start \in Starts \/ d.op = "reactivate"
  PROVE  AInv'
<1>1. askAt'[s] = "trigger" /\ deal'[s] = d /\ UNCHANGED trip
  BY DEF BeginDeal, AskGoto, askTables, AInv, AsksTypeOK
<1>2. DealOK(s)'
  BY <1>1 DEF DealOK, Updates, Inserts
<1> QED
  BY <1>2, BeginStep

LEMMA BeginAnyStep == ASSUME AInv, NEW s \in AskSessions, BeginAny(s) PROVE AInv'
<1> USE AsksAssumption, NoDealFields DEF AInv, BeginDeal, AskGoto, askTables, AsksTypeOK, PlacedOK,
        DealOK, Deals, AskOps, Inserts, Updates
<1>1. ASSUME NEW d \in Drivers, NEW w \in Starts, BeginPublish(s, d, w) PROVE AInv'
  BY <1>1, BeginStep DEF BeginPublish
<1>2. ASSUME NEW d \in Drivers, NEW w \in Starts, BeginInsert(s, d, w) PROVE AInv'
  BY <1>2, BeginStep DEF BeginInsert
<1>3. ASSUME NEW r \in Trips, NEW w \in Starts, BeginRetime(s, r, w) PROVE AInv'
  <2> DEFINE new == [NoDeal EXCEPT !.op = "retime", !.driver = trip[r].driver, !.trip = r, !.start = w]
  <2>1. trip[r].status # "unused" /\ trip[r].driver \in Drivers
    BY <1>3 DEF BeginRetime
  <2>2. /\ new \in Deals /\ new.op = "retime" /\ new.driver = trip[r].driver
        /\ new.trip = r /\ new.start = w
    BY <2>1
  <2> QED
    BY <1>3, <2>1, <2>2, BeginUpdateStep DEF BeginRetime
<1>4. ASSUME NEW r \in Trips, BeginReactivate(s, r) PROVE AInv'
  <2> DEFINE new == [NoDeal EXCEPT !.op = "reactivate", !.driver = trip[r].driver, !.trip = r]
  <2>1. trip[r].status # "unused" /\ trip[r].driver \in Drivers
    BY <1>4 DEF BeginReactivate
  <2>2. new \in Deals /\ new.op = "reactivate" /\ new.driver = trip[r].driver /\ new.trip = r
    BY <2>1
  <2> QED
    BY <1>4, <2>1, <2>2, BeginUpdateStep DEF BeginReactivate
<1>5. ASSUME NEW d \in Drivers, NEW q \in AskIds, BeginAccept(s, d, q) PROVE AInv'
  BY <1>5, BeginStep DEF BeginAccept
<1>6. ASSUME NEW p \in Riders, NEW w \in Starts, BeginAsk(s, p, w) PROVE AInv'
  BY <1>6, BeginStep DEF BeginAsk
<1>7. ASSUME NEW q \in AskIds, BeginWithdraw(s, q) PROVE AInv'
  BY <1>7, BeginStep DEF BeginWithdraw
<1> QED
  BY <1>1, <1>2, <1>3, <1>4, <1>5, <1>6, <1>7 DEF BeginAny

\* A request that is refused ends, and leaves its locks and variables.
LEMMA ReturnStep ==
  ASSUME AInv, NEW s \in AskSessions, AskReturn(s), UNCHANGED askTables
  PROVE  AInv'
<1> USE AsksAssumption, NoDealFields DEF AInv, AskReturn, AskGoto, askTables
<1>1. AsksTypeOK' /\ PlacedOK' /\ NeverDouble'
  BY DEF AsksTypeOK, AskSteps, PlacedOK, NeverDouble
<1>2. DealsOK'
  BY DEF AsksTypeOK, DealsOK, DealOK, Inserts, Updates, AskOps
<1>3. \A t \in AskSessions : askAt'[t] = "commit" => askAt[t] = "commit" /\ deal'[t] = deal[t]
  BY DEF AsksTypeOK
<1>4. LocksOK' /\ GuardOK'
  BY <1>3 DEF LocksOK, GuardOK, Occupies, DriverEngaged, Departure
<1> QED
  BY <1>1, <1>2, <1>4

\* A request goes on to a statement it is not yet committing.
LEMMA GoOnStep ==
  ASSUME AInv, NEW s \in AskSessions, NEW step \in AskSteps, AskGoto(s, step),
         UNCHANGED askTables, UNCHANGED deal, DealOK(s)', step # "commit"
  PROVE  AInv'
<1> USE AsksAssumption DEF AInv, AskGoto, askTables
<1>1. AsksTypeOK' /\ PlacedOK' /\ NeverDouble'
  BY DEF AsksTypeOK, AskSteps, PlacedOK, NeverDouble
<1>2. DealsOK'
  BY DEF AsksTypeOK, DealsOK, DealOK
<1>3. \A t \in AskSessions : askAt'[t] = "commit" => askAt[t] = "commit"
  BY DEF AsksTypeOK
<1>4. LocksOK' /\ GuardOK'
  BY <1>3 DEF LocksOK, GuardOK, Occupies, DriverEngaged, Departure
<1> QED
  BY <1>1, <1>2, <1>4

LEMMA QueryStep ==
  ASSUME AInv, NEW s \in AskSessions, QueryRides(s) \/ QueryAsks(s)
  PROVE  AInv'
<1>1. CASE AskReturn(s) /\ UNCHANGED askTables
  BY <1>1, ReturnStep
<1>2. CASE /\ \/ askAt[s] = "query" /\ AskGoto(s, "trigger")
              \/ askAt[s] = "askQuery" /\ AskGoto(s, "askInsert")
           /\ UNCHANGED askTables /\ UNCHANGED deal
  <2>1. DealOK(s)'
    BY <1>2 DEF AInv, AsksTypeOK, DealsOK, DealOK, AskGoto, askTables, Inserts, Updates
  <2> QED
    BY <1>2, <2>1, GoOnStep DEF AskSteps
<1>3. CASE QueryRides(s)
  <2>1. CASE DriverEngaged(deal[s].driver, deal[s].start, Free)
    BY <1>1, <1>3, <2>1 DEF QueryRides
  <2>2. CASE ~DriverEngaged(deal[s].driver, deal[s].start, Free)
    BY <1>2, <1>3, <2>2 DEF QueryRides
  <2> QED
    BY <2>1, <2>2
<1>4. CASE QueryAsks(s)
  <2>1. CASE RiderEngaged(deal[s].rider, deal[s].start)
    BY <1>1, <1>4, <2>1 DEF QueryAsks
  <2>2. CASE ~RiderEngaged(deal[s].rider, deal[s].start)
    BY <1>2, <1>4, <2>2 DEF QueryAsks
  <2> QED
    BY <2>1, <2>2
<1> QED
  BY <1>3, <1>4

\* The trigger: the locks it takes are those its guard has found free.
LEMMA TriggerStep == ASSUME AInv, NEW s \in AskSessions, Trigger(s) PROVE AInv'
<1> USE AsksAssumption DEF askTables
<1>1. CASE AskReturn(s)
  BY <1>1, ReturnStep DEF Trigger
<1>2. CASE AskGoto(s, "commit") /\ UNCHANGED deal
             /\ ~(Vanished(s) \/ (Occupies(s) /\ DriverEngaged(deal[s].driver, Departure(s), deal[s].trip)))
  <2> USE <1>2 DEF AInv, AskGoto
  <2>1. /\ askAt[s] = "trigger" /\ UNCHANGED <<trip, aboard, ask>> /\ ~Vanished(s)
        /\ RowFree(s, deal[s].trip) /\ (Occupies(s) => OverlapLockFree(s, deal[s].driver))
    BY DEF Trigger
  <2>2. AsksTypeOK' /\ PlacedOK' /\ NeverDouble'
    BY <2>1 DEF AsksTypeOK, AskSteps, PlacedOK, NeverDouble
  <2>3. DealsOK'
    BY <2>1 DEF AsksTypeOK, DealsOK, DealOK
  <2>4. LocksOK'
    BY <2>1 DEF AsksTypeOK, LocksOK, RowFree, OverlapLockFree, Guarded, Occupies
  <2>5. GuardOK'
    BY <2>1 DEF AsksTypeOK, GuardOK, Vanished, Occupies, DriverEngaged, Departure
  <2> QED
    BY <2>2, <2>3, <2>4, <2>5
<1> QED
  BY <1>1, <1>2 DEF Trigger

\* A ride appears: the slot was found free and the lock has kept it so.
LEMMA CommitInsertStep == ASSUME AInv, NEW s \in AskSessions, CommitInsert(s) PROVE AInv'
<1> USE AsksAssumption, NoDealFields DEF AInv
<1>1. /\ askAt[s] = "commit" /\ deal[s].op \in Inserts /\ AskReturn(s) /\ UNCHANGED aboard
  BY DEF CommitInsert
<1>2. PICK r \in FreshOf(UnusedTrips) :
        /\ trip' = [trip EXCEPT ![r] = [status |-> "open", driver |-> deal[s].driver,
                                       start |-> deal[s].start, rider |-> deal[s].rider,
                                       riding |-> deal[s].rider # Free]]
        /\ ask' = IF deal[s].op # "accept" THEN ask
                  ELSE [ask EXCEPT ![deal[s].ask].status = "accepted",
                                   ![deal[s].ask].driver = deal[s].driver,
                                   ![deal[s].ask].trip = r]
  BY DEF CommitInsert
<1>3. r \in Trips /\ trip[r].status = "unused"
  BY FreshIsMember DEF UnusedTrips
<1>4. /\ deal[s] \in Deals /\ deal[s].driver \in Drivers /\ deal[s].start \in Starts
      /\ deal[s].trip = Free /\ (deal[s].op = "accept" => deal[s].ask \in AskIds)
      /\ (deal[s].op = "accept" => ask[deal[s].ask].status # "unused")
  BY <1>1 DEF AsksTypeOK, DealsOK, DealOK
<1>5. AsksTypeOK'
  <2>1. trip' \in [Trips -> TripRows]
    <3>1. trip \in [Trips -> TripRows] /\ deal[s].rider \in Riders \cup {Free} /\ deal[s].start \in Nat
      BY <1>4 DEF AsksTypeOK, Deals
    <3>2. [status |-> "open", driver |-> deal[s].driver, start |-> deal[s].start,
           rider |-> deal[s].rider, riding |-> deal[s].rider # Free] \in TripRows
      BY <1>4, <3>1 DEF TripRows, TripStatus
    <3> QED
      BY <1>2, <3>1, <3>2
  <2>2. ask' \in [AskIds -> AskRows]
    <3>1. CASE deal[s].op # "accept"
      BY <1>2, <3>1 DEF AsksTypeOK
    <3>2. CASE deal[s].op = "accept"
      BY <1>2, <1>3, <1>4, <3>2 DEF AsksTypeOK, AskRows, AskStatus
    <3> QED
      BY <3>1, <3>2
  <2>3. aboard' \in [Trips -> SUBSET Riders] /\ askAt' \in [AskSessions -> AskSteps] /\ deal' \in [AskSessions -> Deals]
    BY <1>1 DEF AsksTypeOK, AskReturn, AskGoto, AskSteps
  <2> QED
    BY <2>1, <2>2, <2>3 DEF AsksTypeOK
<1>6. \A q \in AskIds : ask'[q].owner = ask[q].owner /\ ask'[q].start = ask[q].start
                        /\ (ask'[q].status = "unused" <=> ask[q].status = "unused")
  BY <1>2, <1>4 DEF AsksTypeOK
<1>7. \A x \in Trips : x # r => trip'[x] = trip[x]
  BY <1>2 DEF AsksTypeOK
<1>8. trip'[r].status = "open" /\ trip'[r].driver = deal[s].driver /\ trip'[r].start = deal[s].start
  BY <1>2, <1>3 DEF AsksTypeOK
<1>9. PlacedOK'
  BY <1>4, <1>6, <1>7, <1>8 DEF PlacedOK
<1>10. \A t \in AskSessions \ {s} : deal'[t] = deal[t] /\ askAt'[t] = askAt[t]
  BY <1>1 DEF AskReturn, AskGoto, AsksTypeOK
<1>11. deal'[s] = NoDeal /\ askAt'[s] = "done"
  BY <1>1 DEF AskReturn, AskGoto, AsksTypeOK
<1>12. DealsOK'
  <2> SUFFICES ASSUME NEW t \in AskSessions PROVE DealOK(t)'
    BY DEF DealsOK
  <2>1. CASE t = s
    BY <2>1, <1>11 DEF DealOK, Inserts, Updates, AskOps
  <2>2. CASE t # s
    <3>1. DealOK(t) /\ deal'[t] = deal[t] /\ askAt'[t] = askAt[t]
      BY <2>2, <1>10 DEF DealsOK
    <3>2. deal[t].op \in Updates => deal[t].trip # r
      BY <3>1, <1>3 DEF DealOK
    <3> QED
      BY <3>1, <3>2, <1>6, <1>7 DEF DealOK
  <2> QED
    BY <2>1, <2>2
<1>13. LocksOK'
  <2> SUFFICES ASSUME NEW t \in AskSessions, NEW u \in AskSessions, t # u,
                      askAt'[t] = "commit", askAt'[u] = "commit"
               PROVE  /\ Occupies(t)' /\ Occupies(u)' => deal'[t].driver # deal'[u].driver
                      /\ deal'[t].trip # Free => deal'[t].trip # deal'[u].trip
    BY DEF LocksOK
  <2>1. t # s /\ u # s
    BY <1>11
  <2>2. /\ deal[t].op = "retime" => deal[t].trip \in Trips \ {r}
        /\ deal[u].op = "retime" => deal[u].trip \in Trips \ {r}
    BY <1>3 DEF DealsOK, DealOK, Updates
  <2> QED
    BY <2>1, <2>2, <1>7, <1>10 DEF LocksOK, Occupies
<1>14. Occupies(s) /\ ~DriverEngaged(deal[s].driver, deal[s].start, Free)
  BY <1>1, <1>4 DEF GuardOK, Occupies, Departure, Inserts
<1>15. GuardOK'
  <2> SUFFICES ASSUME NEW t \in AskSessions, askAt'[t] = "commit"
               PROVE  /\ deal'[t].trip # Free => trip'[deal'[t].trip].status # "deleted"
                      /\ Occupies(t)' => ~DriverEngaged(deal[t].driver, Departure(t), deal[t].trip)'
    BY DEF GuardOK
  <2>1. t # s /\ deal'[t] = deal[t] /\ askAt[t] = "commit"
    BY <1>10, <1>11
  <2>2. DealOK(t)
    BY DEF DealsOK
  <2>3. deal[t].op \in Inserts \cup Updates
    BY <2>1, <2>2 DEF DealOK
  <2>4. deal[t].trip # Free => deal[t].trip \in Trips \ {r}
    BY <2>2, <2>3, <1>3 DEF DealOK
  <2>5. Occupies(t)' = Occupies(t) /\ Departure(t)' = Departure(t)
    <3>1. deal[t].op \in Updates => deal[t].trip \in Trips \ {r}
      BY <2>2, <1>3 DEF DealOK
    <3> QED
      BY <3>1, <2>1, <1>7 DEF Occupies, Departure, Updates
  <2>6. Occupies(t) => deal[t].driver # deal[s].driver
    BY <2>1, <1>1, <1>14 DEF LocksOK
  <2>7. ASSUME Occupies(t)
        PROVE  ~DriverEngaged(deal[t].driver, Departure(t), deal[t].trip)'
    <3>1. ~DriverEngaged(deal[t].driver, Departure(t), deal[t].trip)
      BY <2>1, <2>7 DEF GuardOK
    <3> QED
      BY <3>1, <2>1, <2>5, <2>6, <2>7, <1>7, <1>8 DEF DriverEngaged
  <2> QED
    BY <2>1, <2>4, <2>5, <2>7, <1>7 DEF GuardOK
<1>16. NeverDouble'
  <2>1. \A q \in Trips : q # r /\ trip[q].status \in Occupying /\ trip[q].driver = deal[s].driver
                         => ~Overlaps(trip[q].start, deal[s].start)
    BY <1>14, <1>3, AsksAssumption DEF DriverEngaged
  <2>2. \A q \in Trips : q # r /\ trip[q].status \in Occupying /\ trip[q].driver = deal[s].driver
                         => ~Overlaps(deal[s].start, trip[q].start)
    BY <2>1 DEF Overlaps
  <2> QED
    BY <2>1, <2>2, <1>7, <1>8 DEF NeverDouble
<1> QED
  BY <1>5, <1>9, <1>12, <1>13, <1>15, <1>16

\* A write of one ride by r's own transaction that leaves the others alone,
\* and keeps the driver: what a session at another row has found stays so if
\* the slot the ride now occupies is not its driver's.
LEMMA GuardKept ==
  ASSUME AInv, NEW r \in Trips, NEW t \in AskSessions,
         askAt[t] = "commit", deal'[t] = deal[t], deal[t].trip # r,
         \A x \in Trips : x # r => trip'[x] = trip[x],
         \/ trip'[r].status \notin Occupying
         \/ trip'[r].driver # deal[t].driver
         \/ ~Occupies(t)
         \/ /\ trip[r].status \in Occupying /\ trip'[r].driver = trip[r].driver
            /\ trip'[r].start = trip[r].start
  PROVE  /\ deal[t].trip # Free => trip'[deal[t].trip].status # "deleted"
         /\ Occupies(t)' = Occupies(t)
         /\ Occupies(t)' => ~DriverEngaged(deal[t].driver, Departure(t), deal[t].trip)'
<1> USE AsksAssumption DEF AInv
<1>1. DealOK(t) /\ deal[t].op \in Inserts \cup Updates
  BY DEF DealsOK, DealOK
<1>2. (deal[t].op \in Updates => deal[t].trip \in Trips \ {r}) /\ (deal[t].trip # Free => deal[t].op \in Updates)
  BY <1>1 DEF DealOK
<1>3. Occupies(t)' = Occupies(t) /\ Departure(t)' = Departure(t)
  BY <1>1, <1>2 DEF Occupies, Departure, Updates
<1>4. ASSUME Occupies(t) PROVE ~DriverEngaged(deal[t].driver, Departure(t), deal[t].trip)'
  <2>1. ~DriverEngaged(deal[t].driver, Departure(t), deal[t].trip)
    BY <1>4 DEF GuardOK
  <2>2. trip'[r].status \in Occupying /\ trip'[r].driver = deal[t].driver
          => /\ trip[r].status \in Occupying /\ trip[r].driver = deal[t].driver
             /\ trip'[r].start = trip[r].start
    BY <1>4
  <2> QED
    BY <2>1, <2>2, <1>3 DEF DriverEngaged
<1> QED
  BY <1>2, <1>3, <1>4 DEF GuardOK

LEMMA CommitUpdateStep == ASSUME AInv, NEW s \in AskSessions, CommitUpdate(s) PROVE AInv'
<1> DEFINE r == deal[s].trip
<1> USE AsksAssumption, NoDealFields DEF AInv
<1>1. /\ askAt[s] = "commit" /\ deal[s].op \in Updates /\ AskReturn(s) /\ UNCHANGED <<aboard, ask>>
  BY DEF CommitUpdate, Updates
<1>2. /\ deal[s] \in Deals /\ r \in Trips /\ r # Free /\ trip[r].status \notin {"unused", "deleted"}
      /\ deal[s].driver = trip[r].driver /\ deal[s].driver \in Drivers
      /\ (deal[s].op = "retime" => deal[s].start \in Starts) /\ trip[r].start \in Starts
  BY <1>1 DEF AsksTypeOK, DealsOK, DealOK, GuardOK, PlacedOK
<1>3. /\ \A x \in Trips : x # r => trip'[x] = trip[x]
      /\ trip'[r].driver = trip[r].driver
      /\ deal[s].op = "retime" => trip'[r].start = deal[s].start /\ trip'[r].status = trip[r].status
      /\ deal[s].op = "reactivate" => trip'[r].start = trip[r].start /\ trip'[r].status = "open"
      /\ trip'[r].start = Departure(s)
      /\ trip' \in [Trips -> TripRows]
  BY <1>1, <1>2 DEF CommitUpdate, AsksTypeOK, Departure, Updates, TripRows, TripStatus
<1>4. AsksTypeOK'
  BY <1>1, <1>3 DEF AsksTypeOK, AskReturn, AskGoto, AskSteps
<1>5. PlacedOK'
  BY <1>1, <1>2, <1>3 DEF PlacedOK, Updates
<1>6. \A t \in AskSessions \ {s} : deal'[t] = deal[t] /\ askAt'[t] = askAt[t]
  BY <1>1 DEF AskReturn, AskGoto, AsksTypeOK
<1>7. deal'[s] = NoDeal /\ askAt'[s] = "done"
  BY <1>1 DEF AskReturn, AskGoto, AsksTypeOK
<1>8. DealsOK'
  <2> SUFFICES ASSUME NEW t \in AskSessions PROVE DealOK(t)'
    BY DEF DealsOK
  <2>1. CASE t = s
    BY <2>1, <1>7 DEF DealOK, Inserts, Updates, AskOps
  <2>2. CASE t # s
    <3>1. DealOK(t) /\ deal'[t] = deal[t] /\ askAt'[t] = askAt[t]
      BY <2>2, <1>6 DEF DealsOK
    <3>2. \A x \in Trips : trip[x].status # "unused" => trip'[x].status # "unused" /\ trip'[x].driver = trip[x].driver
      BY <1>2, <1>3, <1>1 DEF Updates
    <3> QED
      BY <3>1, <3>2, <1>1 DEF DealOK
  <2> QED
    BY <2>1, <2>2
<1>9. (deal[s].op = "retime" /\ trip[r].status \notin Occupying) \/ Occupies(s)
  BY <1>1 DEF Occupies
<1>10. ASSUME NEW t \in AskSessions, askAt'[t] = "commit"
       PROVE  /\ t # s /\ askAt[t] = "commit" /\ deal'[t] = deal[t]
              /\ deal'[t].trip # Free => trip'[deal'[t].trip].status # "deleted"
              /\ Occupies(t)' = Occupies(t)
              /\ Occupies(t)' => ~DriverEngaged(deal[t].driver, Departure(t), deal[t].trip)'
  <2>1. t # s /\ askAt[t] = "commit" /\ deal'[t] = deal[t]
    BY <1>6, <1>7, <1>10
  <2>2. deal[t].trip # r
    BY <2>1, <1>1, <1>2 DEF LocksOK
  <2>3. \/ trip'[r].status \notin Occupying
        \/ trip'[r].driver # deal[t].driver
        \/ ~Occupies(t)
    BY <2>1, <1>1, <1>2, <1>3, <1>9 DEF LocksOK
  <2> QED
    BY <2>1, <2>2, <2>3, <1>2, <1>3, GuardKept
<1>11. LocksOK'
  BY <1>10 DEF LocksOK
<1>12. GuardOK'
  BY <1>10 DEF GuardOK
<1>13. NeverDouble'
  <2>1. CASE trip'[r].status \notin Occupying
    BY <2>1, <1>3 DEF NeverDouble
  <2>2. CASE trip'[r].status \in Occupying
    <3>1. Occupies(s)
      BY <2>2, <1>3, <1>9
    <3>2. \A q \in Trips : q # r /\ trip[q].status \in Occupying /\ trip[q].driver = trip[r].driver
                           => ~Overlaps(trip[q].start, trip'[r].start)
      BY <3>1, <1>1, <1>2, <1>3 DEF GuardOK, DriverEngaged
    <3>3. \A q \in Trips : q # r /\ trip[q].status \in Occupying /\ trip[q].driver = trip[r].driver
                           => ~Overlaps(trip'[r].start, trip[q].start)
      BY <3>2 DEF Overlaps
    <3> QED
      BY <3>2, <3>3, <1>3 DEF NeverDouble
  <2> QED
    BY <2>1, <2>2
<1> QED
  BY <1>4, <1>5, <1>8, <1>11, <1>12, <1>13

\* A change of status, and a deletion, in one transaction: no writer of the
\* row is between its trigger and its commit.
LEMMA OneRowStep ==
  ASSUME AInv, NEW r \in Trips, RowFree(Free, r), trip[r].status \notin {"unused", "deleted"},
         trip' \in [Trips -> TripRows], aboard' \in [Trips -> SUBSET Riders],
         ask' \in [AskIds -> AskRows],
         \A q \in AskIds : /\ ask'[q].owner = ask[q].owner /\ ask'[q].start = ask[q].start
                          /\ ask'[q].status = ask[q].status,
         UNCHANGED <<askAt, deal>>,
         \A x \in Trips : x # r => trip'[x] = trip[x],
         trip'[r].status # "unused" /\ trip'[r].driver = trip[r].driver /\ trip'[r].start = trip[r].start,
         trip'[r].status \in Occupying => trip[r].status \in Occupying
  PROVE  AInv'
<1> USE AsksAssumption DEF AInv
<1>1. AsksTypeOK' /\ PlacedOK'
  BY DEF AsksTypeOK, PlacedOK
<1>2. DealsOK'
  <2>1. \A x \in Trips : trip[x].status # "unused" => trip'[x].status # "unused" /\ trip'[x].driver = trip[x].driver
    OBVIOUS
  <2> QED
    BY <2>1 DEF DealsOK, DealOK
<1>3. ASSUME NEW t \in AskSessions, askAt'[t] = "commit"
      PROVE  /\ askAt[t] = "commit" /\ deal'[t] = deal[t]
             /\ deal'[t].trip # Free => trip'[deal'[t].trip].status # "deleted"
             /\ Occupies(t)' = Occupies(t)
             /\ Occupies(t)' => ~DriverEngaged(deal[t].driver, Departure(t), deal[t].trip)'
  <2>1. askAt[t] = "commit" /\ deal'[t] = deal[t] /\ deal[t].trip # r
    BY <1>3 DEF RowFree
  <2> QED
    BY <2>1, GuardKept
<1>4. LocksOK' /\ GuardOK'
  BY <1>3 DEF LocksOK, GuardOK
<1>5. NeverDouble'
  BY DEF NeverDouble
<1> QED
  BY <1>1, <1>2, <1>4, <1>5

LEMMA SetStatusStep == ASSUME AInv, NEW r \in Trips, NEW new \in TripStatus, SetStatus(r, new) PROVE AInv'
<1>1. trip' = [trip EXCEPT ![r].status = new, ![r].riding = IF new = "completed" THEN FALSE ELSE @]
  BY DEF SetStatus
<1>2. trip[r].status \in Occupying /\ new # "unused" /\ (new \in Occupying => trip[r].status \in Occupying)
  BY DEF SetStatus, ValidMoves, Occupying
<1>3. trip' \in [Trips -> TripRows] /\ aboard' \in [Trips -> SUBSET Riders]
  <2>1. trip \in [Trips -> TripRows] /\ aboard \in [Trips -> SUBSET Riders]
    BY DEF AInv, AsksTypeOK
  <2>2. (IF new = "completed" THEN FALSE ELSE trip[r].riding) \in BOOLEAN
    <3>1. trip[r].riding \in BOOLEAN
      BY <2>1 DEF TripRows
    <3> QED
      BY <3>1
  <2>3. trip' \in [Trips -> TripRows]
    BY <1>1, <2>1, <2>2 DEF TripRows
  <2>4. aboard' \in [Trips -> SUBSET Riders]
    BY <2>1 DEF SetStatus
  <2> QED
    BY <2>3, <2>4
<1>4. /\ \A x \in Trips : x # r => trip'[x] = trip[x]
      /\ trip'[r].status = new /\ trip'[r].driver = trip[r].driver /\ trip'[r].start = trip[r].start
  BY <1>1 DEF AInv, AsksTypeOK, TripRows
<1>5. RowFree(Free, r) /\ UNCHANGED ask /\ UNCHANGED <<askAt, deal>>
  BY DEF SetStatus
<1> QED
  BY <1>2, <1>3, <1>4, <1>5, OneRowStep DEF AInv, AsksTypeOK, Occupying

LEMMA DeleteTripStep == ASSUME AInv, NEW r \in Trips, DeleteTrip(r) PROVE AInv'
<1>1. /\ trip[r].status \notin {"unused", "deleted"} /\ RowFree(Free, r)
      /\ trip' = [trip EXCEPT ![r].status = "deleted", ![r].rider = Free]
      /\ ask' = [q \in AskIds |-> IF ask[q].trip = r THEN [ask[q] EXCEPT !.trip = Free] ELSE ask[q]]
      /\ UNCHANGED aboard /\ UNCHANGED <<askAt, deal>>
  BY DEF DeleteTrip
<1>2. trip' \in [Trips -> TripRows] /\ aboard' \in [Trips -> SUBSET Riders]
  <2>1. trip \in [Trips -> TripRows] /\ aboard \in [Trips -> SUBSET Riders]
    BY DEF AInv, AsksTypeOK
  <2>2. trip[r] \in TripRows /\ "deleted" \in TripStatus
    BY <2>1 DEF TripStatus
  <2>3. [trip[r] EXCEPT !.status = "deleted", !.rider = Free] \in TripRows
    BY <2>2 DEF TripRows
  <2> QED
    BY <1>1, <2>1, <2>3
<1>3. /\ ask' \in [AskIds -> AskRows]
      /\ \A q \in AskIds : /\ ask'[q].owner = ask[q].owner /\ ask'[q].start = ask[q].start
                           /\ ask'[q].status = ask[q].status
  BY <1>1 DEF AInv, AsksTypeOK, AskRows
<1>4. /\ \A x \in Trips : x # r => trip'[x] = trip[x]
      /\ trip'[r].status = "deleted" /\ trip'[r].driver = trip[r].driver /\ trip'[r].start = trip[r].start
  BY <1>1 DEF AInv, AsksTypeOK, TripRows
<1> QED
  BY <1>1, <1>2, <1>3, <1>4, OneRowStep DEF Occupying

\* Steps that leave `rides` alone.
LEMMA RequestRowStep ==
  ASSUME AInv, NEW s \in AskSessions, InsertAsk(s) \/ CommitWithdraw(s)
  PROVE  AInv'
<1> USE AsksAssumption, NoDealFields DEF AInv
<1>1. AskReturn(s) /\ UNCHANGED <<trip, aboard>>
  BY DEF InsertAsk, CommitWithdraw
<1>2. /\ ask' \in [AskIds -> AskRows]
      /\ \A q \in AskIds : /\ ask[q].status # "unused" => /\ ask'[q].status # "unused" /\ ask'[q].owner = ask[q].owner
                                                       /\ ask'[q].start = ask[q].start
                           /\ ask'[q].status # "unused" => ask'[q].owner \in Riders /\ ask'[q].start \in Starts
  <2>1. CASE InsertAsk(s)
    <3>1. PICK q \in FreshOf(UnusedAsks) :
            ask' = [ask EXCEPT ![q] = [NoAsk EXCEPT !.status = "pending", !.owner = deal[s].rider,
                                                    !.start = deal[s].start]]
      BY <2>1 DEF InsertAsk
    <3>2. q \in AskIds /\ ask[q].status = "unused"
      BY FreshIsMember DEF UnusedAsks
    <3>3. deal[s].rider \in Riders /\ deal[s].start \in Starts
      BY <2>1 DEF InsertAsk, DealsOK, DealOK
    <3> DEFINE row == [NoAsk EXCEPT !.status = "pending", !.owner = deal[s].rider, !.start = deal[s].start]
    <3>4. row \in AskRows /\ row.status = "pending" /\ row.owner = deal[s].rider /\ row.start = deal[s].start
      BY <3>3 DEF NoAsk, AskRows, AskStatus
    <3> HIDE DEF row
    <3>5. ask' = [ask EXCEPT ![q] = row]
      BY <3>1 DEF row
    <3> QED
      BY <3>2, <3>3, <3>4, <3>5 DEF AsksTypeOK, PlacedOK
  <2>2. CASE CommitWithdraw(s)
    <3>1. deal[s].ask \in AskIds /\ ask[deal[s].ask].status # "unused"
      BY <2>2 DEF CommitWithdraw, DealsOK, DealOK
    <3>2. ask' = [ask EXCEPT ![deal[s].ask].status = "cancelled"]
      BY <2>2 DEF CommitWithdraw
    <3> QED
      BY <3>1, <3>2 DEF AsksTypeOK, PlacedOK, AskRows, AskStatus
  <2> QED
    BY <2>1, <2>2
<1>3. AsksTypeOK' /\ PlacedOK'
  BY <1>1, <1>2 DEF AsksTypeOK, PlacedOK, AskReturn, AskGoto, AskSteps
<1>4. \A t \in AskSessions \ {s} : deal'[t] = deal[t] /\ askAt'[t] = askAt[t]
  BY <1>1 DEF AskReturn, AskGoto, AsksTypeOK
<1>5. deal'[s] = NoDeal /\ askAt'[s] = "done"
  BY <1>1 DEF AskReturn, AskGoto, AsksTypeOK
<1>6. DealsOK'
  <2> SUFFICES ASSUME NEW t \in AskSessions PROVE DealOK(t)'
    BY DEF DealsOK
  <2>1. CASE t = s
    BY <2>1, <1>5 DEF DealOK, Inserts, Updates, AskOps
  <2>2. CASE t # s
    BY <2>2, <1>1, <1>2, <1>4 DEF DealsOK, DealOK
  <2> QED
    BY <2>1, <2>2
<1>7. LocksOK' /\ GuardOK' /\ NeverDouble'
  BY <1>1, <1>4, <1>5 DEF LocksOK, GuardOK, NeverDouble, Occupies, DriverEngaged, Departure
<1> QED
  BY <1>3, <1>6, <1>7

LEMMA QuietStep ==
  ASSUME AInv, UNCHANGED <<trip, ask, askAt, deal>>, aboard' \in [Trips -> SUBSET Riders]
  PROVE  AInv'
  BY DEF AInv, AsksTypeOK, PlacedOK, DealsOK, DealOK, LocksOK, GuardOK, NeverDouble, Occupies,
         DriverEngaged, Departure

LEMMA BoardTripStep == ASSUME AInv, NEW p \in Riders, NEW r \in Trips, BoardTrip(p, r) PROVE AInv'
<1>1. aboard' \in [Trips -> SUBSET Riders]
  BY DEF BoardTrip, AInv, AsksTypeOK
<1> QED
  BY <1>1, QuietStep DEF BoardTrip

LEMMA AsksNextInv == AInv /\ [AsksNext]_askVars => AInv'
<1> SUFFICES ASSUME AInv, [AsksNext]_askVars PROVE AInv'
  OBVIOUS
<1>1. ASSUME NEW s \in AskSessions, AskStep(s) PROVE AInv'
  BY <1>1, QueryStep, TriggerStep, CommitInsertStep, CommitUpdateStep, RequestRowStep DEF AskStep
<1>2. CASE UNCHANGED askVars
  BY <1>2, QuietStep DEF askVars, AInv, AsksTypeOK
<1> QED
  BY <1>1, <1>2, BeginAnyStep, SetStatusStep, DeleteTripStep, BoardTripStep DEF AsksNext

\* The rows of rides and requests, and the sessions at work on them, keep
\* their shape.
THEOREM AsksTypeCorrect == AsksSpec => []AsksTypeOK
<1>1. AInv => AsksTypeOK
  BY DEF AInv
<1> QED
  BY <1>1, AsksInitInv, AsksNextInv, PTL DEF AsksSpec

-----------------------------------------------------------------------------
\* The calendar of RideRequests, as an operator: what Calendar substitutes.
CalendarOf(rows) == [r \in Trips |-> IF rows[r].status \in Occupying
                                       THEN [driver |-> rows[r].driver, start |-> rows[r].start]
                                       ELSE Free]

LEMMA CalendarFacts ==
  ASSUME AInv, NEW r \in Trips
  PROVE  /\ CalendarOf(trip)[r] # Free <=> trip[r].status \in Occupying
         /\ trip[r].status \in Occupying => /\ CalendarOf(trip)[r].driver = trip[r].driver
                                           /\ CalendarOf(trip)[r].start = trip[r].start
  BY AsksAssumption DEF CalendarOf, AInv, PlacedOK, Occupying

\* No two rides of a driver that are open or under way overlap.
THEOREM NeverTwoRidesAtOnce == AsksSpec => []NoDriverDoubleBooked
<1>1. AInv => NoDriverDoubleBooked
  <2> SUFFICES ASSUME AInv, NEW r \in Trips, NEW q \in Trips, r # q,
                      CalendarOf(trip)[r] # Free, CalendarOf(trip)[q] # Free,
                      CalendarOf(trip)[r].driver = CalendarOf(trip)[q].driver
               PROVE  ~Overlaps(CalendarOf(trip)[r].start, CalendarOf(trip)[q].start)
    BY DEF NoDriverDoubleBooked, Calendar!NeverDoubleBooked, CalendarOf, Calendar!Overlaps, Overlaps
  <2> QED
    BY CalendarFacts DEF AInv, NeverDouble
<1> QED
  BY <1>1, AsksInitInv, AsksNextInv, PTL DEF AsksSpec

\* A ride that takes a free slot, moves to one, or leaves is what a step of
\* the calendar is about; every other step leaves the calendar as it is.
LEMMA PutStep ==
  ASSUME AInv, AInv', NEW r \in Trips,
         \A x \in Trips : x # r => trip'[x] = trip[x],
         trip'[r].status \in Occupying,
         trip[r].status \in Occupying => trip'[r].driver = trip[r].driver
  PROVE  Calendar!CalendarNext
<1> DEFINE c == CalendarOf(trip)  c1 == CalendarOf(trip')
<1>1. PICK d \in Drivers, w \in Starts : d = trip'[r].driver /\ w = trip'[r].start
  BY DEF AInv, PlacedOK, Occupying
<1>2. c[r] = Free \/ c[r].driver = d
  BY <1>1, CalendarFacts
<1>3. ~\E q \in Trips \ {r} : c[q] # Free /\ c[q].driver = d /\ Overlaps(c[q].start, w)
  <2> SUFFICES ASSUME NEW q \in Trips \ {r}, c[q] # Free, c[q].driver = d
               PROVE  ~Overlaps(c[q].start, w)
    OBVIOUS
  <2>1. trip[q].status \in Occupying /\ trip[q].driver = d /\ c[q].start = trip[q].start
    BY CalendarFacts
  <2>2. trip'[q] = trip[q]
    OBVIOUS
  <2> QED
    BY <1>1, <2>1, <2>2 DEF AInv, NeverDouble
<1>4. c1 = [c EXCEPT ![r] = [driver |-> d, start |-> w]]
  BY <1>1 DEF CalendarOf
<1>5. Calendar!Put(r, d, w)
  BY <1>2, <1>3, <1>4 DEF Calendar!Put, Calendar!Engaged, Calendar!Overlaps, Overlaps, CalendarOf
<1> QED
  BY <1>5 DEF Calendar!CalendarNext

LEMMA LeaveStep ==
  ASSUME NEW r \in Trips, \A x \in Trips : x # r => trip'[x] = trip[x],
         trip'[r].status \notin Occupying
  PROVE  Calendar!CalendarNext
<1>1. CalendarOf(trip') = [CalendarOf(trip) EXCEPT ![r] = Free]
  BY DEF CalendarOf
<1> QED
  BY <1>1 DEF Calendar!CalendarNext, Calendar!Withdraw, CalendarOf

LEMMA StayStep == UNCHANGED trip => CalendarOf(trip') = CalendarOf(trip)
  BY DEF CalendarOf

\* One row at a time changes, and its driver stays.
ChangesOnly(r) == /\ \A x \in Trips : x # r => trip'[x] = trip[x]
                  /\ trip[r].status \in Occupying => trip'[r].driver = trip[r].driver

LEMMA OneRowAtATime ==
  ASSUME AInv, AInv', [AsksNext]_askVars
  PROVE  UNCHANGED trip \/ \E r \in Trips : ChangesOnly(r)
<1>1. ASSUME NEW s \in AskSessions, CommitInsert(s)
      PROVE  \E r \in Trips : ChangesOnly(r)
  BY <1>1, FreshIsMember DEF ChangesOnly, CommitInsert, UnusedTrips, AInv, AsksTypeOK, Occupying
<1>2. ASSUME NEW s \in AskSessions, CommitUpdate(s)
      PROVE  \E r \in Trips : ChangesOnly(r)
  <2>1. deal[s].trip \in Trips
    BY <1>2 DEF CommitUpdate, AInv, DealsOK, DealOK, Updates
  <2> QED
    BY <1>2, <2>1 DEF ChangesOnly, CommitUpdate, AInv, AsksTypeOK, TripRows
<1>3. ASSUME NEW s \in AskSessions, BeginAny(s) \/ AskStep(s), ~CommitInsert(s), ~CommitUpdate(s)
      PROVE  UNCHANGED trip
  BY <1>3 DEF BeginAny, AskStep, BeginPublish, BeginInsert, BeginRetime, BeginReactivate, BeginAccept,
              BeginAsk, BeginWithdraw, BeginDeal, QueryRides, Trigger, QueryAsks, InsertAsk,
              CommitWithdraw, askTables
<1>4. ASSUME NEW r \in Trips, NEW new \in TripStatus, SetStatus(r, new)
      PROVE  ChangesOnly(r)
  BY <1>4 DEF ChangesOnly, SetStatus, AInv, AsksTypeOK, TripRows
<1>5. ASSUME NEW r \in Trips, DeleteTrip(r)
      PROVE  ChangesOnly(r)
  BY <1>5 DEF ChangesOnly, DeleteTrip, AInv, AsksTypeOK, TripRows
<1>6. ASSUME NEW p \in Riders, NEW r \in Trips, BoardTrip(p, r) PROVE UNCHANGED trip
  BY <1>6 DEF BoardTrip
<1>7. CASE \E s \in AskSessions : BeginAny(s) \/ AskStep(s)
  <2>1. PICK s \in AskSessions : BeginAny(s) \/ AskStep(s)
    BY <1>7
  <2>2. CASE CommitInsert(s)
    BY <1>1, <2>2
  <2>3. CASE CommitUpdate(s)
    BY <1>2, <2>3
  <2>4. CASE ~CommitInsert(s) /\ ~CommitUpdate(s)
    BY <1>3, <2>1, <2>4
  <2> QED
    BY <2>2, <2>3, <2>4
<1>8. CASE \E r \in Trips, new \in TripStatus : SetStatus(r, new)
  BY <1>4, <1>8
<1>9. CASE \E r \in Trips : DeleteTrip(r) \/ \E p \in Riders : BoardTrip(p, r)
  BY <1>5, <1>6, <1>9
<1>10. CASE UNCHANGED askVars
  BY <1>10 DEF askVars
<1> QED
  BY <1>7, <1>8, <1>9, <1>10 DEF AsksNext

\* Publishing, accepting, retiming, reactivating and ending rides implement
\* the calendar: every step is a step of it, or leaves it alone.
THEOREM RequestsImplementCalendar == AsksSpec => ImplementsCalendar
<1>1. AsksInit => Calendar!CalendarInit
  BY DEF AsksInit, NoTrip, Occupying, Calendar!CalendarInit
<1>2. AInv /\ AInv' /\ [AsksNext]_askVars
        => Calendar!CalendarNext \/ CalendarOf(trip') = CalendarOf(trip)
  <2> SUFFICES ASSUME AInv, AInv', [AsksNext]_askVars
               PROVE  Calendar!CalendarNext \/ CalendarOf(trip') = CalendarOf(trip)
    OBVIOUS
  <2>1. CASE UNCHANGED trip
    BY <2>1, StayStep
  <2>2. ASSUME NEW r \in Trips, ChangesOnly(r) PROVE Calendar!CalendarNext
    BY <2>2, PutStep, LeaveStep DEF ChangesOnly
  <2> QED
    BY <2>1, <2>2, OneRowAtATime
<1>3. AInv /\ AInv' /\ [AsksNext]_askVars
        => [Calendar!CalendarNext]_([r \in Trips |-> IF trip[r].status \in Occupying
                                                   THEN [driver |-> trip[r].driver, start |-> trip[r].start]
                                                   ELSE Free])
  BY <1>2 DEF CalendarOf
<1> QED
  BY <1>1, <1>3, AsksInitInv, AsksNextInv, PTL DEF AsksSpec, ImplementsCalendar, Calendar!CalendarSpec

-----------------------------------------------------------------------------
(* The requests of passengers.                                               *)

\* Between its overlap query and its commit a request owns the passenger's
\* lock, so no other request of the passenger appears.
AskLocksOK ==
  \A s, t \in AskSessions : s # t /\ askAt[s] = "askInsert" /\ askAt[t] = "askInsert"
                             => deal[s].rider # deal[t].rider
AskGuardOK ==
  \A s \in AskSessions, q \in AskIds :
    askAt[s] = "askInsert" /\ ask[q].status = "pending" /\ ask[q].owner = deal[s].rider
      => ~Overlaps(ask[q].start, deal[s].start)

\* The ride of an accepted request was inserted.
ServedOK ==
  \A q \in AskIds : ask[q].status = "accepted" /\ ask[q].trip # Free => trip[ask[q].trip].status # "unused"

PInv == AskLocksOK /\ AskGuardOK /\ NoClashingPending /\ ServedOK /\ AcceptedIsServed

LEMMA PInvInit == AsksInit => PInv
  BY AsksAssumption
  DEF AsksInit, PInv, AskLocksOK, AskGuardOK, NoClashingPending, ServedOK, AcceptedIsServed, NoAsk

\* No step but InsertAsk makes a request wait for a driver, and no step but
\* QueryAsks brings a session to its insertion.
LEMMA PendingKept ==
  ASSUME AInv, PInv,
         \A q \in AskIds : ask'[q].status = "pending" => /\ ask[q].status = "pending"
                                                        /\ ask'[q].owner = ask[q].owner
                                                        /\ ask'[q].start = ask[q].start,
         \A s \in AskSessions : askAt'[s] = "askInsert" => askAt[s] = "askInsert" /\ deal'[s] = deal[s]
  PROVE  AskLocksOK' /\ AskGuardOK' /\ NoClashingPending'
<1>1. AskLocksOK'
  BY DEF PInv, AskLocksOK
<1>2. AskGuardOK'
  BY DEF PInv, AskGuardOK
<1>3. NoClashingPending'
  BY DEF PInv, NoClashingPending
<1> QED
  BY <1>1, <1>2, <1>3

\* Rides that were inserted keep driver and rider, and a deleted one stays so.
LEMMA ServedKept ==
  ASSUME AInv, PInv,
         \A q \in AskIds : ask'[q].status = "accepted" => ask'[q] = ask[q],
         \A r \in Trips : trip[r].status # "unused" =>
           /\ trip'[r].status # "unused" /\ trip'[r].driver = trip[r].driver
           /\ trip'[r].rider = trip[r].rider
           /\ trip[r].status = "deleted" => trip'[r].status = "deleted"
  PROVE  ServedOK' /\ AcceptedIsServed'
<1> USE AsksAssumption
<1>1. \A q \in AskIds : ask[q].trip \in Trips \cup {Free}
  BY DEF AInv, AsksTypeOK, AskRows
<1>2. ServedOK'
  BY <1>1 DEF PInv, ServedOK
<1>3. AcceptedIsServed'
  <2> SUFFICES ASSUME NEW q \in AskIds, ask'[q].status = "accepted"
               PROVE  /\ ask'[q].driver # Free
                      /\ ask'[q].trip # Free => /\ trip'[ask'[q].trip].driver = ask'[q].driver
                                                /\ trip'[ask'[q].trip].rider = ask'[q].owner
                      /\ ask'[q].trip = Free => \E r \in Trips : trip'[r].status = "deleted" /\ trip'[r].driver = ask'[q].driver
    BY DEF AcceptedIsServed
  <2>1. ask'[q] = ask[q] /\ ask[q].status = "accepted"
    OBVIOUS
  <2>2. CASE ask[q].trip # Free
    BY <1>1, <2>1, <2>2 DEF PInv, ServedOK, AcceptedIsServed
  <2>3. CASE ask[q].trip = Free
    BY <2>1, <2>3 DEF PInv, AcceptedIsServed
  <2> QED
    BY <2>2, <2>3
<1> QED
  BY <1>2, <1>3

\* Steps that change no request, and of the rides at most what requests do
\* not depend on.
LEMMA NoRequestStep ==
  ASSUME AInv, PInv, UNCHANGED ask,
         \A s \in AskSessions : askAt'[s] = "askInsert" => askAt[s] = "askInsert" /\ deal'[s] = deal[s],
         \A r \in Trips : trip[r].status # "unused" =>
           /\ trip'[r].status # "unused" /\ trip'[r].driver = trip[r].driver
           /\ trip'[r].rider = trip[r].rider
           /\ trip[r].status = "deleted" => trip'[r].status = "deleted"
  PROVE  PInv'
<1>1. AskLocksOK' /\ AskGuardOK' /\ NoClashingPending'
  BY PendingKept
<1>2. ServedOK' /\ AcceptedIsServed'
  BY ServedKept
<1> QED
  BY <1>1, <1>2 DEF PInv

LEMMA PInvBegin ==
  ASSUME AInv, PInv, NEW s \in AskSessions,
         BeginAny(s) \/ QueryRides(s) \/ Trigger(s)
  PROVE  PInv'
<1>1. UNCHANGED ask /\ UNCHANGED trip
  BY DEF BeginAny, BeginPublish, BeginInsert, BeginRetime, BeginReactivate, BeginAccept, BeginAsk,
         BeginWithdraw, BeginDeal, QueryRides, Trigger, askTables
<1>2. \A t \in AskSessions : askAt'[t] = "askInsert" => askAt[t] = "askInsert" /\ deal'[t] = deal[t]
  BY DEF BeginAny, BeginPublish, BeginInsert, BeginRetime, BeginReactivate, BeginAccept, BeginAsk,
         BeginWithdraw, BeginDeal, QueryRides, Trigger, AskGoto, AskReturn, AInv, AsksTypeOK
<1> QED
  BY <1>1, <1>2, NoRequestStep

LEMMA PInvQueryAsks == ASSUME AInv, PInv, NEW s \in AskSessions, QueryAsks(s) PROVE PInv'
<1>1. UNCHANGED <<trip, ask>>
  BY DEF QueryAsks, askTables
<1>2. CASE AskReturn(s)
  <2>1. \A t \in AskSessions : askAt'[t] = "askInsert" => askAt[t] = "askInsert" /\ deal'[t] = deal[t]
    BY <1>2 DEF AskReturn, AskGoto, AInv, AsksTypeOK
  <2> QED
    BY <1>1, <2>1, NoRequestStep
<1>3. CASE AskGoto(s, "askInsert") /\ UNCHANGED deal /\ ~RiderEngaged(deal[s].rider, deal[s].start)
  <2>1. AskLockFree(s)
    BY DEF QueryAsks
  <2>2. \A t \in AskSessions : t # s => askAt'[t] = askAt[t]
    BY <1>3 DEF AskGoto, AInv, AsksTypeOK
  <2>3. AskLocksOK'
    BY <1>3, <2>1, <2>2 DEF AskLockFree, PInv, AskLocksOK
  <2>4. \A q \in AskIds : ask[q].status = "pending" /\ ask[q].owner = deal[s].rider
                          => ~Overlaps(ask[q].start, deal[s].start)
    BY <1>3 DEF RiderEngaged
  <2>5. AskGuardOK'
    BY <1>1, <1>3, <2>2, <2>4 DEF PInv, AskGuardOK
  <2>6. NoClashingPending' /\ ServedOK' /\ AcceptedIsServed'
    BY <1>1 DEF PInv, NoClashingPending, ServedOK, AcceptedIsServed
  <2> QED
    BY <2>3, <2>5, <2>6 DEF PInv
<1> QED
  BY <1>2, <1>3 DEF QueryAsks

LEMMA PInvInsertAsk == ASSUME AInv, PInv, NEW s \in AskSessions, InsertAsk(s) PROVE PInv'
<1> DEFINE row == [NoAsk EXCEPT !.status = "pending", !.owner = deal[s].rider, !.start = deal[s].start]
<1>1. PICK q \in FreshOf(UnusedAsks) : ask' = [ask EXCEPT ![q] = row]
  BY DEF InsertAsk
<1>2. q \in AskIds /\ ask[q].status = "unused"
  BY FreshIsMember DEF UnusedAsks
<1>3. row.status = "pending" /\ row.owner = deal[s].rider /\ row.start = deal[s].start
  BY DEF NoAsk
<1> HIDE DEF row
<1>4. /\ askAt[s] = "askInsert" /\ UNCHANGED trip /\ askAt'[s] = "done"
      /\ \A t \in AskSessions : t # s => askAt'[t] = askAt[t] /\ deal'[t] = deal[t]
  BY DEF InsertAsk, AskReturn, AskGoto, AInv, AsksTypeOK
<1>5. ask'[q] = row /\ \A x \in AskIds : x # q => ask'[x] = ask[x]
  BY <1>1, <1>2 DEF AInv, AsksTypeOK
<1>6. \A x \in AskIds : ask[x].status = "pending" /\ ask[x].owner = deal[s].rider
                         => /\ ~Overlaps(ask[x].start, deal[s].start) /\ ~Overlaps(deal[s].start, ask[x].start)
  BY <1>4 DEF PInv, AskGuardOK, Overlaps
<1>7. AskLocksOK'
  BY <1>4 DEF PInv, AskLocksOK
<1>8. AskGuardOK'
  BY <1>3, <1>4, <1>5 DEF PInv, AskLocksOK, AskGuardOK
<1>9. NoClashingPending'
  BY <1>3, <1>5, <1>6 DEF PInv, NoClashingPending
<1>10. ServedOK' /\ AcceptedIsServed'
  BY <1>3, <1>4, <1>5, ServedKept
<1> QED
  BY <1>7, <1>8, <1>9, <1>10 DEF PInv

LEMMA PInvWithdraw == ASSUME AInv, PInv, NEW s \in AskSessions, CommitWithdraw(s) PROVE PInv'
<1>1. deal[s].ask \in AskIds
  BY DEF CommitWithdraw, AInv, DealsOK, DealOK
<1>2. /\ \A q \in AskIds \ {deal[s].ask} : ask'[q] = ask[q]
      /\ ask'[deal[s].ask].status = "cancelled" /\ UNCHANGED trip
  BY <1>1 DEF CommitWithdraw, AInv, AsksTypeOK, AskRows
<1>3. \A t \in AskSessions : askAt'[t] = "askInsert" => askAt[t] = "askInsert" /\ deal'[t] = deal[t]
  BY DEF CommitWithdraw, AskReturn, AskGoto, AInv, AsksTypeOK
<1>4. AskLocksOK' /\ AskGuardOK' /\ NoClashingPending'
  BY <1>2, <1>3, PendingKept
<1>5. ServedOK' /\ AcceptedIsServed'
  BY <1>2, ServedKept
<1> QED
  BY <1>4, <1>5 DEF PInv

LEMMA PInvCommitInsert == ASSUME AInv, PInv, NEW s \in AskSessions, CommitInsert(s) PROVE PInv'
<1> DEFINE new == [status |-> "open", driver |-> deal[s].driver, start |-> deal[s].start,
                   rider |-> deal[s].rider, riding |-> deal[s].rider # Free]
<1> USE AsksAssumption
<1>1. askAt[s] = "commit" /\ deal[s].op \in Inserts /\ AskReturn(s)
  BY DEF CommitInsert
<1>2. PICK r \in FreshOf(UnusedTrips) :
        /\ trip' = [trip EXCEPT ![r] = new]
        /\ ask' = IF deal[s].op # "accept" THEN ask
                  ELSE [ask EXCEPT ![deal[s].ask].status = "accepted",
                                   ![deal[s].ask].driver = deal[s].driver,
                                   ![deal[s].ask].trip = r]
  BY DEF CommitInsert
<1>3. r \in Trips /\ trip[r].status = "unused"
  BY FreshIsMember DEF UnusedTrips
<1>4. /\ deal[s].driver \in Drivers
      /\ deal[s].op = "accept" => deal[s].ask \in AskIds /\ deal[s].rider = ask[deal[s].ask].owner
  BY <1>1 DEF AInv, DealsOK, DealOK
<1>5. \A t \in AskSessions : askAt'[t] = "askInsert" => askAt[t] = "askInsert" /\ deal'[t] = deal[t]
  BY <1>1 DEF AskReturn, AskGoto, AInv, AsksTypeOK
<1>6. /\ trip'[r] = new /\ \A x \in Trips : x # r => trip'[x] = trip[x]
  BY <1>2, <1>3 DEF AInv, AsksTypeOK
<1>7. CASE deal[s].op # "accept"
  BY <1>2, <1>3, <1>5, <1>6, <1>7, NoRequestStep
<1>8. CASE deal[s].op = "accept"
  <2> DEFINE k == deal[s].ask
  <2>1. /\ k \in AskIds /\ \A q \in AskIds : q # k => ask'[q] = ask[q]
        /\ ask'[k].status = "accepted" /\ ask'[k].driver = deal[s].driver /\ ask'[k].trip = r
        /\ ask'[k].owner = deal[s].rider
    BY <1>2, <1>4, <1>8 DEF AInv, AsksTypeOK, AskRows
  <2>2. AskLocksOK' /\ AskGuardOK' /\ NoClashingPending'
    BY <1>5, <2>1, PendingKept
  <2>3. \A q \in AskIds : ask[q].trip \in Trips \cup {Free}
    BY DEF AInv, AsksTypeOK, AskRows
  <2>4. ServedOK'
    BY <1>3, <1>6, <2>1, <2>3 DEF PInv, ServedOK
  <2>5. AcceptedIsServed'
    <3> SUFFICES ASSUME NEW q \in AskIds, ask'[q].status = "accepted"
                 PROVE  /\ ask'[q].driver # Free
                        /\ ask'[q].trip # Free => /\ trip'[ask'[q].trip].driver = ask'[q].driver
                                                  /\ trip'[ask'[q].trip].rider = ask'[q].owner
                        /\ ask'[q].trip = Free => \E x \in Trips : trip'[x].status = "deleted" /\ trip'[x].driver = ask'[q].driver
      BY DEF AcceptedIsServed
    <3>1. CASE q = k
      BY <1>3, <1>4, <1>6, <2>1, <3>1
    <3>2. CASE q # k /\ ask[q].trip # Free
      BY <1>3, <1>6, <2>1, <2>3, <3>2 DEF PInv, ServedOK, AcceptedIsServed
    <3>3. CASE q # k /\ ask[q].trip = Free
      <4>1. PICK x \in Trips : trip[x].status = "deleted" /\ trip[x].driver = ask[q].driver
        BY <2>1, <3>3 DEF PInv, AcceptedIsServed
      <4>2. trip'[x] = trip[x]
        BY <1>3, <1>6, <4>1
      <4>3. ask'[q] = ask[q] /\ ask[q].driver # Free
        BY <2>1, <3>3 DEF PInv, AcceptedIsServed
      <4> QED
        BY <3>3, <4>1, <4>2, <4>3
    <3> QED
      BY <3>1, <3>2, <3>3
  <2> QED
    BY <2>2, <2>4, <2>5 DEF PInv
<1> QED
  BY <1>7, <1>8

LEMMA PInvCommitUpdate == ASSUME AInv, PInv, NEW s \in AskSessions, CommitUpdate(s) PROVE PInv'
<1>1. /\ askAt[s] = "commit" /\ deal[s].op \in Updates /\ AskReturn(s) /\ UNCHANGED ask
  BY DEF CommitUpdate, Updates
<1>2. deal[s].trip \in Trips /\ trip[deal[s].trip].status # "deleted"
  BY <1>1, AsksAssumption DEF AInv, DealsOK, DealOK, GuardOK
<1>3. \A t \in AskSessions : askAt'[t] = "askInsert" => askAt[t] = "askInsert" /\ deal'[t] = deal[t]
  BY <1>1 DEF AskReturn, AskGoto, AInv, AsksTypeOK
<1>4. \A r \in Trips : trip[r].status # "unused" =>
           /\ trip'[r].status # "unused" /\ trip'[r].driver = trip[r].driver
           /\ trip'[r].rider = trip[r].rider
           /\ trip[r].status = "deleted" => trip'[r].status = "deleted"
  BY <1>1, <1>2 DEF CommitUpdate, Updates, AInv, AsksTypeOK, TripRows
<1> QED
  BY <1>1, <1>3, <1>4, NoRequestStep

LEMMA PInvSetStatus == ASSUME AInv, PInv, NEW r \in Trips, NEW new \in TripStatus, SetStatus(r, new) PROVE PInv'
<1>1. \A x \in Trips : trip[x].status # "unused" =>
           /\ trip'[x].status # "unused" /\ trip'[x].driver = trip[x].driver
           /\ trip'[x].rider = trip[x].rider
           /\ trip[x].status = "deleted" => trip'[x].status = "deleted"
  BY DEF SetStatus, ValidMoves, AInv, AsksTypeOK, TripRows
<1> QED
  BY <1>1, NoRequestStep DEF SetStatus

LEMMA PInvDeleteTrip == ASSUME AInv, PInv, NEW r \in Trips, DeleteTrip(r) PROVE PInv'
<1> USE AsksAssumption
<1>1. /\ UNCHANGED <<askAt, deal>> /\ trip[r].status # "unused"
      /\ trip'[r].status = "deleted" /\ trip'[r].driver = trip[r].driver
      /\ \A x \in Trips : x # r => trip'[x] = trip[x]
  BY DEF DeleteTrip, AInv, AsksTypeOK, TripRows
<1>2. \A q \in AskIds : /\ ask'[q].status = ask[q].status /\ ask'[q].owner = ask[q].owner
                        /\ ask'[q].start = ask[q].start /\ ask'[q].driver = ask[q].driver
                        /\ ask'[q].trip = IF ask[q].trip = r THEN Free ELSE ask[q].trip
                        /\ ask[q].trip \in Trips \cup {Free}
  BY DEF DeleteTrip, AInv, AsksTypeOK, AskRows
<1>3. AskLocksOK' /\ AskGuardOK' /\ NoClashingPending'
  BY <1>1, <1>2, PendingKept
<1>4. ServedOK'
  BY <1>1, <1>2 DEF PInv, ServedOK
<1>5. AcceptedIsServed'
  <2> SUFFICES ASSUME NEW q \in AskIds, ask'[q].status = "accepted"
               PROVE  /\ ask'[q].driver # Free
                      /\ ask'[q].trip # Free => /\ trip'[ask'[q].trip].driver = ask'[q].driver
                                                /\ trip'[ask'[q].trip].rider = ask'[q].owner
                      /\ ask'[q].trip = Free => \E x \in Trips : trip'[x].status = "deleted" /\ trip'[x].driver = ask'[q].driver
    BY DEF AcceptedIsServed
  <2>1. ask[q].status = "accepted" /\ ask[q].driver # Free
    BY <1>2 DEF PInv, AcceptedIsServed
  <2>2. CASE ask[q].trip = r
    <3>1. trip'[r].status = "deleted" /\ trip'[r].driver = ask'[q].driver /\ ask'[q].trip = Free
      BY <1>1, <1>2, <2>1, <2>2 DEF PInv, AcceptedIsServed
    <3> QED
      BY <3>1, <1>2, <2>1
  <2>3. CASE ask[q].trip # r /\ ask[q].trip # Free
    BY <1>1, <1>2, <2>1, <2>3 DEF PInv, AcceptedIsServed
  <2>4. CASE ask[q].trip = Free
    <3>1. PICK x \in Trips : trip[x].status = "deleted" /\ trip[x].driver = ask[q].driver
      BY <2>1, <2>4 DEF PInv, AcceptedIsServed
    <3>2. trip'[x].status = "deleted" /\ trip'[x].driver = ask'[q].driver
      BY <1>1, <1>2, <3>1
    <3>3. ask'[q].trip = Free
      BY <1>2, <2>4
    <3> QED
      BY <1>2, <2>1, <3>2, <3>3
  <2> QED
    BY <2>2, <2>3, <2>4
<1> QED
  BY <1>3, <1>4, <1>5 DEF PInv

LEMMA PInvNext == AInv /\ PInv /\ [AsksNext]_askVars => PInv'
<1> SUFFICES ASSUME AInv, PInv, [AsksNext]_askVars PROVE PInv'
  OBVIOUS
<1>1. ASSUME NEW s \in AskSessions, AskStep(s) PROVE PInv'
  BY <1>1, PInvBegin, PInvQueryAsks, PInvInsertAsk, PInvWithdraw, PInvCommitInsert, PInvCommitUpdate
  DEF AskStep
<1>2. ASSUME NEW s \in AskSessions, BeginAny(s) PROVE PInv'
  BY <1>2, PInvBegin
<1>3. ASSUME NEW p \in Riders, NEW r \in Trips, BoardTrip(p, r) PROVE PInv'
  BY <1>3, NoRequestStep DEF BoardTrip
<1>4. CASE UNCHANGED askVars
  BY <1>4, NoRequestStep DEF askVars
<1> QED
  BY <1>1, <1>2, <1>3, <1>4, PInvSetStatus, PInvDeleteTrip DEF AsksNext

\* Requests of one passenger that wait for a driver never overlap.
THEOREM PendingNeverClash == AsksSpec => []NoClashingPending
<1>1. PInv => NoClashingPending
  BY DEF PInv
<1> QED
  BY <1>1, AsksInitInv, PInvInit, AsksNextInv, PInvNext, PTL DEF AsksSpec

\* Whoever accepts an accepted request, and however often it was accepted or
\* cancelled, it names the driver and the ride that serve its passenger.
THEOREM AcceptedAreServed == AsksSpec => []AcceptedIsServed
<1>1. PInv => AcceptedIsServed
  BY DEF PInv
<1> QED
  BY <1>1, AsksInitInv, PInvInit, AsksNextInv, PInvNext, PTL DEF AsksSpec
=============================================================================
