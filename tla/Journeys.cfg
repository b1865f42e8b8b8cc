SPECIFICATION JourneysLiveSpec
CONSTANTS
  Dates = {1, 2}
  Passengers = {p1}
  RideIds = {r1, r2, r3, r4}
  SubIds = {k1, k2}
  SeatIds = {b1, b2}
  SeriesSessions = {s1, s2}
  SeriesOps <- EverySeriesOp
  MaxOutside = 2
  NoRow = NoRow
  Drivers = {d1, d2}
  Riders = {p1}
  Trips = {t1, t2}
  AskIds = {q1, q2}
  AskSessions = {x1, x2, x3}
  Starts = {0, 1, 2}
  Length = 2
  Free = Free
  ThreadIds = {h1, h2}
  ChatSessions = {c1, c2}
  ChatOps <- EveryChatOp
  MaxMoves = 2
  NoThread = NoThread
  Calls = {a1, a2, a3}
  MaxSignIns = 2
  MaxExpiries = 1
INVARIANTS
  JourneysTypeOK OneRidePerDate OneSeatPerDate
  NoDriverDoubleBooked NoClashingPending AcceptedIsServed
  OneThread HistoryKeepsTalk
  QueueHasRefresher AnsweredOnce
PROPERTIES
  RefusalUndoesTheSeries SeriesRequestsEnd
  ImplementsCalendar AskCallsEnd
  ClosedStaysSilent ChatCallsEnd CallsSettle
CHECK_DEADLOCK FALSE
