CONSTANTS
  Sessions = {s1}
  Rides = {r1, r2}
  Passengers = {p1, p2}
  BookingIds = {b1, b2, b3}
  Drivers = {d1}
  d1 = d1
  None = None
  Capacity = 2
  MaxParty = 2
  Ops <- V1Ops
  Faults = FALSE
  Clashes <- Disjoint
  DriverOf <- OneDriver
  MaxTotal = 2
  DocSessions = {"v1", "v2", "v3"}
  Serves <- ThreeClients
  DocOrder <- CnicLicense
  Numbers = {n1, n2}
  MaxRows = 4
  Schedules = {g1, g2}
  Planners = {y1, y2}
  Plans <- ThreePlans
  Departures = {2, 8}
  RideLength = 2
  Week = 2
  Day = 4
  Now = 2
  NoPlan = NoPlan
  NoFile = NoFile
  NoNumber = NoNumber
SPECIFICATION DrivingSpec
SYMMETRY DrivingSymmetry
CHECK_DEADLOCK FALSE
INVARIANTS TypeOK SeatConservation PlanCoversActive RidesCredited
  DrivingTypeOK IdentityMatchesProfile VerifiedIsActive
PROPERTIES ImplementsContract PromisesAreJudged
