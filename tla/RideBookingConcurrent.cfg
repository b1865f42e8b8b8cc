CONSTANTS
  Sessions = {s1, s2}
  Rides = {r1}
  Passengers = {p1}
  BookingIds = {b1, b2}
  Drivers = {d1}
  d1 = d1
  None = None
  Capacity = 2
  MaxParty = 1
  Ops <- Endpoints
  Faults = TRUE
  Clashes <- Disjoint
  DriverOf <- OneDriver
  MaxTotal = 2
SPECIFICATION Spec
SYMMETRY Symmetry
CHECK_DEADLOCK FALSE
INVARIANTS NoDuplicateActiveBooking
PROPERTIES CancelledIsFinal ExecutionOnlyInProgress
