CONSTANTS
  Sessions = {s1}
  Rides = {r1}
  Passengers = {p1}
  BookingIds = {b1}
  Drivers = {d1}
  d1 = d1
  None = None
  Capacity = 1
  MaxParty = 1
  Ops <- TwoPathOps
  Faults = FALSE
  Clashes <- Disjoint
  DriverOf <- OneDriver
  MaxTotal = 2
SPECIFICATION Spec
CHECK_DEADLOCK FALSE
INVARIANT CompletionClosesBookings
