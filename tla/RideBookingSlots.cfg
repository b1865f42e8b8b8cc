CONSTANTS
  Sessions = {s1, s2}
  Rides = {r1, r2}
  Passengers = {p1, p2}
  BookingIds = {b1, b2}
  Drivers = {d1}
  d1 = d1
  None = None
  Capacity = 1
  MaxParty = 1
  Ops <- LockedOps
  Faults = FALSE
  Clashes <- AllClash
  DriverOf <- OneDriver
  MaxTotal = 2
SPECIFICATION LiveSpec
CHECK_DEADLOCK FALSE
INVARIANTS NoClashingBookings
PROPERTIES TripStatusMonotone EveryRequestEnds
