CONSTANTS
  Sessions = {s1, s2}
  Rides = {r1}
  Passengers = {p1, p2}
  BookingIds = {b1, b2}
  Drivers = {d1}
  d1 = d1
  None = None
  Capacity = 1
  MaxParty = 1
  Ops <- BookOps
  Faults = FALSE
  Clashes <- Disjoint
  DriverOf <- OneDriver
  MaxTotal = 2
SPECIFICATION Spec
CHECK_DEADLOCK FALSE
INVARIANT NoOverbooking
