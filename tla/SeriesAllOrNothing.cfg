SPECIFICATION SeriesSpec
CONSTANTS
  Dates = {1, 2}
  Passengers = {p1}
  RideIds = {r1, r2}
  SubIds = {k1}
  SeatIds = {b1, b2}
  SeriesSessions = {s1}
  SeriesOps = {"series"}
  MaxOutside = 1
  NoRow = NoRow
PROPERTY AllOrNothing
CHECK_DEADLOCK FALSE
