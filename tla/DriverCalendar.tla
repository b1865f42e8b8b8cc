--------------------------- MODULE DriverCalendar ---------------------------
(***************************************************************************)
(* What the schedule guards of backend/app/modules/rides promise a driver: *)
(* a calendar of rides no two of which overlap.  A ride enters the         *)
(* calendar, or moves in it, only where the driver is free; leaving it     *)
(* needs nobody's consent.  RideRequests implements this.                  *)
(***************************************************************************)
EXTENDS Integers

CONSTANTS
  Drivers,
  Trips,   \* rides that may enter a calendar
  Starts,  \* departure times, natural numbers
  Length,  \* duration of a ride, at least 1
  Free     \* the ride is in no calendar

VARIABLE calendar

\* The half-open windows of two departures meet: departure_time < :window_end
\* AND the end of the ride > :window_start.
Overlaps(a, b) == a < b + Length /\ b < a + Length

Engaged(d, w, but) ==
  \E q \in Trips \ {but} : /\ calendar[q] # Free
                           /\ calendar[q].driver = d
                           /\ Overlaps(calendar[q].start, w)

CalendarInit == calendar = [r \in Trips |-> Free]

Put(r, d, w) ==
  /\ calendar[r] = Free \/ calendar[r].driver = d
  /\ ~Engaged(d, w, r)
  /\ calendar' = [calendar EXCEPT ![r] = [driver |-> d, start |-> w]]

Withdraw(r) == calendar' = [calendar EXCEPT ![r] = Free]

CalendarNext ==
  \E r \in Trips : Withdraw(r) \/ \E d \in Drivers, w \in Starts : Put(r, d, w)

CalendarSpec == CalendarInit /\ [][CalendarNext]_calendar

-----------------------------------------------------------------------------
\* No driver is engaged on two rides at once: what the trigger
\* enforce_ride_time_overlap is there for.
NeverDoubleBooked ==
  \A r, q \in Trips :
    r # q /\ calendar[r] # Free /\ calendar[q] # Free /\ calendar[r].driver = calendar[q].driver
      => ~Overlaps(calendar[r].start, calendar[q].start)
=============================================================================
