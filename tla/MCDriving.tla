------------------------------ MODULE MCDriving ------------------------------
(***************************************************************************)
(* The rides of a driver, the documents that allow the driver to publish   *)
(* them and the recurring schedules that promise them, in one run.  The    *)
(* models have no variable in common, so a behaviour moves the component   *)
(* in `focus`, chosen at the start.                                        *)
(***************************************************************************)
EXTENDS MCRideBooking, MCDriverDocuments, Timetable

VARIABLE focus

drivingVars == <<focus, vars, docVars, timetableVars>>

DrivingInit ==
  /\ focus \in {"rides", "documents", "timetable"}
  /\ Init /\ DocInit
  /\ IF focus = "timetable" THEN TimetableInit ELSE TimetableEmpty

DrivingNext ==
  /\ UNCHANGED focus
  /\ \/ focus = "rides" /\ Next /\ UNCHANGED <<docVars, timetableVars>>
     \/ focus = "documents" /\ DocNext /\ UNCHANGED <<vars, timetableVars>>
     \/ focus = "timetable" /\ TimetableNext /\ UNCHANGED <<vars, docVars>>

\* Model values in no order; the numbers of a profile are alike as well.
DrivingSymmetry == Symmetry \cup Permutations(Numbers)

\* The tables of the documents and of the schedules keep their shape.
DrivingTypeOK == DocsTypeOK /\ TimetableTypeOK

\* Three weekly plans of days with four parts, in weeks of two days: the
\* second runs past midnight, into the time of the third.
WeeklyPlan(days, time, length, from, until) ==
  [days |-> days, time |-> time, length |-> length, from |-> from, until |-> until, active |-> TRUE]
ThreePlans == {WeeklyPlan({0}, 1, 2, 0, 3), WeeklyPlan({1}, 3, 2, 0, 3), WeeklyPlan({0}, 0, 1, 1, 4)}

DrivingSpec == DrivingInit /\ [][DrivingNext]_drivingVars
=============================================================================
