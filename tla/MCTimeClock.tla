------------------------------ MODULE MCTimeClock ------------------------------
(***************************************************************************)
(* The clock of Attendance on small instances: a day of 24 hours, worked   *)
(* from 8 to 17.                                                           *)
(***************************************************************************)
EXTENDS Attendance, TLC

Shift(from, to, overtime, breaks) ==
    [day |-> 0, start |-> from, end |-> to, isOvertime |-> overtime, breaks |-> breaks]

(* No shift, two with a gap at 20, or two with breaks, one of them in      *)
(* the evening.                                                            *)
MCRosters == { {}, {Shift(7, 12, FALSE, {}), Shift(21, 23, TRUE, {})},
               {Shift(6, 16, FALSE, {7}), Shift(18, 21, FALSE, {19})} }

Lenient == [clockInEarly |-> TRUE, clockInLate |-> TRUE,
            clockOutEarly |-> TRUE, clockOutLate |-> TRUE]
Strict  == [clockInEarly |-> TRUE, clockInLate |-> FALSE,
            clockOutEarly |-> FALSE, clockOutLate |-> FALSE]

MCPolicies == {Lenient, Strict}

MCClaims == {[startTime |-> 9, endTime |-> 13, isOvertime |-> FALSE]}

MCInit == AttendanceInit /\ side = "clock"
MCSpec == MCInit /\ [][ClockNext]_<<side, vars, hours>>

Symmetry == Permutations(Calls)
=============================================================================
