-------------------------- MODULE MCAttendanceWeeks --------------------------
(***************************************************************************)
(* The weeks of Attendance on small instances: two employees, of whom the  *)
(* first has a row for each of two days and the second none.               *)
(***************************************************************************)
EXTENDS Attendance, TLC

CONSTANTS e1, e2, d1, d2, k1, k2

MCOf == k1 :> e1 @@ k2 :> e1
MCOn == k1 :> d1 @@ k2 :> d2

(* The last call is made only when the others are done, none of which has  *)
(* failed or crossed another.                                              *)
Idle  == {h \in Calls : pc[h] = "idle"}
Quiet == crossed = {} /\ \A h \in Calls \ Idle : pc[h] = "done"
MayBegin == Quiet \/ \E g, h \in Idle : g # h

MCInit == AttendanceInit /\ side = "weeks"
MCNext == (IF MayBegin THEN TRUE ELSE UNCHANGED call) /\ WeeksNext
MCSpec == MCInit /\ [][MCNext]_<<side, vars, hours>>

Symmetry == Permutations(Calls)
=============================================================================
