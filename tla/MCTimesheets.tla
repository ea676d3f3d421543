---------------------------- MODULE MCTimesheets ----------------------------
(***************************************************************************)
(* Timesheets on small instances.                                          *)
(***************************************************************************)
EXTENDS Timesheets, TLC

Symmetry == Permutations(Calls) \cup Permutations(Entries) \cup Permutations(Data)
=============================================================================
