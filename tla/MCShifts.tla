------------------------------ MODULE MCShifts ------------------------------
(***************************************************************************)
(* Shifts on small instances.                                              *)
(***************************************************************************)
EXTENDS Shifts, TLC

Symmetry == Permutations(Calls) \cup Permutations(Employees)
=============================================================================
