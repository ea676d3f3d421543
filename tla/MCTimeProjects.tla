--------------------------- MODULE MCTimeProjects ---------------------------
(***************************************************************************)
(* TimeProjects on small instances.                                        *)
(***************************************************************************)
EXTENDS TimeProjects, TLC

Symmetry == Permutations(Calls) \cup Permutations(Tasks)
=============================================================================
