--------------------------- MODULE MCTimeTracking ---------------------------
(***************************************************************************)
(* TimeTracking on small instances.  The instants are the first second of  *)
(* a day, an hour, a minute and a second later, the last second of the     *)
(* day, and half a minute into the next; the zones are an hour apart.      *)
(***************************************************************************)
EXTENDS TimeTracking, TLC

(* Once something has made the duration unreliable it stays unreliable,    *)
(* and DurationIsWorked has nothing to say: no need to go on from there.   *)
Reliable == blots = {}

Symmetry == Permutations(Calls) \cup Permutations(Tasks)
=============================================================================
