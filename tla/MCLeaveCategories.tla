-------------------------- MODULE MCLeaveCategories --------------------------
(***************************************************************************)
(* LeaveCategories on small instances: any two calls, and three of which   *)
(* none changes the unit in which leave is counted.                        *)
(***************************************************************************)
EXTENDS LeaveCategories, TLC

Symmetry == Permutations(Calls) \cup Permutations(Employees)

AllDays ==
    /\ unit = [c \in Categories |-> "DAYS"]
    /\ \A h \in DOMAIN call : Op(h) # "hire" => call[h].data.unit = "DAYS"

Bounded == Cardinality(DOMAIN call) > 2 => AllDays

MCNext == Next /\ Bounded'
MCSpec == Init /\ [][MCNext]_vars
=============================================================================
