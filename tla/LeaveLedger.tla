----------------------------- MODULE LeaveLedger -----------------------------
(***************************************************************************)
(* What an undisturbed leave account promises: a request is charged to it  *)
(* at most once and, once charged, released at most once and never charged *)
(* again.  An account may become void, at any time and for good; nothing   *)
(* is promised of it from then on.                                         *)
(***************************************************************************)
CONSTANTS Accounts, Requests

VARIABLES
    void,     \* accounts whose books have been disturbed
    phase     \* phase[a][r]: what account a has done with request r

Phases  == {"none", "charged", "released"}
Untouched == [r \in Requests |-> "none"]

Init ==
    /\ void = {}
    /\ phase = [a \in Accounts |-> Untouched]

Move(a, r, from, to) ==
    /\ a \notin void
    /\ phase[a][r] = from
    /\ phase' = [phase EXCEPT ![a][r] = to]
    /\ UNCHANGED void

Charge(a, r)  == Move(a, r, "none", "charged")
Release(a, r) == Move(a, r, "charged", "released")

Void(as) ==
    /\ void' = void \cup as
    /\ phase' = [a \in Accounts |-> IF a \in as THEN Untouched ELSE phase[a]]

Next ==
    \/ \E a \in Accounts, r \in Requests : Charge(a, r) \/ Release(a, r)
    \/ \E as \in SUBSET Accounts : Void(as)

Spec == Init /\ [][Next]_<<void, phase>>
=============================================================================
