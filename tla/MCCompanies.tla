---------------------------- MODULE MCCompanies ----------------------------
(***************************************************************************)
(* Companies on small instances.                                           *)
(***************************************************************************)
EXTENDS Companies

Symmetry == Permutations(Calls)

(* Any two calls may cross at any step.  A third begins only beside a      *)
(* sign-up that was over and done before the others began, and the other   *)
(* two are then about the same company, or both of them hire.              *)
SignedUp(h) ==
    /\ call[h].op = "signUp" /\ pc[h] = "done"
    /\ \A x \in Calls \ {h} : {h, x} \notin crossed

Meet(x, y) ==
    \/ call[x].company = call[y].company
    \/ {call[x].op, call[y].op} = {"signUp", "hire"}

MayBegin ==
    Cardinality(DOMAIN call) = 2 => \E h \in DOMAIN call : SignedUp(h)
Bounded ==
    DOMAIN call = Calls =>
      \E h \in Calls : SignedUp(h) /\ \A x, y \in Calls \ {h} : x # y => Meet(x, y)

MCNext == \E h \in Calls : (MayBegin /\ Start(h) /\ Bounded') \/ Step(h) \/ Abort(h)
MCSpec == Init /\ [][MCNext]_vars
=============================================================================
