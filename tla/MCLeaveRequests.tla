--------------------------- MODULE MCLeaveRequests ---------------------------
(***************************************************************************)
(* LeaveRequests on small instances: two calls in tables that anything may *)
(* disturb, and three on accounts that are open to active employees, while *)
(* their categories are not edited.                                        *)
(***************************************************************************)
EXTENDS LeaveRequests, FiniteSets, TLC

CONSTANT Few         \* how many calls are made if anything is disturbed

Symmetry == Permutations(Calls) \cup Permutations(Balances)

Undisturbed ==
    /\ active = Employees /\ category = Categories
    /\ unit = [c \in Categories |-> "DAYS"]
    /\ Cardinality(DOMAIN balance) = Cardinality(Accounts)
    /\ \A a \in Accounts : blots[a] \cap {"deleted", "unitEdited"} = {}

Many == Cardinality(DOMAIN call) > Few

MCNext ==
    \/ \E h \in Calls :
         /\ Post(h) \/ Put(h) \/ Adjust(h) \/ Abort(h)
         /\ Many' => Undisturbed
    \/ /\ ~Many
       /\ \/ Categorise
          \/ \E r \in Calls : DeleteRequest(r)
          \/ \E e \in Employees : ChangeEmployeeStatus(e)

MCSpec == Init /\ [][MCNext]_vars
=============================================================================
