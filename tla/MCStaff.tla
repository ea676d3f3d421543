------------------------------ MODULE MCStaff ------------------------------
(***************************************************************************)
(* Staff on small instances: the calls of a behaviour are those of one     *)
(* family, which share rows.                                               *)
(***************************************************************************)
EXTENDS Staff

Families == {{"owner", "put", "user", "level", "education", "hire"},
             {"hire", "delete", "buy", "put", "status"},
             {"job_post", "job_put", "job_drop", "shift", "level", "status", "hire"}}

Ops == {call[h].op : h \in DOMAIN call}
Together == \E F \in Families : Ops \subseteq F

(* Calls are alike: they are made in one order.                            *)
Rank == CHOOSE r \in [Calls -> 1 .. Cardinality(Calls)] : IsInjective(r)
InOrder == \A h \in DOMAIN call, x \in Calls : Rank[x] < Rank[h] => x \in DOMAIN call

(* At first everybody has a current job information or none, and one of    *)
(* them perhaps another, before or after it; nobody reports to himself,    *)
(* and the owner is fixed.                                                 *)
JobRank == CHOOSE r \in [Early -> 1 .. Cardinality(Early)] : IsInjective(r)
Org ==
    /\ Owners = {CHOOSE e \in Known : TRUE}
    /\ \A e \in Known :
         /\ \A i \in DOMAIN emp[e].jobs :
              JobRank[emp[e].jobs[i].id] = i /\ emp[e].jobs[i].to # e
         /\ emp[e].jobs # <<>> => Current(emp[e]) # NoJob
    /\ \A e, x \in Known :
         e # x /\ Len(emp[e].jobs) > 1 => Len(emp[x].jobs) = 1 /\ Current(emp[x]).to = e

(* A hire as an owner, or beside a change of ownership, is a plain one.    *)
Plain(b) == b.trial /\ ~b.job /\ b.status = "Active"
Hires == \A h \in Made({"hire"}) :
             LET b == call[h].body IN
             (b.job => b.active) /\ (b.owner \/ "owner" \in Ops => Plain(b))

(* The calls about job informations start from any of these, on all seats, *)
(* and cross each other only, if neither fails; to name oneself is for one *)
(* call alone, to change the supervisor in a PUT for calls that do not     *)
(* cross, and what others bring is fixed.  Those others start from one.    *)
Simple ==
    IF Ops \cap JobOps = {}
    THEN \A e \in Known \cap DOMAIN emp : Len(emp[e].jobs) = 1 /\ Current(emp[e]).to = None
    ELSE /\ seats = MaxSeats
         /\ crossed # {} => Ops \subseteq JobOps \ {"shift"} /\ cut = NoRows
         /\ \A h \in DOMAIN call :
              LET b == call[h].body IN
              CASE call[h].op = "status" -> b.status = "Inactive" /\ b.transfer # None
                [] call[h].op = "level" -> b = "EMPLOYEE"
                [] call[h].op = "hire" -> b.trial /\ b.job /\ b.active
                [] call[h].op = "job_put" ->
                     b.to # call[h].id /\ (crossed # {} => b.to = "kept")
                [] call[h].op = "job_post" ->
                     b.to = call[h].id => DOMAIN call = {h}
                [] OTHER -> TRUE

(* No call begins after one has failed.                                    *)
Few == \A h \in DOMAIN call : pc[h] = "failed" => UNCHANGED call

MCInit == Init /\ Org
MCNext == Next /\ Together' /\ InOrder' /\ Hires' /\ Simple' /\ Few
MCSpec == MCInit /\ [][MCNext]_vars
=============================================================================
