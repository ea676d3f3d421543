--------------------------- MODULE MCRecruitment ---------------------------
(***************************************************************************)
(* Recruitment on small instances: the calls of a behaviour are those of   *)
(* one family, which share rows.  They are two, or three where summaries   *)
(* are written and only the resume of one candidate is edited.             *)
(***************************************************************************)
EXTENDS Recruitment, FiniteSets, TLC

Families == {{"apply", "career", "job_post", "job_put", "update"},
             {"apply", "generate", "update", "hire"},
             {"generate", "delete", "update"},
             {"delete", "pool_post", "pool_put", "pool_delete"},
             {"offer_post", "offer_put", "answer", "hire"}}

Ops == {call[h].op : h \in DOMAIN call}
Together == \E F \in Families : Ops \subseteq F

(* Calls are alike: they are made in one order.                            *)
Rank == CHOOSE r \in [Calls -> 1 .. Cardinality(Calls)] : IsInjective(r)
InOrder(h) == \A x \in Calls : Rank[x] < Rank[h] => x \in DOMAIN call

(* So are the rows there from the start: one is the first to be meant.     *)
KnownRank == CHOOSE r \in [Known -> 1 .. Cardinality(Known)] : IsInjective(r)
First == \A h \in DOMAIN call :
           Rank[h] = 1 /\ call[h].id \in Known => KnownRank[call[h].id] = 1

(* An edit of a candidate changes one thing.                               *)
Simple ==
    \A u \in DOMAIN call : call[u].op = "update" =>
      Cardinality({f \in {"status", "job"} : call[u][f] # None}
                  \cup {f \in {"resume"} : call[u][f] # Kept}
                  \cup IF call[u].rated THEN {"rated"} ELSE {}) <= 1

(* Calls about the summary of one candidate                                *)
Summaries ==
    /\ Ops \subseteq {"apply", "generate", "update"}
    /\ \A h, x \in DOMAIN call : call[h].id = call[x].id
    /\ \A u \in DOMAIN call : Op(u) = "update" => call[u].resume # Kept
    /\ job = Known

(* Only they are three, of three kinds, and know a question without an     *)
(* answer.                                                                 *)
Three ==
    \/ Summaries /\ (Cardinality(DOMAIN call) = 3 => Cardinality(Ops) = 3)
    \/ /\ Cardinality(DOMAIN call) <= 2
       /\ \A h \in DOMAIN call : Op(h) \in {"apply", "career", "update"} => call[h].resume # Blank

May(h) == InOrder(h) /\ (Cardinality(DOMAIN call) = 2 => Summaries)

(* One job, and only an offer that calls are about, is deleted.            *)
Bounded ==
    /\ Together' /\ First' /\ Simple' /\ Three'
    /\ Cardinality(Known \ job') <= 1
    /\ \A o \in DOMAIN offer \ DOMAIN offer' : "answer" \in Ops

MCNext ==
    /\ \/ \E h \in Calls : (May(h) /\ Start(h)) \/ Step(h) \/ Abort(h) \/ Summarise(h)
       \/ \E k \in Ids : DeleteJob(k) \/ DeleteOffer(k)
    /\ Bounded
MCSpec == Init /\ [][MCNext]_vars /\ Fairness
=============================================================================
