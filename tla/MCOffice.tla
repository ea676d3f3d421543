------------------------------ MODULE MCOffice ------------------------------
(***************************************************************************)
(* Office on small instances.  The old tables of documents and the new     *)
(* share nothing but the bucket, where their keys differ: the calls of a   *)
(* behaviour are all on the old or all on the new.                         *)
(*                                                                         *)
(* Employees and Known are the same model values: they are never on the    *)
(* same side, and one symmetry serves both.                                *)
(***************************************************************************)
EXTENDS Office

Old == {"folder_post", "folder_put", "folder_drop", "upload", "add", "put", "move", "remove"}
New == {"shelf_post", "shelf_put", "shelf_drop", "upload", "file_post", "file_put", "file_drop"}

OneSide ==
    \E age \in {<<Old, "document">>, <<New, "file">>} :
      \A h \in DOMAIN paperCall :
        /\ paperCall[h].op \in age[1]
        /\ paperCall[h].op = "upload" => paperCall[h].ids = {age[2]}

(* The sides that do not run start in one state; boarding has no rows.     *)
MCInit ==
    /\ side \in {"documents", "boarding", "answers"}
    /\ Init /\ D!Init
    /\ side # "documents" =>
         \A k \in Known : folder[k].parent = None /\ document[k].folder = None
    /\ \/ side = "boarding" /\ B!Init
       \/ /\ side # "boarding"
          /\ task = NoRows /\ category = {} /\ row = NoRows /\ boardPc = NoRows
          /\ boardCall = NoRows /\ boardVar = NoRows /\ boardCrossed = {}

MCNext == (DocumentsStep /\ OneSide') \/ BoardingStep \/ AnswersStep

MCSpec == MCInit /\ [][MCNext]_<<side, vars, papers, board>>

Symmetry == Permutations(Requests) \cup Permutations(Known) \cup Permutations(Calls)
=============================================================================
