-------------------------------- MODULE Rows --------------------------------
(***************************************************************************)
(* The table operations the services reach through TypeORM.  A table is a  *)
(* function from the ids of its rows to the rows.                          *)
(*                                                                         *)
(* repository.save(entity) selects the row with the entity's primary key,  *)
(* updates every column in which the row differs from the entity, and      *)
(* inserts the entity when there is no such row.  A handler that saves an  *)
(* entity it read earlier therefore overwrites whatever was stored in      *)
(* between, and brings back a row that was deleted in between.             *)
(***************************************************************************)

Save(table, id, row) ==
    [x \in DOMAIN table \cup {id} |-> IF x = id THEN row ELSE table[x]]

(* Several entities saved together.                                        *)
SaveAll(table, rows) ==
    [x \in DOMAIN table \cup DOMAIN rows |-> IF x \in DOMAIN rows THEN rows[x] ELSE table[x]]

Delete(table, id) == [x \in DOMAIN table \ {id} |-> table[x]]

(* One row under its id.                                                  *)
One(id, row) == [x \in {id} |-> row]

NoRows == [x \in {} |-> x]

IsTable(table, Ids, Row) ==
    /\ DOMAIN table \subseteq Ids
    /\ table \in [DOMAIN table -> Row]

=============================================================================
