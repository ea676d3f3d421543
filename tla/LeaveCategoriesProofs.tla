------------------------ MODULE LeaveCategoriesProofs ------------------------
(***************************************************************************)
(* Proofs about LeaveCategories, for every number of employees, categories *)
(* and calls.                                                              *)
(***************************************************************************)
EXTENDS LeaveCategories, FiniteSetTheorems, TLAPS

-----------------------------------------------------------------------------
(* The tables of categories are those whose rows are assignees.            *)
LEMMA Tables ==
    ASSUME NEW t
    PROVE  t \in Table <=> IsTable(t, Categories, Assignees)
<1>1. ASSUME t \in Table PROVE IsTable(t, Categories, Assignees)
  <2>1. PICK cs \in SUBSET Categories : t \in [cs -> Assignees]
    BY <1>1 DEF Table
  <2>2. QED
    BY <2>1 DEF IsTable
<1>2. ASSUME IsTable(t, Categories, Assignees) PROVE t \in Table
  BY <1>2 DEF IsTable, Table
<1>3. QED
  BY <1>1, <1>2

(* A call has the fields of its operation, each of its type.               *)
LEMMA CallFields ==
    ASSUME TypeOK, NEW h \in DOMAIN call
    PROVE  /\ h \in Calls
           /\ Op(h) \in {"post", "put", "hire"}
           /\ Op(h) \in {"post", "put"} => /\ call[h].cat \in Categories
                                           /\ call[h].data \in Assignees
           /\ Op(h) = "put" => call[h].old \subseteq Employees
           /\ Op(h) = "hire" => call[h].emp \in Employees
<1>1. h \in Calls /\ call[h] \in Call
  BY DEF TypeOK, IsTable
<1>2. QED
  BY <1>1 DEF Call, Op

LEMMA CategoryFields ==
    ASSUME TypeOK
    PROVE  /\ DOMAIN category \subseteq Categories
           /\ \A c \in DOMAIN category : category[c] \in Assignees
           /\ \A h \in DOMAIN seen : /\ h \in Calls /\ seen[h] \in Table
                                     /\ DOMAIN seen[h] \subseteq Categories
                                     /\ \A c \in DOMAIN seen[h] : seen[h][c] \in Assignees
           /\ \A h \in DOMAIN todo : h \in Calls
<1>1. category \in Table /\ \A h \in DOMAIN seen : h \in Calls /\ seen[h] \in Table
  BY DEF TypeOK, IsTable
<1>2. /\ IsTable(category, Categories, Assignees)
      /\ \A h \in DOMAIN seen : IsTable(seen[h], Categories, Assignees)
  BY <1>1, Tables
<1>3. QED
  BY <1>1, <1>2 DEF IsTable, TypeOK

(* Where the calls in flight are. *)
LEMMA Places ==
    ASSUME TypeOK, CallsInv
    PROVE  /\ \A h \in Calls : pc[h] \in InFlight => h \in DOMAIN call /\ h \in Busy
           /\ \A h \in Busy : /\ h \in DOMAIN call /\ h \in Calls
                              /\ Op(h) = "post" <=> pc[h] = "post_open"
                              /\ Op(h) = "put" <=> pc[h] \in PutSteps
                              /\ Op(h) = "hire" <=> pc[h] \in Hiring
<1>1. \A h \in Calls : pc[h] \in InFlight => h \in DOMAIN call /\ h \in Busy
  BY DEF CallsInv, Busy, InFlight, Opening, Hiring
<1>2. \A h \in Busy : /\ h \in DOMAIN call /\ pc[h] \in InFlight
                      /\ Placed(h) /\ h \in Calls /\ Op(h) \in {"post", "put", "hire"}
  BY CallFields DEF CallsInv, Busy
<1>3. QED
  BY <1>1, <1>2 DEF Placed, InFlight, Opening, Hiring, PutSteps

-----------------------------------------------------------------------------
(* A step of the calls of H leaves the others where they are.              *)
Still(g) ==
    /\ pc'[g] = pc[g]
    /\ g \in DOMAIN call' <=> g \in DOMAIN call
    /\ g \in DOMAIN todo' <=> g \in DOMAIN todo
    /\ g \in DOMAIN todo => todo'[g] = todo[g]
    /\ g \in DOMAIN seen' <=> g \in DOMAIN seen
    /\ g \in DOMAIN seen => seen'[g] = seen[g]

Frame(H) ==
    /\ DOMAIN call \subseteq DOMAIN call' /\ DOMAIN call' \subseteq DOMAIN call \cup H
    /\ \A g \in DOMAIN call : call'[g] = call[g]
    /\ \A g \in Calls : g \notin H => Still(g)

(* The histories grow, and no row of a balance goes. *)
Grows ==
    /\ crossed \subseteq crossed'
    /\ unlisted \subseteq unlisted' /\ phantom \subseteq phantom'
    /\ returned \subseteq returned' /\ Hired \subseteq Hired'
    /\ \A a \in Accounts : opened[a] \subseteq opened'[a]

LEMMA QuietFrame ==
    ASSUME UNCHANGED memory
    PROVE  Frame({})
  BY DEF memory, Frame, Still

(* However a handler's locals change, those of the others do not. *)
LEMMA StepFrame ==
    ASSUME TypeOK, NEW h \in Calls, NEW to, pc' = pc \/ pc' = [pc EXCEPT ![h] = to],
           UNCHANGED call,
           NEW t, todo' = todo \/ todo' = Save(todo, h, t) \/ todo' = [todo EXCEPT ![h] = t],
           NEW u, seen' = seen \/ seen' = Save(seen, h, u) \/ seen' = [seen EXCEPT ![h] = u]
    PROVE  Frame({h})
<1>1. pc \in [Calls -> Steps]
  BY DEF TypeOK
<1>2. ASSUME NEW g \in Calls, g # h PROVE Still(g)
  <2>1. pc'[g] = pc[g]
    BY <1>1, <1>2
  <2>2. /\ g \in DOMAIN todo' <=> g \in DOMAIN todo
        /\ g \in DOMAIN todo => todo'[g] = todo[g]
    BY <1>2 DEF Save
  <2>3. /\ g \in DOMAIN seen' <=> g \in DOMAIN seen
        /\ g \in DOMAIN seen => seen'[g] = seen[g]
    BY <1>2 DEF Save
  <2>4. QED
    BY <2>1, <2>2, <2>3 DEF Still
<1>3. QED
  BY <1>2 DEF Frame

LEMMA BeginFrame ==
    ASSUME TypeOK, CallsInv, NEW h \in Calls, NEW to, NEW k,
           pc[h] = "idle", pc' = [pc EXCEPT ![h] = to],
           call' = Save(call, h, k), UNCHANGED seen,
           NEW t, todo' = todo \/ todo' = Save(todo, h, t)
    PROVE  /\ Frame({h}) /\ pc'[h] = to
           /\ h \notin DOMAIN call /\ h \in DOMAIN call' /\ call'[h] = k
<1>1. pc \in [Calls -> Steps] /\ h \notin DOMAIN call
  BY DEF TypeOK, CallsInv
<1>2. /\ DOMAIN call' = DOMAIN call \cup {h} /\ call'[h] = k
      /\ \A g \in DOMAIN call : call'[g] = call[g]
  BY <1>1 DEF Save
<1>3. ASSUME NEW g \in Calls, g # h PROVE Still(g)
  <2>1. pc'[g] = pc[g]
    BY <1>1, <1>3
  <2>2. /\ g \in DOMAIN todo' <=> g \in DOMAIN todo
        /\ g \in DOMAIN todo => todo'[g] = todo[g]
    BY <1>3 DEF Save
  <2>3. QED
    BY <1>2, <1>3, <2>1, <2>2 DEF Still
<1>4. QED
  BY <1>1, <1>2, <1>3 DEF Frame
-----------------------------------------------------------------------------
(* What the actions have in common. *)

LEMMA Opens ==
    ASSUME TypeOK, NEW h \in Calls, NEW e \in Employees, NEW c \in Categories,
           opened' = [opened EXCEPT ![<<e, c>>] = @ \cup {h}]
    PROVE  /\ opened' \in [Accounts -> SUBSET Calls]
           /\ opened'[<<e, c>>] = opened[<<e, c>>] \cup {h}
           /\ \A a \in Accounts : opened[a] \subseteq opened'[a]
           /\ \A x \in Employees, y \in Categories :
                 x # e \/ y # c => opened'[<<x, y>>] = opened[<<x, y>>]
<1>1. opened \in [Accounts -> SUBSET Calls]
  BY DEF TypeOK
<1>2. <<e, c>> \in Accounts
  BY DEF Accounts
<1>3. QED
  BY <1>1, <1>2 DEF Accounts

LEMMA Saves ==
    ASSUME TypeOK, NEW rows \in Table, SaveCategories(rows), UNCHANGED opened
    PROVE  /\ category' \in Table /\ unit' \in [Categories -> TimeUnits]
           /\ DOMAIN rows \subseteq Categories
           /\ DOMAIN category' = DOMAIN category \cup DOMAIN rows
           /\ \A c \in DOMAIN rows : category'[c] = rows[c]
           /\ \A c \in DOMAIN category : c \notin DOMAIN rows => category'[c] = category[c]
           /\ unlisted \subseteq unlisted' /\ phantom \subseteq phantom'
           /\ \A c \in DOMAIN rows : Holders(c) \subseteq rows[c].ids \/ c \in unlisted'
           /\ \A c \in DOMAIN rows : rows[c].ids \subseteq Holders(c) \/ c \in phantom'
<1>1. IsTable(rows, Categories, Assignees) /\ IsTable(category, Categories, Assignees)
  BY Tables DEF TypeOK
<1>2. /\ DOMAIN category' = DOMAIN category \cup DOMAIN rows
      /\ \A c \in DOMAIN rows : category'[c] = rows[c]
      /\ \A c \in DOMAIN category : c \notin DOMAIN rows => category'[c] = category[c]
  BY DEF SaveCategories
<1>3. IsTable(category', Categories, Assignees)
  <2>1. \E f : category' = [c \in DOMAIN category' |-> f[c]]
    <3>1. category' = [c \in DOMAIN category \cup DOMAIN rows |->
                         [d \in DOMAIN category \cup DOMAIN rows |->
                            IF d \in DOMAIN rows THEN rows[d] ELSE category[d]][c]]
      BY DEF SaveCategories
    <3>2. QED
      BY <1>2, <3>1
  <2>2. \A c \in DOMAIN category' : category'[c] \in Assignees /\ c \in Categories
    BY <1>1, <1>2 DEF IsTable
  <2>3. QED
    BY <2>1, <2>2 DEF IsTable
<1>4. category' \in Table
  <2>1. \A t : IsTable(t, Categories, Assignees) => t \in Table
    BY Tables
  <2>2. QED
    BY <1>3, <2>1
<1>5. unit' \in [Categories -> TimeUnits]
  <2>1. \A c \in DOMAIN rows : rows[c].unit \in TimeUnits
    BY <1>1 DEF IsTable, Assignees
  <2>2. unit' = [c \in Categories |-> IF c \in DOMAIN rows THEN rows[c].unit ELSE unit[c]]
    BY DEF SaveCategories
  <2>3. QED
    BY <2>1, <2>2 DEF TypeOK
<1>6. QED
  BY <1>1, <1>2, <1>4, <1>5 DEF SaveCategories, IsTable

LEMMA OneRowTable ==
    ASSUME NEW c \in Categories, NEW r \in Assignees
    PROVE  /\ OneRow(c, r) \in Table /\ DOMAIN OneRow(c, r) = {c}
           /\ OneRow(c, r)[c] = r
<1>1. IsTable(OneRow(c, r), Categories, Assignees)
  BY DEF OneRow, Save, IsTable, NoRows
<1>2. DOMAIN OneRow(c, r) = {c} /\ OneRow(c, r)[c] = r
  BY DEF OneRow, Save, NoRows, IsTable
<1>3. \A t : IsTable(t, Categories, Assignees) => t \in Table
  BY Tables
<1>4. QED
  BY <1>1, <1>2, <1>3

LEMMA CrossGrows ==
    ASSUME NEW op, NEW others, Cross(op, others)
    PROVE  /\ crossed \subseteq crossed'
           /\ \A x \in others : {op, Op(x)} \in crossed'
  BY DEF Cross

-----------------------------------------------------------------------------
(* What each action does, in the terms of Frame; and types are kept.       *)

LEMMA AssigneesRow ==
    ASSUME NEW everyone \in BOOLEAN, NEW ids \in SUBSET Employees, NEW u \in TimeUnits
    PROVE  [everyone |-> everyone, ids |-> ids, unit |-> u] \in Assignees
  BY DEF Assignees

LEMMA HiredEmployees ==
    ASSUME TypeOK
    PROVE  Hired \subseteq Employees
  BY DEF TypeOK, Hired

LEMMA PostReadDoes ==
    ASSUME TypeOK, CallsInv, NEW h \in Calls, PostReadEmployees(h)
    PROVE  /\ Frame({h}) /\ h \notin DOMAIN call /\ h \in DOMAIN call'
           /\ pc[h] = "idle" /\ pc'[h] = "post_open" /\ pc' \in [Calls -> Steps]
           /\ call' = Save(call, h, call'[h]) /\ call'[h].op = "post"
           /\ todo' = Save(todo, h, todo'[h]) /\ h \in DOMAIN todo'
           /\ todo'[h] \subseteq Hired
           /\ Cross("post", Busy)
           /\ \E c \in Categories \ Posted, everyone \in BOOLEAN, ids \in SUBSET Hired :
                /\ call'[h] = [op |-> "post", cat |-> c,
                               data |-> [everyone |-> everyone, ids |-> ids, unit |-> unit[c]]]
                /\ todo'[h] = IF everyone THEN staff ELSE ids
<1>1. PICK c \in Categories \ Posted, everyone \in BOOLEAN, ids \in SUBSET Hired :
         /\ Begin(h, [op |-> "post", cat |-> c,
                      data |-> [everyone |-> everyone, ids |-> ids, unit |-> unit[c]]])
         /\ todo' = Save(todo, h, IF everyone THEN staff ELSE ids)
  BY DEF PostReadEmployees
<1>2. PICK k : k = [op |-> "post", cat |-> c,
                    data |-> [everyone |-> everyone, ids |-> ids, unit |-> unit[c]]]
  OBVIOUS
<1>3. PICK t : t = IF everyone THEN staff ELSE ids
  OBVIOUS
<1>4. /\ pc[h] = "idle" /\ pc' = [pc EXCEPT ![h] = "post_open"]
      /\ call' = Save(call, h, k) /\ todo' = Save(todo, h, t) /\ UNCHANGED seen
      /\ Cross("post", Busy)
  BY <1>1, <1>2, <1>3 DEF PostReadEmployees, Goto, Begin
<1>5. /\ Frame({h}) /\ pc'[h] = "post_open"
      /\ h \notin DOMAIN call /\ h \in DOMAIN call' /\ call'[h] = k
  BY <1>4, BeginFrame
<1>6. todo'[h] = t /\ h \in DOMAIN todo'
  BY <1>4 DEF Save
<1>7. pc' \in [Calls -> Steps]
  BY <1>4 DEF TypeOK, Steps, InFlight, Opening
<1>8. k.op = "post" /\ t \subseteq Hired
  BY <1>2, <1>3 DEF Hired
<1>9. \E c_1 \in Categories \ Posted, everyone_1 \in BOOLEAN, ids_1 \in SUBSET Hired :
        /\ call'[h] = [op |-> "post", cat |-> c_1,
                       data |-> [everyone |-> everyone_1, ids |-> ids_1, unit |-> unit[c_1]]]
        /\ todo'[h] = IF everyone_1 THEN staff ELSE ids_1
  <2> WITNESS c \in Categories \ Posted, everyone \in BOOLEAN, ids \in SUBSET Hired
  <2> QED
    BY <1>2, <1>3, <1>5, <1>6
<1>10. QED
  BY <1>4, <1>5, <1>6, <1>7, <1>8, <1>9

LEMMA PutReadDoes ==
    ASSUME TypeOK, CallsInv, NEW h \in Calls, PutReadCategory(h)
    PROVE  /\ Frame({h}) /\ h \notin DOMAIN call /\ h \in DOMAIN call'
           /\ pc[h] = "idle" /\ pc' \in [Calls -> Steps]
           /\ pc'[h] \in {"put_read", "put_save"}
           /\ call' = Save(call, h, call'[h]) /\ call'[h].op = "put"
           /\ Cross("put", Busy)
           /\ \E c \in DOMAIN category,
                 new \in [everyone: BOOLEAN, ids: SUBSET Hired, unit: TimeUnits] :
                /\ pc'[h] = IF new.everyone /\ ~category[c].everyone
                            THEN "put_read" ELSE "put_save"
                /\ call'[h] = [op |-> "put", cat |-> c, data |-> new,
                               old |-> category[c].ids]
<1>1. PICK c \in DOMAIN category,
           new \in [everyone: BOOLEAN, ids: SUBSET Hired, unit: TimeUnits] :
         /\ Begin(h, [op |-> "put", cat |-> c, data |-> new, old |-> category[c].ids])
         /\ Goto(h, "idle", IF new.everyone /\ ~category[c].everyone
                            THEN "put_read" ELSE "put_save")
  BY DEF PutReadCategory
<1>2. PICK k : k = [op |-> "put", cat |-> c, data |-> new, old |-> category[c].ids]
  OBVIOUS
<1>3. PICK to : to = IF new.everyone /\ ~category[c].everyone THEN "put_read" ELSE "put_save"
  OBVIOUS
<1>4. /\ pc[h] = "idle" /\ pc' = [pc EXCEPT ![h] = to]
      /\ call' = Save(call, h, k) /\ todo' = todo /\ UNCHANGED seen
      /\ Cross("put", Busy)
  BY <1>1, <1>2, <1>3 DEF PutReadCategory, Goto, Begin
<1>5. /\ Frame({h}) /\ pc'[h] = to
      /\ h \notin DOMAIN call /\ h \in DOMAIN call' /\ call'[h] = k
  BY <1>4, BeginFrame
<1>6. pc' \in [Calls -> Steps]
  BY <1>3, <1>4 DEF TypeOK, Steps, InFlight
<1>7. k.op = "put" /\ to \in {"put_read", "put_save"}
  BY <1>2, <1>3
<1>8. \E d \in DOMAIN category,
         data \in [everyone: BOOLEAN, ids: SUBSET Hired, unit: TimeUnits] :
        /\ pc'[h] = IF data.everyone /\ ~category[d].everyone
                    THEN "put_read" ELSE "put_save"
        /\ call'[h] = [op |-> "put", cat |-> d, data |-> data, old |-> category[d].ids]
  <2> WITNESS c \in DOMAIN category,
              new \in [everyone: BOOLEAN, ids: SUBSET Hired, unit: TimeUnits]
  <2> QED
    BY <1>2, <1>3, <1>5
<1>9. QED
  BY <1>4, <1>5, <1>6, <1>7, <1>8

LEMMA HireInsertDoes ==
    ASSUME TypeOK, CallsInv, NEW h \in Calls, HireInsert(h)
    PROVE  /\ Frame({h}) /\ h \notin DOMAIN call /\ h \in DOMAIN call'
           /\ pc[h] = "idle" /\ pc'[h] = "hire_insert" /\ pc' \in [Calls -> Steps]
           /\ call' = Save(call, h, call'[h])
           /\ call'[h] \in [op: {"hire"}, emp: Employees \ Hired]
           /\ staff' = staff \cup {call'[h].emp}
           /\ Cross("hire", Busy)
<1>1. PICK e \in Employees \ Hired : /\ Begin(h, [op |-> "hire", emp |-> e])
                                     /\ staff' = staff \cup {e}
  BY DEF HireInsert
<1>2. PICK k : k = [op |-> "hire", emp |-> e]
  OBVIOUS
<1>3. /\ pc[h] = "idle" /\ pc' = [pc EXCEPT ![h] = "hire_insert"]
      /\ call' = Save(call, h, k) /\ todo' = todo /\ UNCHANGED seen
      /\ Cross("hire", Busy)
  BY <1>1, <1>2 DEF HireInsert, Goto, Begin
<1>4. /\ Frame({h}) /\ pc'[h] = "hire_insert"
      /\ h \notin DOMAIN call /\ h \in DOMAIN call' /\ call'[h] = k
  BY <1>3, BeginFrame
<1>5. pc' \in [Calls -> Steps]
  BY <1>3 DEF TypeOK, Steps, InFlight, Hiring
<1>6. k \in [op: {"hire"}, emp: Employees \ Hired] /\ k.emp = e
  BY <1>2
<1>7. QED
  BY <1>1, <1>3, <1>4, <1>5, <1>6

(* One turn of the loop of a POST or PUT. *)
LEMMA OpenDoes ==
    ASSUME TypeOK, CallsInv, NEW h \in Calls, OpenBalance(h)
    PROVE  /\ h \in DOMAIN call /\ h \in Busy /\ pc[h] \in Opening
           /\ call[h].cat \in Categories
           /\ \E e \in todo[h] :
                /\ e \in Hired /\ Frame({h})
                /\ opened' = [opened EXCEPT ![<<e, call[h].cat>>] = @ \cup {h}]
                /\ h \in DOMAIN todo /\ DOMAIN todo' = DOMAIN todo
                /\ todo'[h] = todo[h] \ {e}
<1>1. PICK e \in todo[h] :
         /\ opened' = [opened EXCEPT ![<<e, call[h].cat>>] = @ \cup {h}]
         /\ todo' = [todo EXCEPT ![h] = @ \ {e}]
  BY DEF OpenBalance
<1>2. /\ pc[h] \in Opening /\ UNCHANGED <<pc, call, seen>>
  BY DEF OpenBalance
<1>3. /\ h \in DOMAIN call /\ h \in Busy
      /\ h \in DOMAIN todo /\ todo[h] \subseteq Hired
      /\ Op(h) = "post" \/ Op(h) = "put"
  BY <1>2, Places DEF CallsInv, Placed, InFlight, Opening, PutSteps
<1>4. call[h].cat \in Categories
  BY <1>3, CallFields
<1>5. PICK t : t = todo[h] \ {e}
  OBVIOUS
<1>6. todo' = [todo EXCEPT ![h] = t]
  BY <1>1, <1>5
<1>7. Frame({h})
  BY <1>2, <1>6, StepFrame
<1>8. DOMAIN todo' = DOMAIN todo /\ todo'[h] = t
  BY <1>3, <1>6
<1>9. QED
  BY <1>1, <1>2, <1>3, <1>4, <1>5, <1>7, <1>8

(* The saves of POST and PUT. *)
LEMMA SaveOneDoes ==
    ASSUME TypeOK, CallsInv, NEW h \in Calls, PostSaveCategory(h) \/ PutSaveCategory(h)
    PROVE  /\ h \in DOMAIN call /\ h \in Busy /\ Frame({h}) /\ pc'[h] = "done"
           /\ pc' \in [Calls -> Steps]
           /\ \/ PostSaveCategory(h) /\ pc[h] = "post_open" /\ Op(h) = "post"
              \/ PutSaveCategory(h) /\ pc[h] \in {"put_open", "put_save"} /\ Op(h) = "put"
           /\ pc[h] \in Opening => todo[h] = {}
           /\ call[h].cat \in Categories /\ call[h].data \in Assignees
           /\ \E rows \in Table : /\ SaveCategories(rows)
                                  /\ DOMAIN rows = {call[h].cat}
                                  /\ rows[call[h].cat] = call[h].data
           /\ UNCHANGED <<staff, opened, savedEmployee, call, todo, seen, crossed, returned>>
<1>1. /\ pc' = [pc EXCEPT ![h] = "done"]
      /\ \/ PostSaveCategory(h) /\ pc[h] = "post_open"
         \/ PutSaveCategory(h) /\ pc[h] \in {"put_open", "put_save"}
      /\ pc[h] \in Opening => todo[h] = {}
      /\ SaveCategories(OneRow(call[h].cat, call[h].data))
      /\ UNCHANGED <<staff, opened, savedEmployee, call, todo, seen, crossed, returned>>
  BY DEF PostSaveCategory, PutSaveCategory, Goto, Opening
<1>2. /\ h \in DOMAIN call /\ h \in Busy /\ Placed(h)
      /\ pc[h] = "post_open" => Op(h) = "post"
      /\ pc[h] \in {"put_open", "put_save"} => Op(h) = "put"
  <2>1. pc[h] \in InFlight
    BY <1>1 DEF InFlight, Opening
  <2>2. QED
    BY <2>1, Places DEF CallsInv, Placed, PutSteps
<1>3. call[h].cat \in Categories /\ call[h].data \in Assignees
  BY <1>1, <1>2, CallFields
<1>4. \E rows \in Table : /\ SaveCategories(rows)
                          /\ DOMAIN rows = {call[h].cat}
                          /\ rows[call[h].cat] = call[h].data
  <2>1. PICK c \in Categories, r \in Assignees : c = call[h].cat /\ r = call[h].data
    BY <1>3
  <2>2. PICK rows : rows = OneRow(c, r)
    OBVIOUS
  <2>3. rows \in Table /\ DOMAIN rows = {c} /\ rows[c] = r
    BY <2>2, OneRowTable
  <2>4. QED
    BY <1>1, <2>1, <2>2, <2>3
<1>5. Frame({h})
  BY <1>1, StepFrame
<1>6. pc'[h] = "done" /\ pc' \in [Calls -> Steps]
  BY <1>1 DEF TypeOK, Steps
<1>7. QED
  BY <1>1, <1>2, <1>3, <1>4, <1>5, <1>6

LEMMA PutEmployeesDoes ==
    ASSUME TypeOK, CallsInv, NEW h \in Calls, PutReadEmployees(h)
    PROVE  /\ h \in DOMAIN call /\ h \in Busy /\ Op(h) = "put" /\ Frame({h})
           /\ call[h].cat \in Categories
           /\ pc[h] = "put_read" /\ pc'[h] = "put_open" /\ pc' \in [Calls -> Steps]
           /\ todo' = Save(todo, h, todo'[h]) /\ h \in DOMAIN todo'
           /\ todo'[h] = staff \ call[h].old
           /\ UNCHANGED <<staff, category, opened, savedEmployee, call, seen, ghosts>>
<1>1. PICK t : t = staff \ call[h].old
  OBVIOUS
<1>2. /\ pc[h] = "put_read" /\ pc' = [pc EXCEPT ![h] = "put_open"]
      /\ todo' = Save(todo, h, t)
      /\ UNCHANGED <<staff, category, opened, savedEmployee, call, seen, ghosts>>
  BY <1>1 DEF PutReadEmployees, Goto
<1>3. h \in DOMAIN call /\ h \in Busy /\ Op(h) = "put"
  BY <1>2, Places DEF InFlight, PutSteps
<1>4. Frame({h})
  BY <1>2, StepFrame
<1>5. pc'[h] = "put_open" /\ pc' \in [Calls -> Steps]
  BY <1>2 DEF TypeOK, Steps, InFlight, Opening
<1>6. todo'[h] = t /\ h \in DOMAIN todo'
  BY <1>2 DEF Save
<1>7. QED
  BY <1>1, <1>2, <1>3, <1>4, <1>5, <1>6, CallFields

LEMMA HireStepDoes ==
    ASSUME TypeOK, CallsInv, NEW h \in Calls, HireResume(h) \/ HireSaveAgain(h)
    PROVE  /\ h \in DOMAIN call /\ h \in Busy /\ Op(h) = "hire" /\ Frame({h})
           /\ call[h].emp \in Employees /\ call[h].emp \in Hired
           /\ pc' \in [Calls -> Steps]
           /\ \/ /\ HireResume(h) /\ pc[h] = "hire_insert" /\ pc'[h] = "hire_save"
                 /\ savedEmployee' = call[h].emp /\ staff' = staff
              \/ /\ HireSaveAgain(h) /\ pc[h] = "hire_save" /\ pc'[h] = "hire_read"
                 /\ savedEmployee' = savedEmployee /\ staff' = staff \cup {call[h].emp}
           /\ UNCHANGED <<category, opened, call, todo, seen, ghosts>>
<1>1. /\ \/ /\ pc[h] = "hire_insert" /\ pc' = [pc EXCEPT ![h] = "hire_save"]
            /\ savedEmployee' = call[h].emp /\ staff' = staff /\ HireResume(h)
         \/ /\ pc[h] = "hire_save" /\ pc' = [pc EXCEPT ![h] = "hire_read"]
            /\ savedEmployee' = savedEmployee /\ staff' = staff \cup {call[h].emp}
            /\ HireSaveAgain(h)
      /\ UNCHANGED <<category, opened, call, todo, seen, ghosts>>
  BY DEF HireResume, HireSaveAgain, Goto
<1>2. h \in DOMAIN call /\ h \in Busy /\ Op(h) = "hire"
  BY <1>1, Places DEF InFlight, Hiring
<1>3. call[h].emp \in Employees /\ call[h].emp \in Hired
  BY <1>2, CallFields DEF CallsInv, Placed
<1>4. PICK to \in {"hire_save", "hire_read"} : pc' = [pc EXCEPT ![h] = to]
  BY <1>1
<1>5. Frame({h})
  BY <1>1, <1>4, StepFrame
<1>6. pc'[h] = to /\ pc' \in [Calls -> Steps]
  BY <1>4 DEF TypeOK, Steps, InFlight, Hiring
<1>7. pc[h] = "hire_insert" => pc'[h] = "hire_save"
  BY <1>1, <1>6 DEF TypeOK
<1>8. pc[h] = "hire_save" => pc'[h] = "hire_read"
  BY <1>1, <1>6 DEF TypeOK
<1>9. QED
  BY <1>1, <1>2, <1>3, <1>5, <1>6, <1>7, <1>8

LEMMA HireReadDoes ==
    ASSUME TypeOK, CallsInv, NEW h \in Calls, HireReadCategories(h)
    PROVE  /\ h \in DOMAIN call /\ h \in Busy /\ Op(h) = "hire" /\ Frame({h})
           /\ pc[h] = "hire_read" /\ pc'[h] = "hire_open" /\ pc' \in [Calls -> Steps]
           /\ todo' = Save(todo, h, todo'[h]) /\ h \in DOMAIN todo'
           /\ todo'[h] = {c \in DOMAIN category : category[c].everyone}
           /\ seen' = Save(seen, h, category)
           /\ h \in DOMAIN seen' /\ seen'[h] = category
           /\ UNCHANGED <<staff, category, opened, savedEmployee, call, ghosts>>
<1>1. PICK t : t = {c \in DOMAIN category : category[c].everyone}
  OBVIOUS
<1>2. /\ pc[h] = "hire_read" /\ pc' = [pc EXCEPT ![h] = "hire_open"]
      /\ todo' = Save(todo, h, t) /\ seen' = Save(seen, h, category)
      /\ UNCHANGED <<staff, category, opened, savedEmployee, call, ghosts>>
  BY <1>1 DEF HireReadCategories, Goto
<1>3. h \in DOMAIN call /\ h \in Busy /\ Op(h) = "hire"
  BY <1>2, Places DEF InFlight, Hiring
<1>4. PICK u : u = category
  OBVIOUS
<1>5. seen' = Save(seen, h, u)
  BY <1>2, <1>4
<1>6. Frame({h})
  BY <1>2, <1>5, StepFrame
<1>7. pc'[h] = "hire_open" /\ pc' \in [Calls -> Steps]
  BY <1>2 DEF TypeOK, Steps, InFlight, Hiring
<1>8. todo'[h] = t /\ h \in DOMAIN todo' /\ seen'[h] = u /\ h \in DOMAIN seen'
  BY <1>2, <1>5 DEF Save
<1>9. QED
  BY <1>1, <1>2, <1>3, <1>4, <1>6, <1>7, <1>8

(* The step by which a hire opens the balance of category c, and all it does. *)
HireOpens(h, c) ==
    /\ h \in DOMAIN call /\ h \in Busy /\ Op(h) = "hire" /\ pc[h] = "hire_open"
    /\ savedEmployee \in Hired /\ savedEmployee \in Employees
    /\ c \in Categories /\ c \in DOMAIN seen[h] /\ seen[h][c].everyone
    /\ opened' = [opened EXCEPT ![<<savedEmployee, c>>] = @ \cup {h}]
    /\ Frame({h})
    /\ h \in DOMAIN todo /\ DOMAIN todo' = DOMAIN todo
    /\ todo'[h] = todo[h] \ {c}
    /\ h \in DOMAIN seen /\ DOMAIN seen' = DOMAIN seen
    /\ DOMAIN seen'[h] = DOMAIN seen[h]
    /\ seen'[h][c] = [seen[h][c] EXCEPT !.ids = @ \cup {savedEmployee}]
    /\ \A d \in DOMAIN seen[h] : d # c => seen'[h][d] = seen[h][d]
    /\ seen' \in [DOMAIN seen -> Table] /\ DOMAIN seen \subseteq Calls

LEMMA HireOpenDoes ==
    ASSUME TypeOK, CallsInv, NEW h \in Calls, HireOpenBalance(h)
    PROVE  Frame({h}) /\ \E c \in todo[h] : HireOpens(h, c)
<1>1. PICK c \in todo[h] :
         /\ opened' = [opened EXCEPT ![<<savedEmployee, c>>] = @ \cup {h}]
         /\ seen' = [seen EXCEPT ![h][c].ids = @ \cup {savedEmployee}]
         /\ todo' = [todo EXCEPT ![h] = @ \ {c}]
  BY DEF HireOpenBalance
<1>2. pc[h] = "hire_open" /\ UNCHANGED <<pc, call>>
  BY DEF HireOpenBalance
<1>3. /\ h \in DOMAIN call /\ h \in Busy /\ Op(h) = "hire" /\ Placed(h)
  BY <1>2, Places DEF InFlight, Hiring, CallsInv
<1>4. /\ h \in DOMAIN todo /\ h \in DOMAIN seen
      /\ c \in DOMAIN seen[h] /\ seen[h][c].everyone
  BY <1>2, <1>3 DEF Placed
<1>5. /\ savedEmployee \in Hired /\ savedEmployee \in Employees
  <2>1. savedEmployee # Nobody
    BY <1>2, <1>3 DEF Placed, Hiring
  <2>2. QED
    BY <2>1 DEF CallsInv, TypeOK
<1>6. PICK row : row = [seen[h][c] EXCEPT !.ids = @ \cup {savedEmployee}]
  OBVIOUS
<1>7. PICK u : u = [seen[h] EXCEPT ![c] = row]
  OBVIOUS
<1>8. PICK t : t = todo[h] \ {c}
  OBVIOUS
<1>9. seen' = [seen EXCEPT ![h] = u] /\ todo' = [todo EXCEPT ![h] = t]
  BY <1>1, <1>6, <1>7, <1>8
<1>10. Frame({h})
  BY <1>2, <1>9, StepFrame
<1>11. /\ DOMAIN todo' = DOMAIN todo /\ todo'[h] = t
       /\ DOMAIN seen' = DOMAIN seen /\ seen'[h] = u
  BY <1>4, <1>9
<1>12. /\ IsTable(seen[h], Categories, Assignees) /\ c \in Categories
       /\ DOMAIN seen \subseteq Calls /\ seen \in [DOMAIN seen -> Table]
  BY <1>4, CategoryFields, Tables DEF TypeOK, IsTable
<1>13. u \in Table
  <2>1. row \in Assignees
    BY <1>4, <1>5, <1>6, <1>12 DEF IsTable, Assignees
  <2>2. IsTable(u, Categories, Assignees)
    BY <1>4, <1>7, <1>12, <2>1 DEF IsTable
  <2>3. QED
    BY <2>2, Tables
<1>14. seen' \in [DOMAIN seen -> Table]
  BY <1>9, <1>12, <1>13
<1>15. /\ DOMAIN u = DOMAIN seen[h] /\ u[c] = row
       /\ \A d \in DOMAIN seen[h] : d # c => u[d] = seen[h][d]
  BY <1>4, <1>7
<1>16. /\ todo'[h] = todo[h] \ {c} /\ DOMAIN seen'[h] = DOMAIN seen[h]
       /\ seen'[h][c] = [seen[h][c] EXCEPT !.ids = @ \cup {savedEmployee}]
       /\ \A d \in DOMAIN seen[h] : d # c => seen'[h][d] = seen[h][d]
  BY <1>6, <1>8, <1>11, <1>15
<1>17. HireOpens(h, c)
  BY <1>1, <1>2, <1>3, <1>4, <1>5, <1>10, <1>11, <1>12, <1>14, <1>16 DEF HireOpens
<1>18. QED
  BY <1>10, <1>17

LEMMA HireSaveDoes ==
    ASSUME TypeOK, CallsInv, NEW h \in Calls, HireSaveCategories(h)
    PROVE  /\ h \in DOMAIN call /\ h \in Busy /\ Op(h) = "hire" /\ Frame({h})
           /\ h \in DOMAIN seen /\ seen[h] \in Table
           /\ pc[h] = "hire_open" /\ pc'[h] = "done" /\ pc' \in [Calls -> Steps]
           /\ todo[h] = {} /\ SaveCategories(seen[h])
           /\ UNCHANGED <<staff, opened, savedEmployee, call, todo, seen, crossed, returned>>
<1>1. /\ pc[h] = "hire_open" /\ pc' = [pc EXCEPT ![h] = "done"]
      /\ todo[h] = {} /\ SaveCategories(seen[h])
      /\ UNCHANGED <<staff, opened, savedEmployee, call, todo, seen, crossed, returned>>
  BY DEF HireSaveCategories, Goto
<1>2. h \in DOMAIN call /\ h \in Busy /\ Op(h) = "hire" /\ Placed(h)
  BY <1>1, Places DEF InFlight, Hiring, CallsInv
<1>3. h \in DOMAIN seen /\ seen[h] \in Table
  BY <1>1, <1>2, CategoryFields DEF Placed
<1>4. Frame({h})
  BY <1>1, StepFrame
<1>5. pc'[h] = "done" /\ pc' \in [Calls -> Steps]
  BY <1>1 DEF TypeOK, Steps
<1>6. QED
  BY <1>1, <1>2, <1>3, <1>4, <1>5

LEMMA DeleteDoes ==
    ASSUME TypeOK, NEW c \in Categories, DeleteCategory(c)
    PROVE  /\ Frame({}) /\ category' \in Table
           /\ DOMAIN category' = DOMAIN category \ {c}
           /\ \A d \in DOMAIN category' : category'[d] = category[d]
           /\ Cross("delete", Busy)
           /\ UNCHANGED <<staff, opened, savedEmployee, memory,
                          unit, edited, unlisted, phantom, returned>>
<1>1. /\ category' = Delete(category, c) /\ Cross("delete", Busy)
      /\ UNCHANGED <<staff, opened, savedEmployee, memory,
                     unit, edited, unlisted, phantom, returned>>
  BY DEF DeleteCategory
<1>2. Frame({})
  BY <1>1, QuietFrame
<1>3. IsTable(category', Categories, Assignees)
  <2>1. \A t : t \in Table => IsTable(t, Categories, Assignees)
    BY Tables
  <2>2. IsTable(category, Categories, Assignees)
    BY <2>1 DEF TypeOK
  <2>3. QED
    BY <1>1, <2>2 DEF Delete, IsTable
<1>4. category' \in Table
  <2>1. \A t : IsTable(t, Categories, Assignees) => t \in Table
    BY Tables
  <2>2. QED
    BY <1>3, <2>1
<1>5. QED
  BY <1>1, <1>2, <1>4 DEF Delete

LEMMA AbortDoes ==
    ASSUME TypeOK, CallsInv, NEW h \in Calls, Abort(h)
    PROVE  /\ h \in DOMAIN call /\ h \in Busy /\ Frame({h})
           /\ pc'[h] = "failed" /\ pc' \in [Calls -> Steps]
           /\ UNCHANGED <<staff, category, opened, savedEmployee, call, todo, seen, ghosts>>
<1>1. /\ pc[h] \in InFlight /\ pc' = [pc EXCEPT ![h] = "failed"]
      /\ UNCHANGED <<staff, category, opened, savedEmployee, call, todo, seen, ghosts>>
  BY DEF Abort
<1>2. h \in DOMAIN call /\ h \in Busy
  BY <1>1, Places
<1>3. Frame({h})
  BY <1>1, StepFrame
<1>4. pc'[h] = "failed" /\ pc' \in [Calls -> Steps]
  BY <1>1 DEF TypeOK, Steps
<1>5. QED
  BY <1>1, <1>2, <1>3, <1>4

LEMMA StatusDoes ==
    ASSUME TypeOK, NEW e \in Employees, ChangeEmployeeStatus(e)
    PROVE  /\ Frame({}) /\ e \in Hired
           /\ staff' \subseteq staff \cup {e} /\ staff \subseteq staff' \cup {e}
           /\ returned' = returned \cup {e}
           /\ UNCHANGED <<category, opened, savedEmployee, memory,
                          unit, edited, crossed, unlisted, phantom>>
<1>1. /\ e \in Hired
      /\ staff' = IF e \in staff THEN staff \ {e} ELSE staff \cup {e}
      /\ returned' = returned \cup {e}
      /\ UNCHANGED <<category, opened, savedEmployee, memory,
                     unit, edited, crossed, unlisted, phantom>>
  BY DEF ChangeEmployeeStatus
<1>2. Frame({})
  BY <1>1, QuietFrame
<1>3. QED
  BY <1>1, <1>2
-----------------------------------------------------------------------------
(* Types. *)

LEMMA InitType == Init => TypeOK
<1> SUFFICES ASSUME Init PROVE TypeOK
  OBVIOUS
<1>1. category \in Table
  <2>1. IsTable(NoRows, Categories, Assignees)
    BY DEF NoRows, IsTable
  <2>2. QED
    BY <2>1, Tables DEF Init
<1>2. QED
  BY <1>1 DEF Init, TypeOK, Steps, NoRows, IsTable

LEMMA BeginType ==
    ASSUME TypeOK, CallsInv, NEW h \in Calls,
           PostReadEmployees(h) \/ PutReadCategory(h) \/ HireInsert(h)
    PROVE  TypeOK'
<1>1. Hired \subseteq Employees /\ staff \subseteq Hired
  BY HiredEmployees DEF Hired
<1>2. CASE PostReadEmployees(h)
  <2>1. /\ pc' \in [Calls -> Steps]
        /\ call' = Save(call, h, call'[h])
        /\ todo' = Save(todo, h, todo'[h]) /\ todo'[h] \subseteq Hired
    BY <1>2, PostReadDoes
  <2>2. call'[h] \in Call
    <3>1. PICK c \in Categories \ Posted, everyone \in BOOLEAN, ids \in SUBSET Hired :
            /\ call'[h] = [op |-> "post", cat |-> c,
                           data |-> [everyone |-> everyone, ids |-> ids, unit |-> unit[c]]]
            /\ todo'[h] = IF everyone THEN staff ELSE ids
      BY <1>2, PostReadDoes
    <3>2. unit[c] \in TimeUnits /\ ids \in SUBSET Employees
      BY <1>1 DEF TypeOK
    <3>3. [everyone |-> everyone, ids |-> ids, unit |-> unit[c]] \in Assignees
      BY <3>2, AssigneesRow
    <3>4. QED
      BY <3>1, <3>3 DEF Call
  <2>3. IsTable(call', Calls, Call)
    BY <2>1, <2>2 DEF TypeOK, Save, IsTable
  <2>4. IsTable(todo', Calls, SUBSET (Employees \cup Categories))
    <3>1. todo'[h] \in SUBSET (Employees \cup Categories)
      BY <1>1, <2>1
    <3>2. QED
      BY <2>1, <3>1 DEF TypeOK, Save, IsTable
  <2>5. QED
    BY <1>2, <2>1, <2>3, <2>4 DEF TypeOK, PostReadEmployees
<1>3. CASE PutReadCategory(h)
  <2>1. pc' \in [Calls -> Steps] /\ call' = Save(call, h, call'[h])
    BY <1>3, PutReadDoes
  <2>2. call'[h] \in Call
    <3>1. PICK c \in DOMAIN category,
               new \in [everyone: BOOLEAN, ids: SUBSET Hired, unit: TimeUnits] :
            /\ pc'[h] = IF new.everyone /\ ~category[c].everyone
                        THEN "put_read" ELSE "put_save"
            /\ call'[h] = [op |-> "put", cat |-> c, data |-> new, old |-> category[c].ids]
      BY <1>3, PutReadDoes
    <3>2. new \in Assignees
      BY <1>1 DEF Assignees
    <3>3. c \in Categories /\ category[c].ids \in SUBSET Employees
      BY CategoryFields DEF Assignees
    <3>4. QED
      BY <3>1, <3>2, <3>3 DEF Call
  <2>3. IsTable(call', Calls, Call)
    BY <2>1, <2>2 DEF TypeOK, Save, IsTable
  <2>4. QED
    BY <1>3, <2>1, <2>3 DEF TypeOK, PutReadCategory
<1>4. CASE HireInsert(h)
  <2>1. /\ pc' \in [Calls -> Steps]
        /\ call' = Save(call, h, call'[h])
        /\ call'[h] \in [op: {"hire"}, emp: Employees \ Hired]
        /\ staff' = staff \cup {call'[h].emp}
    BY <1>4, HireInsertDoes
  <2>2. call'[h] \in Call
    BY <2>1 DEF Call
  <2>3. IsTable(call', Calls, Call)
    BY <2>1, <2>2 DEF TypeOK, Save, IsTable
  <2>4. QED
    BY <1>4, <2>1, <2>3 DEF TypeOK, HireInsert
<1>5. QED
  BY <1>2, <1>3, <1>4

LEMMA OpenType ==
    ASSUME TypeOK, CallsInv, NEW h \in Calls, OpenBalance(h) \/ HireOpenBalance(h)
    PROVE  TypeOK'
<1>1. Hired \subseteq Employees
  BY HiredEmployees
<1>2. CASE OpenBalance(h)
  <2>1. PICK e \in todo[h] :
          /\ e \in Hired /\ call[h].cat \in Categories
          /\ opened' = [opened EXCEPT ![<<e, call[h].cat>>] = @ \cup {h}]
          /\ todo' = [todo EXCEPT ![h] = @ \ {e}]
    BY <1>2, OpenDoes DEF OpenBalance, CallsInv, Placed
  <2>2. PICK c \in Categories : c = call[h].cat
    BY <2>1
  <2>3. opened' \in [Accounts -> SUBSET Calls]
    BY <1>1, <2>1, <2>2, Opens
  <2>4. IsTable(todo', Calls, SUBSET (Employees \cup Categories))
    BY <2>1 DEF TypeOK, IsTable
  <2>5. QED
    BY <1>2, <2>3, <2>4 DEF TypeOK, OpenBalance, ghosts
<1>3. CASE HireOpenBalance(h)
  <2>1. PICK c \in todo[h] :
          /\ c \in Categories /\ savedEmployee \in Employees
          /\ opened' = [opened EXCEPT ![<<savedEmployee, c>>] = @ \cup {h}]
          /\ DOMAIN seen' = DOMAIN seen
          /\ seen' \in [DOMAIN seen -> Table] /\ DOMAIN seen \subseteq Calls
    <3>1. PICK c \in todo[h] : HireOpens(h, c)
      BY <1>3, HireOpenDoes
    <3>2. QED
      BY <3>1 DEF HireOpens
  <2>2. PICK e \in Employees : e = savedEmployee
    BY <2>1
  <2>3. opened' \in [Accounts -> SUBSET Calls]
    BY <2>1, <2>2, Opens
  <2>4. IsTable(todo', Calls, SUBSET (Employees \cup Categories))
    <3>1. \E d : todo' = [todo EXCEPT ![h] = @ \ {d}]
      BY <1>3 DEF HireOpenBalance
    <3>2. QED
      BY <3>1 DEF TypeOK, IsTable
  <2>5. QED
    BY <1>3, <2>1, <2>3, <2>4 DEF TypeOK, IsTable, HireOpenBalance, ghosts
<1>4. QED
  BY <1>2, <1>3

LEMMA SaveType ==
    ASSUME TypeOK, CallsInv, NEW h \in Calls,
           PostSaveCategory(h) \/ PutSaveCategory(h) \/ HireSaveCategories(h)
    PROVE  TypeOK'
<1>1. /\ pc' \in [Calls -> Steps]
      /\ \E rows \in Table : SaveCategories(rows)
      /\ UNCHANGED <<staff, opened, savedEmployee, call, todo, seen, crossed, returned>>
  BY SaveOneDoes, HireSaveDoes
<1>2. category' \in Table /\ unit' \in [Categories -> TimeUnits]
  BY <1>1, Saves
<1>3. QED
  BY <1>1, <1>2 DEF TypeOK

LEMMA NextType == ASSUME TypeOK, CallsInv, [Next]_vars PROVE TypeOK'
<1>1. ASSUME NEW h \in Calls, PutReadEmployees(h) PROVE TypeOK'
  <2>1. /\ pc' \in [Calls -> Steps]
        /\ todo' = Save(todo, h, todo'[h])
        /\ todo'[h] = staff \ call[h].old
        /\ UNCHANGED <<staff, category, opened, savedEmployee, call, seen, ghosts>>
    BY <1>1, PutEmployeesDoes
  <2>2. todo'[h] \in SUBSET (Employees \cup Categories)
    BY <2>1 DEF TypeOK
  <2>3. IsTable(todo', Calls, SUBSET (Employees \cup Categories))
    BY <2>1, <2>2 DEF TypeOK, Save, IsTable
  <2>4. QED
    BY <2>1, <2>3 DEF TypeOK, ghosts
<1>2. ASSUME NEW h \in Calls, HireResume(h) \/ HireSaveAgain(h) PROVE TypeOK'
  <2>1. /\ pc' \in [Calls -> Steps] /\ call[h].emp \in Employees
        /\ savedEmployee' \in {savedEmployee, call[h].emp}
        /\ staff' \in {staff, staff \cup {call[h].emp}}
        /\ UNCHANGED <<category, opened, call, todo, seen, ghosts>>
    BY <1>2, HireStepDoes
  <2>2. QED
    BY <2>1 DEF TypeOK, ghosts
<1>3. ASSUME NEW h \in Calls, HireReadCategories(h) PROVE TypeOK'
  <2>1. /\ pc' \in [Calls -> Steps]
        /\ todo' = Save(todo, h, todo'[h])
        /\ todo'[h] = {c \in DOMAIN category : category[c].everyone}
        /\ seen' = Save(seen, h, category)
        /\ UNCHANGED <<staff, category, opened, savedEmployee, call, ghosts>>
    BY <1>3, HireReadDoes
  <2>2. todo'[h] \in SUBSET (Employees \cup Categories)
    BY <2>1, CategoryFields
  <2>3. IsTable(todo', Calls, SUBSET (Employees \cup Categories))
    BY <2>1, <2>2 DEF TypeOK, Save, IsTable
  <2>4. IsTable(seen', Calls, Table)
    BY <2>1 DEF TypeOK, Save, IsTable
  <2>5. QED
    BY <2>1, <2>3, <2>4 DEF TypeOK, ghosts
<1>4. ASSUME NEW h \in Calls, Abort(h) PROVE TypeOK'
  BY <1>4, AbortDoes DEF TypeOK, ghosts
<1>5. ASSUME NEW c \in Categories, DeleteCategory(c) PROVE TypeOK'
  BY <1>5, DeleteDoes DEF TypeOK, memory
<1>6. ASSUME NEW e \in Employees, ChangeEmployeeStatus(e) PROVE TypeOK'
  <2>1. /\ staff' \subseteq staff \cup {e} /\ returned' = returned \cup {e}
        /\ UNCHANGED <<category, opened, savedEmployee, memory, unit>>
    BY <1>6, StatusDoes
  <2>2. QED
    BY <2>1 DEF TypeOK, memory
<1>7. CASE UNCHANGED vars
  BY <1>7 DEF vars, memory, ghosts, TypeOK
<1>8. QED
  BY <1>1, <1>2, <1>3, <1>4, <1>5, <1>6, <1>7, BeginType, OpenType, SaveType
     DEF Next, Post, Put, Hire

-----------------------------------------------------------------------------
(* Every step is of at most one call, which was idle or in flight, and the *)
(* histories grow.                                                         *)
LEMMA Moves ==
    ASSUME TypeOK, CallsInv, [Next]_vars
    PROVE  /\ Grows
           /\ Frame({}) \/ \E h \in Calls : Frame({h}) /\ pc[h] \in InFlight \cup {"idle"}
<1> DEFINE Goal == /\ Grows
                   /\ \/ Frame({})
                      \/ \E h \in Calls : Frame({h}) /\ pc[h] \in InFlight \cup {"idle"}
<1>1. ASSUME NEW h \in Calls, PostReadEmployees(h) PROVE Goal
  <2>1. Frame({h}) /\ pc[h] = "idle" /\ Cross("post", Busy)
    BY <1>1, PostReadDoes
  <2>2. QED
    BY <1>1, <2>1 DEF PostReadEmployees, Grows, Hired, Cross
<1>2. ASSUME NEW h \in Calls, PutReadCategory(h) PROVE Goal
  <2>1. Frame({h}) /\ pc[h] = "idle" /\ Cross("put", Busy)
    BY <1>2, PutReadDoes
  <2>2. QED
    BY <1>2, <2>1 DEF PutReadCategory, Grows, Hired, Cross
<1>3. ASSUME NEW h \in Calls, HireInsert(h) PROVE Goal
  <2>1. Frame({h}) /\ pc[h] = "idle" /\ Cross("hire", Busy) /\ staff \subseteq staff'
    BY <1>3, HireInsertDoes
  <2>2. QED
    BY <1>3, <2>1 DEF HireInsert, Grows, Hired, Cross
<1>4. ASSUME NEW h \in Calls, OpenBalance(h) PROVE Goal
  <2>1. PICK e \in todo[h] :
          /\ h \in Busy /\ e \in Hired /\ Frame({h}) /\ call[h].cat \in Categories
          /\ opened' = [opened EXCEPT ![<<e, call[h].cat>>] = @ \cup {h}]
    BY <1>4, OpenDoes
  <2>2. PICK c \in Categories : c = call[h].cat
    BY <2>1
  <2>3. \A a \in Accounts : opened[a] \subseteq opened'[a]
    BY <2>1, <2>2, HiredEmployees, Opens
  <2>4. QED
    BY <1>4, <2>1, <2>3 DEF OpenBalance, Grows, Hired, Busy, ghosts
<1>5. ASSUME NEW h \in Calls, HireOpenBalance(h) PROVE Goal
  <2>1. PICK c \in todo[h] :
          /\ h \in Busy /\ Frame({h}) /\ savedEmployee \in Employees /\ c \in Categories
          /\ opened' = [opened EXCEPT ![<<savedEmployee, c>>] = @ \cup {h}]
    <3>1. PICK c \in todo[h] : HireOpens(h, c)
      BY <1>5, HireOpenDoes
    <3>2. QED
      BY <3>1 DEF HireOpens
  <2>2. PICK e \in Employees : e = savedEmployee
    BY <2>1
  <2>3. \A a \in Accounts : opened[a] \subseteq opened'[a]
    BY <2>1, <2>2, Opens
  <2>4. QED
    BY <1>5, <2>1, <2>3 DEF HireOpenBalance, Grows, Hired, Busy, ghosts
<1>6. ASSUME NEW h \in Calls,
             PostSaveCategory(h) \/ PutSaveCategory(h) \/ HireSaveCategories(h)
      PROVE  Goal
  <2>1. /\ h \in Busy /\ Frame({h})
        /\ UNCHANGED <<staff, opened, savedEmployee, call, todo, seen, crossed, returned>>
        /\ \E rows \in Table : SaveCategories(rows)
    BY <1>6, SaveOneDoes, HireSaveDoes
  <2>2. unlisted \subseteq unlisted' /\ phantom \subseteq phantom'
    BY <2>1, Saves
  <2>3. QED
    BY <2>1, <2>2 DEF Grows, Hired, Busy
<1>7. ASSUME NEW h \in Calls,
             \/ PutReadEmployees(h) \/ HireResume(h) \/ HireSaveAgain(h)
             \/ HireReadCategories(h) \/ Abort(h)
      PROVE  Goal
  <2>1. /\ h \in Busy /\ Frame({h}) /\ staff \subseteq staff'
        /\ UNCHANGED <<opened, ghosts>>
    BY <1>7, PutEmployeesDoes, HireStepDoes, HireReadDoes, AbortDoes
  <2>2. QED
    BY <2>1 DEF Grows, Hired, Busy, ghosts
<1>8. ASSUME NEW c \in Categories, DeleteCategory(c) PROVE Goal
  BY <1>8, DeleteDoes DEF Grows, Hired, Cross
<1>9. ASSUME NEW e \in Employees, ChangeEmployeeStatus(e) PROVE Goal
  BY <1>9, StatusDoes DEF Grows, Hired
<1>10. CASE UNCHANGED vars
  BY <1>10, QuietFrame DEF vars, ghosts, Grows, Hired
<1>11. QED
  BY <1>1, <1>2, <1>3, <1>4, <1>5, <1>6, <1>7, <1>8, <1>9, <1>10
     DEF Next, Post, Put, Hire

(* A call that does not move stays in its place. *)
LEMMA CallsStay ==
    ASSUME TypeOK, CallsInv, Grows,
           NEW H \in SUBSET Calls, Frame(H), \A x, y \in H : x = y,
           savedEmployee' \in Hired' \cup {Nobody},
           savedEmployee # Nobody => savedEmployee' # Nobody,
           \A h \in H : /\ pc'[h] # "idle" /\ h \in DOMAIN call' /\ Placed(h)'
                        /\ h \in Busy' => \/ h \in Busy
                                          \/ \A g \in Busy : {call'[h].op, Op(g)} \in crossed'
    PROVE  CallsInv'
<1> USE DEF Op
<1>1. DOMAIN call \subseteq Calls
  BY DEF TypeOK, IsTable
<1>2. DOMAIN call' \subseteq Calls
  BY <1>1 DEF Frame
<1>3. ASSUME NEW h \in Calls PROVE pc'[h] = "idle" <=> h \notin DOMAIN call'
  BY DEF Frame, Still, CallsInv
<1>4. ASSUME NEW h \in DOMAIN call', h \notin H PROVE Placed(h)'
  <2>1. h \in DOMAIN call /\ call'[h] = call[h] /\ Still(h) /\ Placed(h)
    BY <1>2, <1>4 DEF Frame, CallsInv
  <2>2. Hired \subseteq Hired'
    BY DEF Grows
  <2>3. QED
    BY <2>1, <2>2 DEF Placed, Still, Opening, Hiring
<1>5. ASSUME NEW g \in Busy', NEW h \in Busy', g # h PROVE {Op(g)', Op(h)'} \in crossed'
  <2>1. \A x \in Busy' : x \notin H => x \in Busy
    BY <1>2 DEF Busy, Frame, Still
  <2>2. \A x \in Busy : x \in DOMAIN call /\ call'[x] = call[x]
    BY DEF Busy, Frame
  <2>3. crossed \subseteq crossed'
    BY DEF Grows
  <2>4. CASE g \in Busy /\ h \in Busy
    <3>1. {Op(g), Op(h)} \in crossed
      BY <1>5, <2>4 DEF CallsInv
    <3>2. QED
      BY <2>2, <2>3, <2>4, <3>1
  <2>5. CASE g \notin Busy
    <3>1. g \in H /\ h \notin H /\ h \in Busy
      BY <1>5, <2>1, <2>5
    <3>2. {call'[g].op, Op(h)} \in crossed'
      BY <2>5, <3>1
    <3>3. QED
      BY <2>2, <3>1, <3>2
  <2>6. CASE h \notin Busy
    <3>1. h \in H /\ g \notin H /\ g \in Busy
      BY <1>5, <2>1, <2>6
    <3>2. {call'[h].op, Op(g)} \in crossed'
      BY <2>6, <3>1
    <3>3. {call'[h].op, call[g].op} = {call'[g].op, call'[h].op}
      BY <2>2, <3>1
    <3>4. QED
      BY <3>2, <3>3
  <2>7. QED
    BY <2>4, <2>5, <2>6
<1>6. QED
  BY <1>3, <1>4, <1>5 DEF CallsInv

LEMMA NextCalls == ASSUME TypeOK, CallsInv, [Next]_vars PROVE CallsInv'
<1> USE DEF Op
<1>1. Grows /\ TypeOK'
  BY Moves, NextType
<1>2. /\ savedEmployee \in Hired \cup {Nobody} /\ Hired \subseteq Hired'
      /\ \A h \in DOMAIN call : Placed(h)
  BY <1>1 DEF CallsInv, Grows
<1>3. ASSUME NEW h \in Calls, PostReadEmployees(h) PROVE CallsInv'
  <2>1. /\ Frame({h}) /\ h \in DOMAIN call' /\ pc'[h] = "post_open"
        /\ call'[h].op = "post" /\ Cross("post", Busy)
        /\ h \in DOMAIN todo' /\ todo'[h] \subseteq Hired
    BY <1>3, PostReadDoes
  <2>2. Placed(h)'
    BY <1>2, <2>1 DEF Placed, PutSteps, Hiring, Opening
  <2>3. UNCHANGED savedEmployee
    BY <1>3 DEF PostReadEmployees
  <2>4. \A g \in Busy : {call'[h].op, Op(g)} \in crossed'
    BY <2>1 DEF Cross
  <2>5. QED
    BY <1>1, <1>2, <2>1, <2>2, <2>3, <2>4, CallsStay
<1>4. ASSUME NEW h \in Calls, PutReadCategory(h) PROVE CallsInv'
  <2>1. /\ Frame({h}) /\ h \in DOMAIN call' /\ pc'[h] \in {"put_read", "put_save"}
        /\ call'[h].op = "put" /\ Cross("put", Busy)
    BY <1>4, PutReadDoes
  <2>2. Placed(h)'
    BY <1>2, <2>1 DEF Placed, PutSteps, Hiring, Opening
  <2>3. UNCHANGED savedEmployee
    BY <1>4 DEF PutReadCategory
  <2>4. \A g \in Busy : {call'[h].op, Op(g)} \in crossed'
    BY <2>1 DEF Cross
  <2>5. QED
    BY <1>1, <1>2, <2>1, <2>2, <2>3, <2>4, CallsStay
<1>5. ASSUME NEW h \in Calls, HireInsert(h) PROVE CallsInv'
  <2>1. /\ Frame({h}) /\ h \in DOMAIN call' /\ pc'[h] = "hire_insert"
        /\ call'[h].op = "hire" /\ call'[h].emp \in staff' /\ Cross("hire", Busy)
    BY <1>5, HireInsertDoes
  <2>2. Placed(h)'
    BY <2>1 DEF Placed, PutSteps, Hiring, Opening, Hired
  <2>3. UNCHANGED savedEmployee
    BY <1>5 DEF HireInsert
  <2>4. \A g \in Busy : {call'[h].op, Op(g)} \in crossed'
    BY <2>1 DEF Cross
  <2>5. QED
    BY <1>1, <1>2, <2>1, <2>2, <2>3, <2>4, CallsStay
<1>6. ASSUME NEW h \in Calls, OpenBalance(h) PROVE CallsInv'
  <2>1. /\ Frame({h}) /\ h \in DOMAIN call /\ h \in Busy /\ pc[h] \in Opening
        /\ h \in DOMAIN todo' /\ todo'[h] \subseteq todo[h]
    <3>1. PICK e \in todo[h] :
             /\ Frame({h}) /\ h \in DOMAIN todo /\ DOMAIN todo' = DOMAIN todo
             /\ todo'[h] = todo[h] \ {e}
      BY <1>6, OpenDoes
    <3>2. h \in DOMAIN call /\ h \in Busy /\ pc[h] \in Opening
      BY <1>6, OpenDoes
    <3>3. QED
      BY <3>1, <3>2
  <2>2. UNCHANGED <<savedEmployee, pc, call>>
    BY <1>6 DEF OpenBalance
  <2>3. Placed(h)'
    BY <1>2, <2>1, <2>2 DEF Placed, PutSteps, Hiring, Opening
  <2>4. pc'[h] # "idle" /\ h \in DOMAIN call'
    BY <2>1, <2>2 DEF Opening
  <2>5. QED
    BY <1>1, <1>2, <2>1, <2>2, <2>3, <2>4, CallsStay
<1>7. ASSUME NEW h \in Calls, HireOpenBalance(h) PROVE CallsInv'
  <2>1. PICK c \in todo[h] :
        /\ Frame({h}) /\ h \in DOMAIN call /\ h \in Busy /\ pc[h] = "hire_open"
        /\ h \in DOMAIN todo' /\ todo'[h] = todo[h] \ {c}
        /\ h \in DOMAIN seen' /\ DOMAIN seen'[h] = DOMAIN seen[h]
        /\ \A d \in DOMAIN seen[h] : d # c => seen'[h][d] = seen[h][d]
    <3>1. PICK c \in todo[h] : HireOpens(h, c)
      BY <1>7, HireOpenDoes
    <3>2. QED
      BY <3>1 DEF HireOpens
  <2>2. UNCHANGED <<savedEmployee, pc, call>>
    BY <1>7 DEF HireOpenBalance
  <2>3. Placed(h) /\ todo[h] \subseteq {d \in DOMAIN seen[h] : seen[h][d].everyone}
    BY <1>2, <2>1 DEF Placed
  <2>4. todo'[h] \subseteq {d \in DOMAIN seen'[h] : seen'[h][d].everyone}
    BY <2>1, <2>3
  <2>5. Placed(h)'
    BY <1>2, <2>1, <2>2, <2>3, <2>4 DEF Placed, PutSteps, Hiring, Opening
  <2>6. pc'[h] # "idle" /\ h \in DOMAIN call'
    BY <2>1, <2>2
  <2>7. QED
    BY <1>1, <1>2, <2>1, <2>2, <2>5, <2>6, CallsStay
<1>8. ASSUME NEW h \in Calls,
             \/ PostSaveCategory(h) \/ PutSaveCategory(h) \/ HireSaveCategories(h)
             \/ Abort(h)
      PROVE  CallsInv'
  <2>1. /\ Frame({h}) /\ h \in DOMAIN call /\ h \in Busy
        /\ pc'[h] \in {"done", "failed"} /\ UNCHANGED <<savedEmployee, call>>
    BY <1>8, SaveOneDoes, HireSaveDoes, AbortDoes
  <2>2. Placed(h)'
    BY <1>2, <2>1 DEF Placed, PutSteps, Hiring, Opening
  <2>3. QED
    BY <1>1, <1>2, <2>1, <2>2, CallsStay
<1>9. ASSUME NEW h \in Calls, PutReadEmployees(h) PROVE CallsInv'
  <2>1. /\ Frame({h}) /\ h \in DOMAIN call /\ h \in Busy /\ Op(h) = "put"
        /\ pc'[h] = "put_open" /\ h \in DOMAIN todo' /\ todo'[h] \subseteq Hired
        /\ UNCHANGED <<savedEmployee, call>>
    BY <1>9, PutEmployeesDoes DEF Hired
  <2>2. Placed(h)'
    BY <1>2, <2>1 DEF Placed, PutSteps, Hiring, Opening
  <2>3. QED
    BY <1>1, <1>2, <2>1, <2>2, CallsStay
<1>10. ASSUME NEW h \in Calls, HireResume(h) \/ HireSaveAgain(h) PROVE CallsInv'
  <2>1. /\ Frame({h}) /\ h \in DOMAIN call /\ h \in Busy /\ Op(h) = "hire"
        /\ call[h].emp \in Hired /\ call[h].emp \in Employees /\ UNCHANGED call
        /\ pc'[h] \in {"hire_save", "hire_read"}
        /\ \/ savedEmployee' = call[h].emp
           \/ savedEmployee' = savedEmployee /\ pc[h] = "hire_save"
    BY <1>10, HireStepDoes
  <2>2. savedEmployee' # Nobody /\ savedEmployee' \in Hired'
    <3>1. CASE savedEmployee' = call[h].emp
      BY <1>2, <2>1, <3>1, NobodyAssumption
    <3>2. CASE savedEmployee' = savedEmployee /\ pc[h] = "hire_save"
      BY <1>2, <2>1, <3>2 DEF Placed, Hiring
    <3>3. QED
      BY <2>1, <3>1, <3>2
  <2>3. Placed(h)'
    BY <1>2, <2>1, <2>2 DEF Placed, PutSteps, Hiring, Opening
  <2>4. QED
    BY <1>1, <2>1, <2>2, <2>3, CallsStay
<1>11. ASSUME NEW h \in Calls, HireReadCategories(h) PROVE CallsInv'
  <2>1. /\ Frame({h}) /\ h \in DOMAIN call /\ h \in Busy /\ Op(h) = "hire"
        /\ pc[h] = "hire_read" /\ pc'[h] = "hire_open"
        /\ h \in DOMAIN todo' /\ todo'[h] = {c \in DOMAIN category : category[c].everyone}
        /\ h \in DOMAIN seen' /\ seen'[h] = category
        /\ UNCHANGED <<savedEmployee, call>>
    BY <1>11, HireReadDoes
  <2>2. Placed(h)'
    BY <1>2, <2>1 DEF Placed, PutSteps, Hiring, Opening
  <2>3. QED
    BY <1>1, <1>2, <2>1, <2>2, CallsStay
<1>12. ASSUME Frame({}), UNCHANGED savedEmployee PROVE CallsInv'
  BY <1>1, <1>2, <1>12, CallsStay
<1>13. ASSUME NEW c \in Categories, DeleteCategory(c) PROVE CallsInv'
  BY <1>12, <1>13, DeleteDoes
<1>14. ASSUME NEW e \in Employees, ChangeEmployeeStatus(e) PROVE CallsInv'
  BY <1>12, <1>14, StatusDoes
<1>15. CASE UNCHANGED vars
  BY <1>12, <1>15, QuietFrame DEF vars
<1>16. QED
  BY <1>3, <1>4, <1>5, <1>6, <1>7, <1>8, <1>9, <1>10, <1>11, <1>13, <1>14, <1>15
     DEF Next, Post, Put, Hire

-----------------------------------------------------------------------------
(* What a PUT or a hire has of the stored categories. *)

LEMMA CrossedGrows ==
    ASSUME NEW P, Grows, Crossed(P)
    PROVE  Crossed(P)'
  BY DEF Crossed, Grows

(* Calls in flight together with a hire. *)
LEMMA HiresRace ==
    ASSUME TypeOK, CallsInv, NEW g \in Busy, NEW h \in Busy, g # h, Op(h) = "hire"
    PROVE  Crossed(HireRaces)
<1>1. {Op(g), Op(h)} \in crossed
  BY DEF CallsInv
<1>2. Op(g) \in {"post", "put", "hire"}
  BY CallFields, Places
<1>3. {Op(g), Op(h)} \in HireRaces
  BY <1>2 DEF HireRaces
<1>4. QED
  BY <1>1, <1>3 DEF Crossed

LEMMA UndoneStays ==
    ASSUME TypeOK, CallsInv, UndoneInv, Grows, NEW H \in SUBSET Calls, Frame(H),
           \/ savedEmployee' = savedEmployee
           \/ \E x \in Busy \cap H : Op(x) = "hire",
           \/ category' = category
           \/ DOMAIN category \subseteq DOMAIN category' /\ Busy \cap H # {}
           \/ /\ \A x \in Busy : {"delete", Op(x)} \in crossed'
              /\ DOMAIN category' \subseteq DOMAIN category
              /\ \A c \in DOMAIN category' : category'[c] = category[c],
           \A h \in H : h \in DOMAIN call' => Unlost(h)'
    PROVE  UndoneInv'
<1> SUFFICES ASSUME NEW h \in DOMAIN call', h \notin H PROVE Unlost(h)'
  BY DEF UndoneInv
<1>1. DOMAIN call \subseteq Calls
  BY DEF TypeOK, IsTable
<1>2. h \in DOMAIN call /\ call'[h] = call[h] /\ Still(h) /\ Unlost(h) /\ h \in Calls
  BY <1>1 DEF Frame, UndoneInv
<1>3. ASSUME pc'[h] \in PutSteps
      PROVE  call'[h].cat \in DOMAIN category' \/ Crossed({{"delete", "put"}})'
  <2>1. h \in Busy /\ Op(h) = "put"
    BY <1>2, <1>3, Places DEF Still, PutSteps, InFlight, Opening
  <2>2. call[h].cat \in DOMAIN category \/ Crossed({{"delete", "put"}})
    BY <1>2, <1>3 DEF Unlost, Still
  <2>3. Crossed({{"delete", "put"}}) => Crossed({{"delete", "put"}})'
    BY CrossedGrows
  <2>4. QED
    BY <1>2, <2>1, <2>2, <2>3 DEF Crossed
<1>4. ASSUME pc'[h] \in Hiring PROVE h \in Busy /\ Op(h) = "hire"
  BY <1>2, <1>4, Places DEF Still, InFlight
<1>5. Crossed(HireRaces) => Crossed(HireRaces)'
  BY CrossedGrows DEF HireRaces
<1>6. ASSUME pc'[h] \in Hiring, NEW x \in Busy \cap H PROVE Crossed(HireRaces)'
  BY <1>4, <1>5, <1>6, HiresRace
<1>7. ASSUME pc'[h] \in Hiring \ {"hire_insert"}
      PROVE  savedEmployee' = call'[h].emp \/ Crossed(HireRaces)'
  <2>1. savedEmployee = call[h].emp \/ Crossed(HireRaces)
    BY <1>2, <1>7 DEF Unlost, Still
  <2>2. QED
    BY <1>2, <1>5, <1>6, <1>7, <2>1
<1>8. ASSUME pc'[h] = "hire_open"
      PROVE  DOMAIN seen'[h] \subseteq DOMAIN category' \/ Crossed({{"delete", "hire"}})'
  <2>1. DOMAIN seen[h] \subseteq DOMAIN category \/ Crossed({{"delete", "hire"}})
    BY <1>2, <1>8 DEF Unlost, Still
  <2>2. Crossed({{"delete", "hire"}}) => Crossed({{"delete", "hire"}})'
    BY CrossedGrows
  <2>3. h \in Busy /\ Op(h) = "hire"
    BY <1>4, <1>8 DEF Hiring
  <2>4. h \in DOMAIN seen /\ seen'[h] = seen[h]
    BY <1>2, <1>8 DEF CallsInv, Placed, Still
  <2>5. QED
    BY <2>1, <2>2, <2>3, <2>4 DEF Crossed
<1>9. ASSUME pc'[h] = "hire_open"
      PROVE  \/ \A c \in DOMAIN category' : /\ c \in DOMAIN seen'[h]
                                            /\ seen'[h][c] = Enrolled(h, c)'
             \/ Crossed(HireRaces)'
  <2>1. \/ \A c \in DOMAIN category : c \in DOMAIN seen[h] /\ seen[h][c] = Enrolled(h, c)
        \/ Crossed(HireRaces)
    BY <1>2, <1>9 DEF Unlost, Still
  <2>2. h \in DOMAIN seen /\ seen'[h] = seen[h] /\ h \in DOMAIN todo /\ todo'[h] = todo[h]
    BY <1>2, <1>9 DEF CallsInv, Placed, Still
  <2>3. CASE \/ category' = category
             \/ /\ DOMAIN category' \subseteq DOMAIN category
                /\ \A c \in DOMAIN category' : category'[c] = category[c]
    <3>1. \A c \in DOMAIN category' : /\ c \in DOMAIN category
                                      /\ Enrolled(h, c)' = Enrolled(h, c)
      BY <1>2, <2>2, <2>3 DEF Enrolled
    <3>2. QED
      BY <1>5, <2>1, <2>2, <3>1
  <2>4. CASE Busy \cap H # {}
    BY <1>6, <1>9, <2>4 DEF Hiring
  <2>5. QED
    BY <2>3, <2>4
<1>10. QED
  BY <1>3, <1>7, <1>8, <1>9 DEF Unlost

LEMMA NextUndone == ASSUME TypeOK, CallsInv, UndoneInv, [Next]_vars PROVE UndoneInv'
<1> USE DEF Op
<1>1. Grows /\ TypeOK' /\ CallsInv'
  BY Moves, NextType, NextCalls
<1>2. Crossed(HireRaces) => Crossed(HireRaces)'
  BY <1>1, CrossedGrows DEF HireRaces
<1>3. ASSUME NEW h \in Calls, PostReadEmployees(h) \/ HireInsert(h) PROVE UndoneInv'
  <2>1. /\ Frame({h}) /\ pc'[h] \in {"post_open", "hire_insert"}
        /\ UNCHANGED <<category, savedEmployee>>
    BY <1>3, PostReadDoes, HireInsertDoes DEF PostReadEmployees, HireInsert
  <2>2. Unlost(h)'
    BY <2>1 DEF Unlost, PutSteps, Hiring
  <2>3. QED
    BY <1>1, <2>1, <2>2, UndoneStays
<1>4. ASSUME NEW h \in Calls, PutReadCategory(h) PROVE UndoneInv'
  <2>1. /\ Frame({h}) /\ pc'[h] \in {"put_read", "put_save"}
        /\ call'[h].cat \in DOMAIN category
        /\ UNCHANGED <<category, savedEmployee>>
    <3>1. PICK c \in DOMAIN category,
               new \in [everyone: BOOLEAN, ids: SUBSET Hired, unit: TimeUnits] :
            /\ pc'[h] = IF new.everyone /\ ~category[c].everyone
                        THEN "put_read" ELSE "put_save"
            /\ call'[h] = [op |-> "put", cat |-> c, data |-> new, old |-> category[c].ids]
      BY <1>4, PutReadDoes
    <3>2. call'[h].cat = c
      BY <3>1
    <3>3. QED
      BY <1>4, <3>2, PutReadDoes DEF PutReadCategory
  <2>2. Unlost(h)'
    BY <2>1 DEF Unlost, PutSteps, Hiring
  <2>3. QED
    BY <1>1, <2>1, <2>2, UndoneStays
<1>5. ASSUME NEW h \in Calls, OpenBalance(h) \/ PutReadEmployees(h) PROVE UndoneInv'
  <2>1. /\ Frame({h}) /\ h \in DOMAIN call /\ UNCHANGED <<category, savedEmployee, call>>
        /\ pc'[h] \in Opening
        /\ pc'[h] \in PutSteps => pc[h] \in PutSteps
        /\ crossed' = crossed
    BY <1>5, OpenDoes, PutEmployeesDoes DEF OpenBalance, PutSteps, Opening, ghosts
  <2>2. Unlost(h)
    BY <2>1 DEF UndoneInv
  <2>3. pc'[h] \notin Hiring /\ pc'[h] # "hire_open"
    BY <2>1 DEF Opening, Hiring
  <2>4. Unlost(h)'
    BY <2>1, <2>2, <2>3 DEF Unlost, Crossed
  <2>5. QED
    BY <1>1, <2>1, <2>4, UndoneStays
<1>6. ASSUME NEW h \in Calls, PostSaveCategory(h) \/ PutSaveCategory(h) \/ HireSaveCategories(h)
      PROVE  UndoneInv'
  <2>1. /\ Frame({h}) /\ h \in Busy /\ pc'[h] = "done" /\ UNCHANGED <<savedEmployee, opened>>
        /\ \E rows \in Table : SaveCategories(rows)
    BY <1>6, SaveOneDoes, HireSaveDoes
  <2>2. DOMAIN category \subseteq DOMAIN category'
    BY <2>1, Saves
  <2>3. Unlost(h)'
    BY <2>1 DEF Unlost, PutSteps, Hiring
  <2>4. QED
    BY <1>1, <2>1, <2>2, <2>3, UndoneStays
<1>7. ASSUME NEW h \in Calls, Abort(h) PROVE UndoneInv'
  <2>1. Frame({h}) /\ pc'[h] = "failed" /\ UNCHANGED <<category, savedEmployee>>
    BY <1>7, AbortDoes
  <2>2. Unlost(h)'
    BY <2>1 DEF Unlost, PutSteps, Hiring
  <2>3. QED
    BY <1>1, <2>1, <2>2, UndoneStays
<1>8. ASSUME NEW h \in Calls, HireResume(h) \/ HireSaveAgain(h) PROVE UndoneInv'
  <2>1. /\ Frame({h}) /\ h \in DOMAIN call /\ h \in Busy /\ Op(h) = "hire"
        /\ pc'[h] \in {"hire_save", "hire_read"} /\ UNCHANGED <<category, call, ghosts>>
        /\ \/ savedEmployee' = call[h].emp
           \/ savedEmployee' = savedEmployee /\ pc[h] = "hire_save"
    BY <1>8, HireStepDoes
  <2>2. savedEmployee' = call'[h].emp \/ Crossed(HireRaces)'
    BY <1>2, <2>1 DEF UndoneInv, Unlost, Hiring
  <2>3. Unlost(h)'
    BY <2>1, <2>2 DEF Unlost, PutSteps, Hiring
  <2>4. QED
    BY <1>1, <2>1, <2>3, UndoneStays
<1>9. ASSUME NEW h \in Calls, HireReadCategories(h) PROVE UndoneInv'
  <2>1. /\ Frame({h}) /\ h \in DOMAIN call /\ pc[h] = "hire_read" /\ pc'[h] = "hire_open"
        /\ todo'[h] = {c \in DOMAIN category : category[c].everyone}
        /\ seen'[h] = category /\ UNCHANGED <<category, savedEmployee, call>>
    BY <1>9, HireReadDoes
  <2>2. savedEmployee' = call'[h].emp \/ Crossed(HireRaces)'
    BY <1>2, <2>1 DEF UndoneInv, Unlost, Hiring
  <2>3. ASSUME NEW c \in DOMAIN category' PROVE seen'[h][c] = Enrolled(h, c)'
    <3>1. c \notin todo'[h] => ~category[c].everyone
      BY <2>1
    <3>2. Enrolled(h, c)' = [category[c] EXCEPT !.ids = category[c].ids]
      BY <2>1, <3>1 DEF Enrolled
    <3>3. category[c] \in Assignees
      BY <2>1, CategoryFields
    <3>4. QED
      BY <2>1, <3>2, <3>3 DEF Assignees
  <2>4. Unlost(h)'
    BY <2>1, <2>2, <2>3 DEF Unlost, PutSteps, Hiring
  <2>5. QED
    BY <1>1, <2>1, <2>4, UndoneStays
<1>10. ASSUME NEW h \in Calls, HireOpenBalance(h) PROVE UndoneInv'
  <2>1. PICK d \in todo[h] :
        /\ Frame({h}) /\ h \in DOMAIN call /\ h \in Busy /\ pc[h] = "hire_open"
        /\ d \in DOMAIN seen[h] /\ seen[h][d].everyone
        /\ h \in DOMAIN todo' /\ todo'[h] = todo[h] \ {d}
        /\ h \in DOMAIN seen' /\ DOMAIN seen'[h] = DOMAIN seen[h]
        /\ seen'[h][d] = [seen[h][d] EXCEPT !.ids = @ \cup {savedEmployee}]
        /\ \A c \in DOMAIN seen[h] : c # d => seen'[h][c] = seen[h][c]
    <3>1. PICK d \in todo[h] : HireOpens(h, d)
      BY <1>10, HireOpenDoes
    <3>2. QED
      BY <3>1 DEF HireOpens
  <2>2. UNCHANGED <<category, savedEmployee, pc, call, crossed>>
    BY <1>10 DEF HireOpenBalance, ghosts
  <2>3. Unlost(h)
    BY <2>1 DEF UndoneInv
  <2>4. ASSUME ~Crossed(HireRaces), NEW c \in DOMAIN category
        PROVE  c \in DOMAIN seen'[h] /\ seen'[h][c] = Enrolled(h, c)'
    <3>1. /\ savedEmployee = call[h].emp
          /\ c \in DOMAIN seen[h] /\ seen[h][c] = Enrolled(h, c)
      BY <2>1, <2>3, <2>4 DEF Unlost, Hiring
    <3>2. category[c] \in Assignees
      BY <2>4, CategoryFields
    <3>3. CASE c # d
      <4>1. Enrolled(h, c)' = Enrolled(h, c)
        BY <2>1, <2>2, <3>3 DEF Enrolled
      <4>2. QED
        BY <2>1, <3>1, <3>3, <4>1
    <3>4. CASE c = d
      <4>1. seen[h][c] = category[c]
        BY <2>1, <3>1, <3>2, <3>4 DEF Enrolled, Assignees
      <4>2. category[c].everyone
        BY <2>1, <3>4, <4>1
      <4>3. Enrolled(h, c)' = [category[c] EXCEPT !.ids = @ \cup {call[h].emp}]
        BY <2>1, <2>2, <3>4, <4>2 DEF Enrolled
      <4>4. QED
        BY <2>1, <3>1, <3>4, <4>1, <4>3
    <3>5. QED
      BY <3>3, <3>4
  <2>5. \/ \A c \in DOMAIN category' : c \in DOMAIN seen'[h] /\ seen'[h][c] = Enrolled(h, c)'
        \/ Crossed(HireRaces)'
    BY <1>2, <2>2, <2>4
  <2>6. /\ savedEmployee' = call'[h].emp \/ Crossed(HireRaces)'
        /\ DOMAIN seen'[h] \subseteq DOMAIN category' \/ Crossed({{"delete", "hire"}})'
    BY <1>2, <2>1, <2>2, <2>3 DEF Unlost, Hiring, Crossed
  <2>7. Unlost(h)'
    BY <2>1, <2>2, <2>5, <2>6 DEF Unlost, PutSteps, Hiring
  <2>8. QED
    BY <1>1, <2>1, <2>2, <2>7, UndoneStays
<1>11. ASSUME NEW c \in Categories, DeleteCategory(c) PROVE UndoneInv'
  <2>1. /\ Frame({}) /\ savedEmployee' = savedEmployee /\ Cross("delete", Busy)
        /\ DOMAIN category' \subseteq DOMAIN category
        /\ \A d \in DOMAIN category' : category'[d] = category[d]
    BY <1>11, DeleteDoes
  <2>2. \A x \in Busy : {"delete", Op(x)} \in crossed'
    BY <2>1 DEF Cross
  <2>3. QED
    BY <1>1, <2>1, <2>2, UndoneStays
<1>12. ASSUME Frame({}), UNCHANGED <<category, savedEmployee>> PROVE UndoneInv'
  BY <1>1, <1>12, UndoneStays
<1>13. ASSUME NEW e \in Employees, ChangeEmployeeStatus(e) PROVE UndoneInv'
  BY <1>12, <1>13, StatusDoes
<1>14. CASE UNCHANGED vars
  BY <1>12, <1>14, QuietFrame DEF vars
<1>15. QED
  BY <1>3, <1>4, <1>5, <1>6, <1>7, <1>8, <1>9, <1>10, <1>11, <1>13, <1>14
     DEF Next, Post, Put, Hire

-----------------------------------------------------------------------------
(* Who has a row. *)

LEMMA HoldersGrow ==
    ASSUME Grows, NEW c \in Categories
    PROVE  Holders(c) \subseteq Holders(c)'
  BY DEF Grows, Holders, Accounts

LEMMA CoveredStays ==
    ASSUME TypeOK, CallsInv, Grows, NEW H \in SUBSET Calls, Frame(H),
           \A h \in H : pc[h] \in {"failed"} \cup InFlight =>
                           Op(h) # "hire" \/ pc'[h] \in {"failed"} \cup InFlight,
           NEW e \in Employees, NEW c \in Categories, Covered(e, c)
    PROVE  Covered(e, c)'
<1>1. Crossed(HireRaces) => Crossed(HireRaces)'
  BY CrossedGrows DEF HireRaces
<1>2. e \in Holders(c) => e \in Holders(c)'
  BY HoldersGrow
<1>3. ASSUME NEW h \in Busy \cup Failed, Op(h) = "hire" /\ call[h].emp = e
      PROVE  h \in (Busy \cup Failed)' /\ Op(h)' = "hire" /\ call'[h].emp = e
  <2>1. h \in DOMAIN call /\ h \in Calls /\ pc[h] \in {"failed"} \cup InFlight
    BY Places, <1>3 DEF Failed, Busy, CallsInv
  <2>2. h \in DOMAIN call' /\ call'[h] = call[h]
    BY <2>1 DEF Frame
  <2>3. pc'[h] \in {"failed"} \cup InFlight
    <3>1. CASE h \in H
      BY <1>3, <2>1, <3>1
    <3>2. CASE h \notin H
      BY <2>1, <3>2 DEF Frame, Still
    <3>3. QED
      BY <3>1, <3>2
  <2>4. QED
    BY <1>3, <2>1, <2>2, <2>3 DEF Busy, Failed, Op
<1>4. e \in returned => e \in returned'
  BY DEF Grows
<1>5. c \in phantom => c \in phantom'
  BY DEF Grows
<1>6. QED
  BY <1>1, <1>2, <1>3, <1>4, <1>5 DEF Covered

(* What calls that do not move have yet to cover, if those that do keep    *)
(* what is covered covered, or are a hire.                                 *)
LEMMA CoveringStays ==
    ASSUME TypeOK, CallsInv, CoverInv, Grows, NEW H \in SUBSET Calls, Frame(H),
           \/ \A e \in Employees, c \in Categories : Covered(e, c) => Covered(e, c)'
           \/ \E x \in Busy \cap H : Op(x) = "hire",
           staff \subseteq Employees, \A e \in staff' : \/ e \in staff
                           \/ \A c \in Categories : Covered(e, c)',
           \A h \in H : h \in DOMAIN call' => Covering(h)'
    PROVE  \A h \in DOMAIN call' : Covering(h)'
<1> USE DEF Op
<1> SUFFICES ASSUME NEW h \in DOMAIN call', h \notin H PROVE Covering(h)'
  OBVIOUS
<1>1. h \in DOMAIN call /\ call'[h] = call[h] /\ h \in Calls /\ Still(h) /\ Covering(h)
  <2>1. DOMAIN call \subseteq Calls
    BY DEF TypeOK, IsTable
  <2>2. QED
    BY <2>1 DEF Frame, CoverInv
<1>2. Crossed(HireRaces) => Crossed(HireRaces)'
  BY CrossedGrows DEF HireRaces
<1>3. ASSUME h \in Busy, NEW e \in Employees, NEW c \in Categories, Covered(e, c)
      PROVE  Covered(e, c)'
  <2>1. CASE \E x \in Busy \cap H : Op(x) = "hire"
    <3>1. Crossed(HireRaces)'
      BY <1>2, <1>3, <2>1, HiresRace
    <3>2. QED
      BY <3>1 DEF Covered
  <2>2. QED
    BY <1>3, <2>1
<1>4. ASSUME pc'[h] = "put_read"
      PROVE  (call[h].old \subseteq Holders(call[h].cat) \/ call[h].cat \in phantom)'
  <2>1. h \in Busy /\ Op(h) = "put" /\ pc[h] = "put_read"
    BY <1>1, <1>4, Places DEF Still, PutSteps, InFlight
  <2>2. PICK c \in Categories : c = call[h].cat
    BY <1>1, <2>1, CallFields
  <2>3. call[h].old \subseteq Holders(c) \/ c \in phantom
    BY <1>1, <2>1, <2>2 DEF Covering
  <2>4. Holders(c) \subseteq Holders(c)' /\ phantom \subseteq phantom'
    BY HoldersGrow DEF Grows
  <2>5. Holders(call[h].cat)' = Holders(c)'
    BY <1>1, <2>2 DEF Holders
  <2>6. QED
    BY <1>1, <2>2, <2>3, <2>4, <2>5
<1>5. ASSUME pc'[h] \in Opening, call'[h].data.everyone, NEW e \in staff'
      PROVE  e \in todo'[h] \/ Covered(e, call[h].cat)'
  <2>1. h \in Busy /\ Op(h) \in {"post", "put"} /\ pc[h] \in Opening
    BY <1>1, <1>5, Places DEF Still, Opening, InFlight, PutSteps
  <2>2. PICK c \in Categories : c = call[h].cat
    BY <1>1, <2>1, CallFields
  <2>3. h \in DOMAIN todo /\ todo'[h] = todo[h]
    BY <1>1, <2>1 DEF CallsInv, Placed, Still
  <2>4. ASSUME e \in staff PROVE e \in todo'[h] \/ Covered(e, c)'
    <3>1. e \in todo[h] \/ Covered(e, c)
      BY <1>1, <1>5, <2>1, <2>2, <2>4 DEF Covering
    <3>2. Covered(e, c) => Covered(e, c)'
      BY <1>3, <2>1, <2>4
    <3>3. QED
      BY <2>3, <3>1, <3>2
  <2>5. ASSUME e \notin staff PROVE Covered(e, c)'
    BY <2>5
  <2>6. Covered(e, call[h].cat)' <=> Covered(e, c)'
    BY <1>1, <2>2 DEF Covered, Holders
  <2>7. QED
    BY <2>4, <2>5, <2>6
<1>6. ASSUME pc'[h] = "put_save", call'[h].data.everyone, NEW e \in staff'
      PROVE  Covered(e, call[h].cat)'
  <2>1. h \in Busy /\ Op(h) = "put" /\ pc[h] = "put_save"
    BY <1>1, <1>6, Places DEF Still, InFlight, PutSteps
  <2>2. PICK c \in Categories : c = call[h].cat
    BY <1>1, <2>1, CallFields
  <2>3. ASSUME e \in staff PROVE Covered(e, c)'
    <3>1. Covered(e, c)
      BY <1>1, <1>6, <2>1, <2>2, <2>3 DEF Covering
    <3>2. QED
      BY <1>3, <2>1, <2>3, <3>1
  <2>4. ASSUME e \notin staff PROVE Covered(e, c)'
    BY <2>4
  <2>5. Covered(e, call[h].cat)' <=> Covered(e, c)'
    BY <1>1, <2>2 DEF Covered, Holders
  <2>6. QED
    BY <2>3, <2>4, <2>5
<1>7. ASSUME pc'[h] = "hire_open", NEW c \in DOMAIN seen'[h], seen'[h][c].everyone
      PROVE  /\ \A e \in staff' : Covered(e, c)'
             /\ c \in todo'[h] \/ call'[h].emp \in Holders(c)' \/ Crossed(HireRaces)'
  <2>1. h \in Busy /\ Op(h) = "hire" /\ pc[h] = "hire_open"
    BY <1>1, <1>7, Places DEF Still, Hiring, InFlight
  <2>2. /\ h \in DOMAIN seen /\ seen'[h] = seen[h]
        /\ h \in DOMAIN todo /\ todo'[h] = todo[h]
    BY <1>1, <2>1 DEF CallsInv, Placed, Still
  <2>3. c \in Categories /\ c \in DOMAIN seen[h] /\ seen[h][c].everyone
    BY <1>7, <2>2, CategoryFields
  <2>4. /\ \A e \in staff : Covered(e, c)
        /\ c \in todo[h] \/ call[h].emp \in Holders(c) \/ Crossed(HireRaces)
    BY <1>1, <2>1, <2>3 DEF Covering
  <2>5. Holders(c) \subseteq Holders(c)'
    BY <2>3, HoldersGrow
  <2>6. QED
    BY <1>1, <1>2, <1>3, <2>1, <2>2, <2>3, <2>4, <2>5
<1>8. QED
  BY <1>4, <1>5, <1>6, <1>7 DEF Covering

(* What is stored, when no category is saved. *)
LEMMA StoredStays ==
    ASSUME TypeOK, CoverInv, Grows,
           DOMAIN category' \subseteq DOMAIN category,
           \A c \in DOMAIN category' : category'[c] = category[c],
           \A e \in Employees, c \in Categories : Covered(e, c) => Covered(e, c)',
           \A e \in staff' : e \in staff \/ \A c \in Categories : Covered(e, c)'
    PROVE  \A c \in DOMAIN category' :
             /\ category'[c].ids \subseteq Holders(c)' \/ c \in phantom'
             /\ category'[c].everyone => \A e \in staff' : Covered(e, c)'
<1> TAKE c \in DOMAIN category'
<1>1. c \in Categories /\ c \in DOMAIN category /\ category'[c] = category[c]
  BY CategoryFields
<1>2. Holders(c) \subseteq Holders(c)' /\ phantom \subseteq phantom' /\ staff \subseteq Employees
  BY <1>1, HoldersGrow DEF Grows, TypeOK
<1>3. QED
  BY <1>1, <1>2 DEF CoverInv

LEMMA CoverStays ==
    ASSUME TypeOK, CallsInv, CoverInv, Grows, NEW H \in SUBSET Calls, Frame(H),
           \A h \in H : pc[h] \in {"failed"} \cup InFlight =>
                           Op(h) # "hire" \/ pc'[h] \in {"failed"} \cup InFlight,
           DOMAIN category' \subseteq DOMAIN category,
           \A c \in DOMAIN category' : category'[c] = category[c],
           \A e \in staff' : e \in staff \/ \A c \in Categories : Covered(e, c)',
           \A h \in H : h \in DOMAIN call' => Covering(h)'
    PROVE  CoverInv'
<1>1. \A e \in Employees, c \in Categories : Covered(e, c) => Covered(e, c)'
  BY CoveredStays
<1>2. \A h \in DOMAIN call' : Covering(h)'
  BY <1>1, CoveringStays DEF TypeOK
<1>3. \A c \in DOMAIN category' :
             /\ category'[c].ids \subseteq Holders(c)' \/ c \in phantom'
             /\ category'[c].everyone => \A e \in staff' : Covered(e, c)'
  BY <1>1, StoredStays
<1>4. QED
  BY <1>2, <1>3 DEF CoverInv

(* A POST or PUT saves its category when it has covered everyone. *)
LEMMA SaveOneCovers ==
    ASSUME TypeOK, CallsInv, CoverInv, NEW h \in Calls,
           PostSaveCategory(h) \/ PutSaveCategory(h)
    PROVE  CoverInv'
<1> USE DEF Op
<1>1. PICK rows \in Table :
        /\ h \in DOMAIN call /\ h \in Busy /\ Frame({h}) /\ pc'[h] = "done"
        /\ pc[h] \in {"post_open", "put_open", "put_save"} /\ Op(h) \in {"post", "put"}
        /\ pc[h] \in Opening => todo[h] = {}
        /\ call[h].cat \in Categories
        /\ SaveCategories(rows) /\ DOMAIN rows = {call[h].cat}
        /\ rows[call[h].cat] = call[h].data
        /\ UNCHANGED <<staff, opened, savedEmployee, call, todo, seen, crossed, returned>>
  BY SaveOneDoes
<1>2. PICK d \in Categories : d = call[h].cat
  BY <1>1
<1>3. Grows
  BY <1>1, Saves DEF Grows, Hired
<1>4. \A e \in Employees, c \in Categories : Covered(e, c) => Covered(e, c)'
  BY <1>1, <1>3, CoveredStays
<1>5. Covering(h)'
  BY <1>1 DEF Covering, Opening
<1>6. \A g \in DOMAIN call' : Covering(g)'
  BY <1>1, <1>3, <1>4, <1>5, CoveringStays DEF TypeOK
<1>7. /\ DOMAIN category' = DOMAIN category \cup {d}
      /\ category'[d] = call[h].data
      /\ \A c \in DOMAIN category : c # d => category'[c] = category[c]
      /\ call[h].data.ids \subseteq Holders(d) \/ d \in phantom'
  BY <1>1, <1>2, Saves
<1>8. \A c \in Categories : Holders(c)' = Holders(c)
  BY <1>1 DEF Holders
<1>9. ASSUME call[h].data.everyone, NEW e \in staff PROVE Covered(e, d)
  BY <1>1, <1>2, <1>9 DEF CoverInv, Covering, Opening
<1>10. ASSUME NEW c \in DOMAIN category'
       PROVE  /\ category'[c].ids \subseteq Holders(c)' \/ c \in phantom'
              /\ category'[c].everyone => \A e \in staff' : Covered(e, c)'
  <2>1. staff' = staff /\ staff \subseteq Employees /\ phantom \subseteq phantom'
    BY <1>1, <1>3 DEF TypeOK, Grows
  <2>2. CASE c = d
    BY <1>4, <1>7, <1>8, <1>9, <2>1, <2>2
  <2>3. CASE c # d
    <3>1. c \in DOMAIN category /\ category'[c] = category[c] /\ c \in Categories
      BY <1>7, <2>3, CategoryFields
    <3>2. QED
      BY <1>4, <1>8, <2>1, <3>1 DEF CoverInv
  <2>4. QED
    BY <2>2, <2>3
<1>11. QED
  BY <1>6, <1>10 DEF CoverInv

(* A hire saves what it has read with its newcomer covered. *)
LEMMA HireSaveCovers ==
    ASSUME TypeOK, CallsInv, UndoneInv, CoverInv, NEW h \in Calls, HireSaveCategories(h)
    PROVE  CoverInv'
<1> USE DEF Op
<1>1. /\ h \in DOMAIN call /\ h \in Busy /\ Op(h) = "hire" /\ Frame({h})
      /\ h \in DOMAIN seen /\ seen[h] \in Table
      /\ pc[h] = "hire_open" /\ pc'[h] = "done"
      /\ todo[h] = {} /\ SaveCategories(seen[h])
      /\ UNCHANGED <<staff, opened, savedEmployee, call, todo, seen, crossed, returned>>
  BY HireSaveDoes
<1>2. PICK rows \in Table : rows = seen[h]
  BY <1>1
<1>3. SaveCategories(rows)
  BY <1>1, <1>2
<1>4. Grows /\ staff \subseteq Employees
  BY <1>1, <1>3, Saves DEF Grows, Hired, TypeOK
<1>5. Covering(h)'
  BY <1>1 DEF Covering, Opening
<1>6. \A g \in DOMAIN call' : Covering(g)'
  BY <1>1, <1>4, <1>5, CoveringStays
<1>7. \A c \in Categories : Holders(c)' = Holders(c)
  BY <1>1 DEF Holders
<1>8. ASSUME NEW e \in Employees, NEW c \in Categories, Covered(e, c),
             e # call[h].emp \/ e \in Holders(c) \/ Crossed(HireRaces)
      PROVE  Covered(e, c)'
  <2>1. Crossed(HireRaces)' <=> Crossed(HireRaces)
    BY <1>1 DEF Crossed, HireRaces
  <2>2. phantom \subseteq phantom' /\ returned' = returned
    BY <1>1, <1>4 DEF Grows
  <2>3. ASSUME NEW g \in Busy \cup Failed, Op(g) = "hire", call[g].emp = e, g # h
        PROVE  Covered(e, c)'
    <3>1. g \in Calls /\ pc'[g] = pc[g] /\ call' = call
      BY <1>1, <2>3, Places DEF Frame, Still, Failed
    <3>2. g \in (Busy \cup Failed)'
      BY <2>3, <3>1 DEF Busy, Failed
    <3>3. QED
      BY <2>3, <3>1, <3>2 DEF Covered
  <2>4. CASE e \in Holders(c) \/ e \in returned \/ c \in phantom \/ Crossed(HireRaces)
    BY <1>7, <2>1, <2>2, <2>4 DEF Covered
  <2>5. CASE ~(e \in Holders(c) \/ e \in returned \/ c \in phantom \/ Crossed(HireRaces))
    <3>1. PICK g \in Busy \cup Failed : Op(g) = "hire" /\ call[g].emp = e
      BY <1>8, <2>5 DEF Covered
    <3>2. g # h
      BY <1>8, <2>5, <3>1
    <3>3. QED
      BY <2>3, <3>1, <3>2
  <2>6. QED
    BY <2>4, <2>5
<1>9. /\ DOMAIN rows \subseteq Categories
      /\ DOMAIN category' = DOMAIN category \cup DOMAIN rows
      /\ \A c \in DOMAIN rows : category'[c] = rows[c]
      /\ \A c \in DOMAIN category : c \notin DOMAIN rows => category'[c] = category[c]
      /\ \A c \in DOMAIN rows : rows[c].ids \subseteq Holders(c) \/ c \in phantom'
  BY <1>1, <1>3, Saves
<1>10. Covering(h) /\ Unlost(h)
  BY <1>1 DEF CoverInv, UndoneInv
<1>11. ASSUME NEW c \in DOMAIN category'
       PROVE  /\ category'[c].ids \subseteq Holders(c)' \/ c \in phantom'
              /\ category'[c].everyone => \A e \in staff' : Covered(e, c)'
  <2>1. staff' = staff /\ phantom \subseteq phantom'
    BY <1>1, <1>4 DEF Grows
  <2>2. CASE c \in DOMAIN rows
    <3>1. ASSUME rows[c].everyone
          PROVE  /\ \A e \in staff : Covered(e, c)
                 /\ call[h].emp \in Holders(c) \/ Crossed(HireRaces)
      BY <1>1, <1>2, <1>10, <2>2, <3>1 DEF Covering
    <3>2. QED
      BY <1>4, <1>7, <1>8, <1>9, <2>1, <2>2, <3>1
  <2>3. CASE c \notin DOMAIN rows
    <3>1. c \in DOMAIN category /\ category'[c] = category[c] /\ c \in Categories
      BY <1>9, <2>3, CategoryFields
    <3>2. Crossed(HireRaces)
      BY <1>1, <1>2, <1>10, <2>3, <3>1 DEF Unlost
    <3>3. QED
      BY <1>4, <1>7, <1>8, <2>1, <3>1, <3>2 DEF CoverInv
  <2>4. QED
    BY <2>2, <2>3
<1>12. QED
  BY <1>6, <1>11 DEF CoverInv

(* What the steps that read or open leave to be covered by the call. *)

LEMMA BeginCovers ==
    ASSUME TypeOK, CallsInv, CoverInv, Grows, NEW h \in Calls,
           PostReadEmployees(h) \/ PutReadCategory(h) \/ HireInsert(h)
    PROVE  Covering(h)'
<1>1. CASE PostReadEmployees(h)
  <2>1. PICK c \in Categories \ Posted, everyone \in BOOLEAN, ids \in SUBSET Hired :
          /\ call'[h] = [op |-> "post", cat |-> c,
                         data |-> [everyone |-> everyone, ids |-> ids, unit |-> unit[c]]]
          /\ todo'[h] = IF everyone THEN staff ELSE ids
    BY <1>1, PostReadDoes
  <2>2. call'[h].data.everyone => todo'[h] = staff
    BY <2>1
  <2>3. pc'[h] = "post_open" /\ staff' = staff
    BY <1>1, PostReadDoes DEF PostReadEmployees
  <2>4. QED
    BY <2>2, <2>3 DEF Covering, Opening
<1>2. CASE PutReadCategory(h)
  <2>1. PICK c \in DOMAIN category,
             new \in [everyone: BOOLEAN, ids: SUBSET Hired, unit: TimeUnits] :
          /\ pc'[h] = IF new.everyone /\ ~category[c].everyone
                      THEN "put_read" ELSE "put_save"
          /\ call'[h] = [op |-> "put", cat |-> c, data |-> new, old |-> category[c].ids]
    BY <1>2, PutReadDoes
  <2>2. /\ call'[h].cat = c /\ call'[h].old = category[c].ids /\ call'[h].data = new
    BY <2>1
  <2>3. /\ pc'[h] \in {"put_read", "put_save"} /\ c \in Categories
        /\ UNCHANGED <<staff, opened, phantom, returned>>
    BY <1>2, PutReadDoes, CategoryFields DEF PutReadCategory
  <2>4. category[c].ids \subseteq Holders(c)' \/ c \in phantom'
    BY <2>3, HoldersGrow DEF CoverInv
  <2>5. Holders(call[h].cat)' = Holders(c)'
    BY <2>2 DEF Holders
  <2>6. ASSUME pc'[h] = "put_save", new.everyone, NEW e \in staff
        PROVE  Covered(e, call[h].cat)'
    <3>1. category[c].everyone
      BY <2>1, <2>6
    <3>2. Covered(e, c) /\ e \in Employees
      BY <2>6, <3>1 DEF CoverInv, TypeOK
    <3>3. Frame({h}) /\ pc[h] = "idle"
      BY <1>2, PutReadDoes
    <3>4. Covered(e, c)'
      BY <2>3, <3>2, <3>3, CoveredStays DEF InFlight, Opening, Hiring
    <3>5. Covered(e, call[h].cat)' <=> Covered(e, c)'
      BY <2>2 DEF Covered, Holders
    <3>6. QED
      BY <3>4, <3>5
  <2>7. QED
    BY <2>2, <2>3, <2>4, <2>5, <2>6 DEF Covering, Opening
<1>3. CASE HireInsert(h)
  <2>1. pc'[h] = "hire_insert"
    BY <1>3, HireInsertDoes
  <2>2. QED
    BY <2>1 DEF Covering, Opening
<1>4. QED
  BY <1>1, <1>2, <1>3

LEMMA PutEmployeesCovers ==
    ASSUME TypeOK, CallsInv, CoverInv, Grows, NEW h \in Calls, PutReadEmployees(h)
    PROVE  Covering(h)'
<1>1. /\ h \in DOMAIN call /\ h \in Busy /\ Op(h) = "put"
      /\ call[h].cat \in Categories
      /\ pc[h] = "put_read" /\ pc'[h] = "put_open"
      /\ todo'[h] = staff \ call[h].old
      /\ UNCHANGED <<staff, category, opened, savedEmployee, call, seen, ghosts>>
  BY PutEmployeesDoes
<1>2. call[h].old \subseteq Holders(call[h].cat) \/ call[h].cat \in phantom
  BY <1>1 DEF CoverInv, Covering
<1>3. \A e \in staff : e \in todo'[h] \/ e \in Holders(call[h].cat) \/ call[h].cat \in phantom
  BY <1>1, <1>2
<1>4. \A e \in staff' : e \in todo'[h] \/ Covered(e, call[h].cat)'
  BY <1>1, <1>3 DEF Covered, Holders, ghosts
<1>5. QED
  BY <1>1, <1>4 DEF Covering, Opening

LEMMA OpenCovers ==
    ASSUME TypeOK, CallsInv, CoverInv, Grows, NEW h \in Calls, OpenBalance(h)
    PROVE  Covering(h)'
<1>1. PICK e \in todo[h] :
        /\ e \in Hired /\ Frame({h}) /\ h \in DOMAIN call /\ h \in Busy
        /\ pc[h] \in Opening /\ call[h].cat \in Categories
        /\ opened' = [opened EXCEPT ![<<e, call[h].cat>>] = @ \cup {h}]
        /\ todo'[h] = todo[h] \ {e}
  BY OpenDoes
<1>2. UNCHANGED <<staff, category, savedEmployee, pc, call, seen, ghosts>>
  BY DEF OpenBalance
<1>3. PICK c \in Categories : c = call[h].cat
  BY <1>1
<1>4. e \in Employees /\ staff \subseteq Employees
  BY <1>1, HiredEmployees DEF TypeOK
<1>5. opened'[<<e, c>>] = opened[<<e, c>>] \cup {h}
  <2>1. opened' = [opened EXCEPT ![<<e, c>>] = @ \cup {h}]
    BY <1>1, <1>3
  <2>2. opened \in [Accounts -> SUBSET Calls] /\ <<e, c>> \in Accounts
    BY <1>4 DEF TypeOK, Accounts
  <2>3. QED
    BY <2>1, <2>2
<1>6. e \in Holders(c)'
  BY <1>4, <1>5 DEF Holders
<1>7. ASSUME call[h].data.everyone, NEW x \in staff PROVE x \in todo'[h] \/ Covered(x, c)'
  <2>1. x \in todo[h] \/ Covered(x, c)
    BY <1>1, <1>3, <1>7 DEF CoverInv, Covering
  <2>2. CASE x = e
    BY <1>6, <2>2 DEF Covered
  <2>3. CASE x \in todo[h] /\ x # e
    BY <1>1, <2>3
  <2>4. CASE Covered(x, c)
    <3>1. x \in Employees /\ pc'[h] \in InFlight
      BY <1>1, <1>2, <1>4, <1>7 DEF InFlight
    <3>2. QED
      BY <1>1, <2>4, <3>1, CoveredStays
  <2>5. QED
    BY <2>1, <2>2, <2>3, <2>4
<1>8. \A x \in Employees : Covered(x, call[h].cat)' <=> Covered(x, c)'
  BY <1>2, <1>3 DEF Covered, Holders
<1>9. QED
  BY <1>1, <1>2, <1>4, <1>7, <1>8 DEF Covering, Opening

LEMMA HireReadCovers ==
    ASSUME TypeOK, CallsInv, CoverInv, Grows, NEW h \in Calls, HireReadCategories(h)
    PROVE  Covering(h)'
<1>1. /\ h \in DOMAIN call /\ Frame({h}) /\ h \in Busy
      /\ pc[h] = "hire_read" /\ pc'[h] = "hire_open"
      /\ todo'[h] = {c \in DOMAIN category : category[c].everyone}
      /\ seen'[h] = category
      /\ UNCHANGED <<staff, category, opened, savedEmployee, call, ghosts>>
  BY HireReadDoes
<1>2. ASSUME NEW c \in DOMAIN category, category[c].everyone, NEW e \in staff
      PROVE  Covered(e, c)'
  <2>1. Covered(e, c) /\ e \in Employees /\ c \in Categories
    BY <1>2, CategoryFields DEF CoverInv, TypeOK
  <2>2. pc'[h] \in InFlight
    BY <1>1 DEF InFlight, Hiring
  <2>3. QED
    BY <1>1, <2>1, <2>2, CoveredStays
<1>3. QED
  BY <1>1, <1>2 DEF Covering, Opening

LEMMA HireOpenCovers ==
    ASSUME TypeOK, CallsInv, UndoneInv, CoverInv, Grows, NEW h \in Calls, HireOpenBalance(h)
    PROVE  Covering(h)'
<1>1. PICK d \in todo[h] :
        /\ Frame({h}) /\ h \in DOMAIN call /\ h \in Busy /\ pc[h] = "hire_open"
        /\ savedEmployee \in Employees /\ d \in Categories
        /\ opened' = [opened EXCEPT ![<<savedEmployee, d>>] = @ \cup {h}]
        /\ d \in DOMAIN seen[h] /\ seen[h][d].everyone
        /\ h \in DOMAIN todo /\ todo'[h] = todo[h] \ {d}
        /\ h \in DOMAIN seen /\ DOMAIN seen'[h] = DOMAIN seen[h]
        /\ seen'[h][d] = [seen[h][d] EXCEPT !.ids = @ \cup {savedEmployee}]
        /\ \A c \in DOMAIN seen[h] : c # d => seen'[h][c] = seen[h][c]
  <2>1. PICK d \in todo[h] : HireOpens(h, d)
    BY HireOpenDoes
  <2>2. QED
    BY <2>1 DEF HireOpens
<1>2. UNCHANGED <<staff, category, savedEmployee, pc, call, ghosts>>
  BY DEF HireOpenBalance
<1>3. PICK n \in Employees : n = savedEmployee
  BY <1>1
<1>4. opened'[<<n, d>>] = opened[<<n, d>>] \cup {h}
  <2>1. opened' = [opened EXCEPT ![<<n, d>>] = @ \cup {h}] /\ d \in Categories
    BY <1>1, <1>3
  <2>2. <<n, d>> \in DOMAIN opened
    BY <2>1 DEF TypeOK, Accounts
  <2>3. QED
    BY <2>1, <2>2
<1>5. n \in Holders(d)'
  BY <1>3, <1>4 DEF Holders
<1>6. n = call[h].emp \/ Crossed(HireRaces)
  BY <1>1, <1>3 DEF UndoneInv, Unlost, Hiring
<1>7. Crossed(HireRaces) => Crossed(HireRaces)'
  BY CrossedGrows DEF HireRaces
<1>8. ASSUME NEW c \in DOMAIN seen'[h], seen'[h][c].everyone
      PROVE  /\ \A e \in staff : Covered(e, c)'
             /\ c \in todo'[h] \/ call[h].emp \in Holders(c)' \/ Crossed(HireRaces)'
  <2>1. c \in DOMAIN seen[h] /\ c \in Categories
    BY <1>1, <1>8, CategoryFields
  <2>2. seen[h][c].everyone
    BY <1>1, <1>8, <2>1
  <2>3. /\ \A e \in staff : Covered(e, c)
        /\ c \in todo[h] \/ call[h].emp \in Holders(c) \/ Crossed(HireRaces)
    BY <1>1, <2>1, <2>2 DEF CoverInv, Covering
  <2>4. ASSUME NEW e \in staff PROVE Covered(e, c)'
    <3>1. pc'[h] \in InFlight /\ e \in Employees
      BY <1>1, <1>2, <2>4 DEF InFlight, Hiring, TypeOK
    <3>2. QED
      BY <1>1, <2>1, <2>3, <2>4, <3>1, CoveredStays
  <2>5. Holders(c) \subseteq Holders(c)'
    BY <2>1, HoldersGrow
  <2>6. QED
    BY <1>1, <1>5, <1>6, <1>7, <2>3, <2>4, <2>5
<1>9. QED
  BY <1>1, <1>2, <1>8 DEF Covering, Opening

LEMMA NextCover == ASSUME TypeOK, CallsInv, UndoneInv, CoverInv, [Next]_vars PROVE CoverInv'
<1> USE DEF Op
<1>1. Grows
  BY Moves
<1>2. ASSUME NEW h \in Calls,
             PostReadEmployees(h) \/ PutReadCategory(h) \/ HireInsert(h)
      PROVE  CoverInv'
  <2>1. Frame({h}) /\ pc[h] = "idle" /\ h \in DOMAIN call' /\ category' = category
    BY <1>2, PostReadDoes, PutReadDoes, HireInsertDoes
       DEF PostReadEmployees, PutReadCategory, HireInsert
  <2>2. pc[h] \notin {"failed"} \cup InFlight
    BY <2>1 DEF InFlight, Opening, Hiring
  <2>3. ASSUME NEW e \in staff', e \notin staff, NEW c \in Categories PROVE Covered(e, c)'
    <3>1. HireInsert(h)
      BY <1>2, <2>3 DEF PostReadEmployees, PutReadCategory
    <3>2. /\ e = call'[h].emp /\ call'[h].op = "hire" /\ pc'[h] = "hire_insert"
      BY <2>3, <3>1, HireInsertDoes
    <3>3. h \in Busy'
      BY <2>1, <3>2 DEF Busy, InFlight, Hiring
    <3>4. QED
      BY <3>2, <3>3 DEF Covered
  <2>4. Covering(h)'
    BY <1>1, <1>2, BeginCovers
  <2>5. QED
    BY <1>1, <2>1, <2>2, <2>3, <2>4, CoverStays
<1>3. ASSUME NEW h \in Calls,
             \/ OpenBalance(h) \/ PutReadEmployees(h) \/ HireReadCategories(h)
             \/ HireOpenBalance(h)
      PROVE  CoverInv'
  <2>1. /\ Frame({h}) /\ UNCHANGED <<staff, category>>
        /\ pc'[h] \in {"put_open", "hire_open"} \/ pc'[h] \in Opening
    BY <1>3, OpenDoes, PutEmployeesDoes, HireReadDoes, HireOpenDoes
       DEF OpenBalance, HireOpenBalance
  <2>2. pc'[h] \in InFlight
    BY <2>1 DEF InFlight, Opening, Hiring
  <2>3. Covering(h)'
    BY <1>1, <1>3, OpenCovers, PutEmployeesCovers, HireReadCovers, HireOpenCovers
  <2>4. QED
    BY <1>1, <2>1, <2>2, <2>3, CoverStays
<1>4. ASSUME NEW h \in Calls, HireResume(h) \/ HireSaveAgain(h) \/ Abort(h) PROVE CoverInv'
  <2>1. /\ Frame({h}) /\ category' = category /\ h \in DOMAIN call /\ call' = call
        /\ pc'[h] \in {"hire_save", "hire_read", "failed"}
        /\ \/ staff' = staff
           \/ /\ staff' = staff \cup {call[h].emp} /\ Op(h) = "hire"
              /\ pc'[h] = "hire_read"
    BY <1>4, HireStepDoes, AbortDoes
  <2>2. Covering(h)' /\ pc'[h] \in {"failed"} \cup InFlight
    BY <2>1 DEF Covering, Opening, InFlight, Hiring
  <2>3. ASSUME NEW e \in staff', e \notin staff, NEW c \in Categories PROVE Covered(e, c)'
    <3>1. /\ e = call'[h].emp /\ call'[h].op = "hire" /\ pc'[h] = "hire_read"
      BY <2>1, <2>3
    <3>2. h \in Busy'
      BY <2>1, <3>1 DEF Busy, InFlight, Hiring
    <3>3. QED
      BY <3>1, <3>2 DEF Covered
  <2>4. QED
    BY <1>1, <2>1, <2>2, <2>3, CoverStays
<1>5. ASSUME NEW c \in Categories, DeleteCategory(c) PROVE CoverInv'
  <2>1. /\ Frame({}) /\ DOMAIN category' \subseteq DOMAIN category /\ staff' = staff
        /\ \A d \in DOMAIN category' : category'[d] = category[d]
    BY <1>5, DeleteDoes
  <2>2. QED
    BY <1>1, <2>1, CoverStays
<1>6. ASSUME NEW e \in Employees, ChangeEmployeeStatus(e) PROVE CoverInv'
  <2>1. Frame({}) /\ category' = category /\ staff' \subseteq staff \cup {e} /\ e \in returned'
    BY <1>6, StatusDoes
  <2>2. \A x \in staff' : x \in staff \/ \A c \in Categories : Covered(x, c)'
    BY <2>1 DEF Covered
  <2>3. QED
    BY <1>1, <2>1, <2>2, CoverStays
<1>7. CASE UNCHANGED vars
  <2>1. Frame({}) /\ category' = category /\ staff' = staff
    BY <1>7, QuietFrame DEF vars
  <2>2. QED
    BY <1>1, <2>1, CoverStays
<1>8. QED
  BY <1>2, <1>3, <1>4, <1>5, <1>6, <1>7, SaveOneCovers, HireSaveCovers
     DEF Next, Post, Put, Hire

-----------------------------------------------------------------------------
(* Who knows a category before it is first saved. *)

LEMMA KnownGrows ==
    ASSUME TypeOK, TypeOK', NEW H \in SUBSET Calls, Frame(H), NEW X,
           DOMAIN category' \subseteq Known \cup X,
           \A h \in H : h \in DOMAIN call' /\ call'[h].op = "put" => call'[h].cat \in Known,
           \A h \in H : h \in DOMAIN seen' => DOMAIN seen'[h] \subseteq Known
    PROVE  Known' \subseteq Known \cup X
<1> USE DEF Op
<1>1. ASSUME NEW h \in DOMAIN call', call'[h].op = "put" PROVE call'[h].cat \in Known
  <2>1. CASE h \notin H
    <3>1. h \in DOMAIN call /\ call'[h] = call[h]
      BY <2>1 DEF Frame
    <3>2. QED
      BY <1>1, <3>1 DEF Known
  <2>2. QED
    BY <1>1, <2>1
<1>2. ASSUME NEW h \in DOMAIN seen' PROVE DOMAIN seen'[h] \subseteq Known
  <2>1. CASE h \notin H
    <3>1. h \in Calls
      BY DEF TypeOK, IsTable
    <3>2. h \in DOMAIN seen /\ seen'[h] = seen[h]
      BY <2>1, <3>1 DEF Frame, Still
    <3>3. QED
      BY <3>2 DEF Known
  <2>2. QED
    BY <1>2, <2>1
<1>3. Known' = DOMAIN category'
                 \cup {call'[h].cat : h \in {x \in DOMAIN call' : call'[x].op = "put"}}
                 \cup UNION {DOMAIN seen'[h] : h \in DOMAIN seen'}
  BY DEF Known
<1>4. QED
  BY <1>1, <1>2, <1>3

LEMMA PostsKnow ==
    ASSUME NEW h \in DOMAIN call, Op(h) = "post"
    PROVE  call[h].cat \in Posted
  BY DEF Posted

LEMMA PutsKnow ==
    ASSUME NEW h \in DOMAIN call, Op(h) = "put"
    PROVE  call[h].cat \in Known
  BY DEF Known

LEMMA KnownStays ==
    ASSUME TypeOK, CallsInv, KnownInv, NEW H \in SUBSET Calls, Frame(H),
           \A x, y \in H : x = y,
           \A h \in H : pc[h] = "done" => pc'[h] = "done",
           NEW X \in SUBSET Categories, Known' \subseteq Known \cup X,
           \A c \in X : \E h \in H \cap DOMAIN call :
                          Op(h) = "post" /\ c = call[h].cat /\ pc'[h] = "done",
           \A e \in Employees, c \in Categories :
              \/ opened'[<<e, c>>] = opened[<<e, c>>]
              \/ c \in Known
              \/ \E h \in H \cap DOMAIN call :
                   /\ Op(h) = "post" /\ c = call[h].cat
                   /\ opened'[<<e, c>>] = opened[<<e, c>>] \cup {h},
           \A h \in H : h \in DOMAIN call' /\ h \notin DOMAIN call /\ call'[h].op = "post" =>
                          call'[h].cat \in Categories \ Posted
    PROVE  KnownInv'
<1> USE DEF Op
<1>1. \A h \in DOMAIN call : h \in DOMAIN call' /\ call'[h] = call[h] /\ h \in Calls
  BY DEF Frame, TypeOK, IsTable
<1>2. \A h \in DOMAIN call' : h \in DOMAIN call \/ h \in H
  BY DEF Frame
<1>3. Posted \subseteq Posted'
  BY <1>1 DEF Posted
<1>4. \A h \in DOMAIN call : Op(h) = "post" => call[h].cat \in Posted
  BY PostsKnow
<1>5. ASSUME NEW c \in Categories \ Posted
      PROVE  c \notin Known' /\ \A e \in Employees : opened'[<<e, c>>] = {}
  <2>1. c \notin Known /\ Holders(c) = {}
    BY <1>5 DEF KnownInv
  <2>2. c \notin X
    BY <1>4, <1>5
  <2>3. ASSUME NEW e \in Employees PROVE opened'[<<e, c>>] = {}
    <3>1. opened[<<e, c>>] = {}
      BY <2>1, <2>3 DEF Holders
    <3>2. QED
      BY <1>4, <1>5, <2>1, <3>1
  <2>4. QED
    BY <2>1, <2>2, <2>3
<1>6. \A c \in Categories \ Posted' : c \notin Known' /\ Holders(c)' = {}
  BY <1>3, <1>5 DEF Holders
<1>7. ASSUME NEW h \in DOMAIN call', call'[h].op = "post",
             NEW g \in DOMAIN call', call'[g].op = "post", call'[g].cat = call'[h].cat
      PROVE  g = h
  <2>1. CASE g \in DOMAIN call /\ h \in DOMAIN call
    <3>1. Op(g) = "post" /\ Op(h) = "post" /\ call[g].cat = call[h].cat
      BY <1>1, <1>7, <2>1
    <3>2. QED
      BY <2>1, <3>1 DEF KnownInv
  <2>2. CASE g \notin DOMAIN call /\ h \notin DOMAIN call
    BY <1>2, <2>2
  <2>3. CASE g \in DOMAIN call /\ h \notin DOMAIN call
    BY <1>1, <1>2, <1>4, <1>7, <2>3
  <2>4. CASE g \notin DOMAIN call /\ h \in DOMAIN call
    BY <1>1, <1>2, <1>4, <1>7, <2>4
  <2>5. QED
    BY <2>1, <2>2, <2>3, <2>4
<1>8. ASSUME NEW h \in DOMAIN call', call'[h].op = "post", pc'[h] # "done"
      PROVE  /\ call'[h].cat \notin Known'
             /\ \A e \in Employees : opened'[<<e, call'[h].cat>>] \subseteq {h}
  <2>1. CASE h \notin DOMAIN call
    <3>1. h \in H
      BY <1>2, <2>1
    <3>2. call'[h].cat \in Categories \ Posted
      BY <1>8, <2>1, <3>1
    <3>3. QED
      BY <1>5, <3>2
  <2>2. CASE h \in DOMAIN call
    <3>1. /\ call'[h] = call[h] /\ Op(h) = "post" /\ h \in Calls
      BY <1>1, <1>8, <2>2
    <3>2. pc[h] # "done"
      <4>1. CASE h \in H
        BY <1>8, <4>1
      <4>2. CASE h \notin H
        BY <1>8, <3>1, <4>2 DEF Frame, Still
      <4>3. QED
        BY <4>1, <4>2
    <3>3. PICK c \in Categories : c = call[h].cat
      BY <2>2, <3>1, CallFields
    <3>4. /\ c \notin Known /\ \A e \in Employees : opened[<<e, c>>] \subseteq {h}
          /\ \A g \in DOMAIN call : Op(g) = "post" /\ call[g].cat = c => g = h
      BY <2>2, <3>1, <3>2, <3>3 DEF KnownInv
    <3>5. c \notin X
      BY <1>8, <3>4
    <3>6. \A e \in Employees : opened'[<<e, c>>] \subseteq {h}
      BY <3>4
    <3>7. QED
      BY <3>1, <3>3, <3>4, <3>5, <3>6
  <2>3. QED
    BY <2>1, <2>2
<1>9. QED
  BY <1>6, <1>7, <1>8 DEF KnownInv

(* A step that saves no new category. *)
LEMMA KnownStaysToo ==
    ASSUME TypeOK, CallsInv, KnownInv, NEW h \in Calls, Frame({h}), pc[h] # "done",
           Known' \subseteq Known \cup {},
           \A e \in Employees, c \in Categories :
              \/ opened'[<<e, c>>] = opened[<<e, c>>]
              \/ c \in Known
              \/ /\ h \in DOMAIN call /\ Op(h) = "post" /\ c = call[h].cat
                 /\ opened'[<<e, c>>] = opened[<<e, c>>] \cup {h},
           \/ h \in DOMAIN call
           \/ call'[h].op = "post" => call'[h].cat \in Categories \ Posted
    PROVE  KnownInv'
<1> PICK H \in SUBSET Calls : H = {h}
  OBVIOUS
<1> PICK X \in SUBSET Categories : X = {}
  OBVIOUS
<1>1. Frame(H) /\ Known' \subseteq Known \cup X
  OBVIOUS
<1>2. \A g \in H : pc[g] = "done" => pc'[g] = "done"
  OBVIOUS
<1>3. \A e \in Employees, c \in Categories :
              \/ opened'[<<e, c>>] = opened[<<e, c>>]
              \/ c \in Known
              \/ \E g \in H \cap DOMAIN call :
                   /\ Op(g) = "post" /\ c = call[g].cat
                   /\ opened'[<<e, c>>] = opened[<<e, c>>] \cup {g}
  OBVIOUS
<1>4. \A g \in H : g \in DOMAIN call' /\ g \notin DOMAIN call /\ call'[g].op = "post" =>
                      call'[g].cat \in Categories \ Posted
  OBVIOUS
<1>5. /\ \A x, y \in H : x = y
      /\ \A c \in X : \E g \in H \cap DOMAIN call :
                     Op(g) = "post" /\ c = call[g].cat /\ pc'[g] = "done"
  OBVIOUS
<1>6. QED
  BY <1>1, <1>2, <1>3, <1>4, <1>5, KnownStays

LEMMA NextKnown == ASSUME TypeOK, CallsInv, KnownInv, [Next]_vars PROVE KnownInv'
<1> USE DEF Op
<1>1. TypeOK' /\ DOMAIN category \subseteq Known
  BY NextType DEF Known
<1>2. ASSUME NEW h \in Calls, Frame({h}), pc[h] # "done", UNCHANGED <<category, opened>>,
             h \in DOMAIN call' => call'[h].op # "put" \/ call'[h].cat \in Known,
             h \in DOMAIN seen' => DOMAIN seen'[h] \subseteq Known,
             \/ h \in DOMAIN call
             \/ call'[h].op = "post" => call'[h].cat \in Categories \ Posted
      PROVE  KnownInv'
  <2>1. Known' \subseteq Known \cup {}
    BY <1>1, <1>2, KnownGrows
  <2>2. QED
    BY <1>2, <2>1, KnownStaysToo
<1>3. ASSUME NEW h \in DOMAIN seen PROVE DOMAIN seen[h] \subseteq Known
  BY DEF Known
<1>4. ASSUME NEW h \in Calls, PostReadEmployees(h) PROVE KnownInv'
  <2>1. PICK c \in Categories \ Posted, everyone \in BOOLEAN, ids \in SUBSET Hired :
          /\ call'[h] = [op |-> "post", cat |-> c,
                         data |-> [everyone |-> everyone, ids |-> ids, unit |-> unit[c]]]
          /\ todo'[h] = IF everyone THEN staff ELSE ids
    BY <1>4, PostReadDoes
  <2>2. call'[h].op = "post" /\ call'[h].cat = c
    BY <2>1
  <2>3. Frame({h}) /\ pc[h] = "idle" /\ UNCHANGED <<category, opened, seen>>
    BY <1>4, PostReadDoes DEF PostReadEmployees
  <2>4. QED
    BY <1>2, <1>3, <2>2, <2>3
<1>5. ASSUME NEW h \in Calls, PutReadCategory(h) PROVE KnownInv'
  <2>1. PICK c \in DOMAIN category,
             new \in [everyone: BOOLEAN, ids: SUBSET Hired, unit: TimeUnits] :
          /\ pc'[h] = IF new.everyone /\ ~category[c].everyone
                      THEN "put_read" ELSE "put_save"
          /\ call'[h] = [op |-> "put", cat |-> c, data |-> new, old |-> category[c].ids]
    BY <1>5, PutReadDoes
  <2>2. call'[h].op = "put" /\ call'[h].cat \in Known
    BY <1>1, <2>1
  <2>3. Frame({h}) /\ pc[h] = "idle" /\ UNCHANGED <<category, opened, seen>>
    BY <1>5, PutReadDoes DEF PutReadCategory
  <2>4. QED
    BY <1>2, <1>3, <2>2, <2>3
<1>6. ASSUME NEW h \in Calls, HireInsert(h) PROVE KnownInv'
  <2>1. /\ Frame({h}) /\ pc[h] = "idle" /\ call'[h].op = "hire"
        /\ UNCHANGED <<category, opened, seen>>
    BY <1>6, HireInsertDoes DEF HireInsert
  <2>2. QED
    BY <1>2, <1>3, <2>1
<1>7. ASSUME NEW h \in Calls,
             PutReadEmployees(h) \/ HireResume(h) \/ HireSaveAgain(h) \/ Abort(h)
      PROVE  KnownInv'
  <2>1. /\ Frame({h}) /\ pc[h] \in InFlight /\ h \in DOMAIN call
        /\ UNCHANGED <<category, opened, seen, call>>
    BY <1>7, PutEmployeesDoes, HireStepDoes, AbortDoes DEF Busy
  <2>2. pc[h] # "done"
    BY <2>1 DEF InFlight, Opening, Hiring
  <2>3. QED
    BY <1>2, <1>3, <2>1, <2>2, PutsKnow
<1>8. ASSUME NEW h \in Calls, HireReadCategories(h) PROVE KnownInv'
  <2>1. /\ Frame({h}) /\ pc[h] = "hire_read" /\ h \in DOMAIN call /\ seen'[h] = category
        /\ UNCHANGED <<category, opened, call>>
    BY <1>8, HireReadDoes
  <2>2. QED
    BY <1>1, <1>2, <2>1, PutsKnow
<1>9. ASSUME NEW h \in Calls, OpenBalance(h) PROVE KnownInv'
  <2>1. PICK n \in todo[h] :
          /\ h \in DOMAIN call /\ pc[h] \in Opening /\ call[h].cat \in Categories
          /\ n \in Hired /\ Frame({h})
          /\ opened' = [opened EXCEPT ![<<n, call[h].cat>>] = @ \cup {h}]
    BY <1>9, OpenDoes
  <2>2. /\ UNCHANGED <<category, pc, call, seen>> /\ pc[h] # "done"
        /\ Op(h) = "post" \/ Op(h) = "put"
    BY <1>9, <2>1 DEF OpenBalance, Opening, CallsInv, Placed, PutSteps
  <2>3. Known' \subseteq Known \cup {}
    BY <1>1, <1>3, <2>1, <2>2, KnownGrows, PutsKnow
  <2>4. PICK d \in Categories, x \in Employees : d = call[h].cat /\ x = n
    BY <2>1, HiredEmployees
  <2>5. opened' = [opened EXCEPT ![<<x, d>>] = @ \cup {h}]
    BY <2>1, <2>4
  <2>6. \A e \in Employees, c \in Categories :
          \/ opened'[<<e, c>>] = opened[<<e, c>>]
          \/ c = d /\ opened'[<<e, c>>] = opened[<<e, c>>] \cup {h}
    <3>1. opened \in [Accounts -> SUBSET Calls] /\ <<x, d>> \in Accounts
      BY <2>4 DEF TypeOK, Accounts
    <3>2. ASSUME NEW e \in Employees, NEW c \in Categories
          PROVE  \/ opened'[<<e, c>>] = opened[<<e, c>>]
                 \/ c = d /\ opened'[<<e, c>>] = opened[<<e, c>>] \cup {h}
      <4>1. CASE e = x /\ c = d
        BY <2>5, <3>1, <4>1
      <4>2. CASE e # x \/ c # d
        <5>1. <<e, c>> # <<x, d>> /\ <<e, c>> \in Accounts
          BY <3>2, <4>2 DEF Accounts
        <5>2. QED
          BY <2>5, <3>1, <5>1
      <4>3. QED
        BY <4>1, <4>2
    <3>3. QED
      BY <3>2
  <2>7. Op(h) = "put" => d \in Known
    BY <2>1, <2>4, PutsKnow
  <2>8. QED
    BY <2>1, <2>2, <2>3, <2>4, <2>6, <2>7, KnownStaysToo
<1>10. ASSUME NEW h \in Calls, HireOpenBalance(h) PROVE KnownInv'
  <2>1. PICK d \in todo[h] :
          /\ h \in DOMAIN call /\ pc[h] = "hire_open" /\ Op(h) = "hire"
          /\ savedEmployee \in Employees /\ d \in Categories /\ d \in DOMAIN seen[h]
          /\ opened' = [opened EXCEPT ![<<savedEmployee, d>>] = @ \cup {h}]
          /\ Frame({h}) /\ h \in DOMAIN seen /\ DOMAIN seen'[h] = DOMAIN seen[h]
    <3>1. PICK d \in todo[h] : HireOpens(h, d)
      BY <1>10, HireOpenDoes
    <3>2. QED
      BY <3>1 DEF HireOpens
  <2>2. UNCHANGED <<category, pc, call>>
    BY <1>10 DEF HireOpenBalance
  <2>3. d \in Known
    BY <1>3, <2>1
  <2>4. Known' \subseteq Known \cup {}
    BY <1>1, <1>3, <2>1, <2>2, KnownGrows
  <2>5. PICK x \in Employees : x = savedEmployee
    BY <2>1
  <2>6. opened' = [opened EXCEPT ![<<x, d>>] = @ \cup {h}] /\ d \in Categories
    BY <2>1, <2>5
  <2>7. \A e \in Employees, c \in Categories : opened'[<<e, c>>] = opened[<<e, c>>] \/ c = d
    BY <2>6, Opens
  <2>8. QED
    BY <2>1, <2>2, <2>3, <2>4, <2>7, KnownStaysToo
<1>11. ASSUME NEW h \in Calls, PostSaveCategory(h) \/ PutSaveCategory(h) PROVE KnownInv'
  <2>1. PICK rows \in Table :
          /\ h \in DOMAIN call /\ Frame({h}) /\ pc'[h] = "done"
          /\ pc[h] \in {"post_open", "put_open", "put_save"}
          /\ Op(h) \in {"post", "put"} /\ call[h].cat \in Categories
          /\ SaveCategories(rows) /\ DOMAIN rows = {call[h].cat}
          /\ UNCHANGED <<opened, call, seen>>
    BY <1>11, SaveOneDoes
  <2>2. PICK X \in SUBSET Categories :
          X = IF Op(h) = "post" THEN {call[h].cat} ELSE {}
    BY <2>1
  <2>3. DOMAIN category' \subseteq Known \cup X
    <3>1. DOMAIN category' = DOMAIN category \cup {call[h].cat}
      BY <2>1, Saves
    <3>2. QED
      BY <1>1, <2>1, <2>2, <3>1, PutsKnow
  <2>4. Known' \subseteq Known \cup X
    BY <1>1, <1>3, <2>1, <2>3, KnownGrows, PutsKnow
  <2>5. QED
    BY <2>1, <2>2, <2>4, KnownStays
<1>12. ASSUME NEW h \in Calls, HireSaveCategories(h) PROVE KnownInv'
  <2>1. /\ h \in DOMAIN call /\ Frame({h}) /\ pc[h] = "hire_open" /\ Op(h) = "hire"
        /\ h \in DOMAIN seen /\ seen[h] \in Table /\ SaveCategories(seen[h])
        /\ UNCHANGED <<opened, call, seen>>
    BY <1>12, HireSaveDoes
  <2>2. PICK rows \in Table : rows = seen[h]
    BY <2>1
  <2>3. SaveCategories(rows) /\ opened' = opened
    BY <2>1, <2>2
  <2>4. DOMAIN category' = DOMAIN category \cup DOMAIN rows
    BY <2>3, Saves
  <2>5. DOMAIN category' \subseteq Known \cup {}
    BY <1>1, <1>3, <2>1, <2>2, <2>4
  <2>6. Known' \subseteq Known \cup {}
    BY <1>1, <1>3, <2>1, <2>5, KnownGrows
  <2>7. QED
    BY <2>1, <2>6, KnownStaysToo
<1>13. ASSUME Frame({}), DOMAIN category' \subseteq DOMAIN category, opened' = opened
       PROVE  KnownInv'
  <2>1. DOMAIN category' \subseteq Known \cup {}
    BY <1>1, <1>13
  <2>2. Known' \subseteq Known \cup {}
    BY <1>1, <1>13, <2>1, KnownGrows
  <2>3. QED
    BY <1>13, <2>2, KnownStays
<1>14. ASSUME NEW c \in Categories, DeleteCategory(c) PROVE KnownInv'
  BY <1>13, <1>14, DeleteDoes
<1>15. ASSUME NEW e \in Employees, ChangeEmployeeStatus(e) PROVE KnownInv'
  BY <1>13, <1>15, StatusDoes
<1>16. CASE UNCHANGED vars
  BY <1>13, <1>16, QuietFrame DEF vars
<1>17. QED
  BY <1>4, <1>5, <1>6, <1>7, <1>8, <1>9, <1>10, <1>11, <1>12, <1>14, <1>15, <1>16
     DEF Next, Post, Put, Hire

-----------------------------------------------------------------------------
(* Who has no row yet. *)

LEMMA UndisturbedShrinks ==
    ASSUME TypeOK, CallsInv, Grows, NEW H \in SUBSET Calls, Frame(H),
           \A h \in H : pc[h] # "failed", NEW c, Undisturbed(c)'
    PROVE  Undisturbed(c)
<1>1. c \notin unlisted
  BY DEF Grows, Undisturbed
<1>2. ~Crossed(HireRaces \cup {{"put"}})
  BY DEF Grows, Undisturbed, Crossed, HireRaces
<1>3. ASSUME NEW h \in Failed PROVE Op(h) # "put"
  <2>1. h \in Calls /\ pc[h] = "failed" /\ h \in DOMAIN call
    BY <1>3 DEF Failed, CallsInv
  <2>2. pc'[h] = "failed" /\ call'[h] = call[h]
    BY <2>1 DEF Frame, Still
  <2>3. h \in Failed' /\ Op(h)' = Op(h)
    BY <2>1, <2>2 DEF Failed, Op
  <2>4. QED
    BY <2>3 DEF Undisturbed
<1>4. QED
  BY <1>1, <1>2, <1>3 DEF Undisturbed

(* Calls in flight together with a PUT disturb its category. *)
LEMMA PutsDisturb ==
    ASSUME TypeOK, CallsInv, NEW g \in Busy, NEW h \in Busy, g # h,
           Op(g) = "put", Op(h) \in {"put", "hire"}, NEW c
    PROVE  ~Undisturbed(c)
<1>1. {Op(g), Op(h)} \in crossed
  BY DEF CallsInv
<1>2. {Op(g), Op(h)} \in HireRaces \cup {{"put"}}
  BY DEF HireRaces
<1>3. QED
  BY <1>1, <1>2 DEF Undisturbed, Crossed

LEMMA RacesDisturb ==
    ASSUME NEW c, Undisturbed(c)
    PROVE  ~Crossed(HireRaces)
  BY DEF Undisturbed, Crossed

(* While no balance is opened, the rows stay as they should be.            *)
LEMMA OneStays ==
    ASSUME TypeOK, CallsInv, OneInv, Grows, opened' = opened,
           NEW H \in SUBSET Calls, Frame(H), \A h \in H : pc[h] # "failed",
           \A c \in DOMAIN category' : \/ c \in DOMAIN category /\ category'[c] = category[c]
                                       \/ Holders(c) \subseteq category'[c].ids
                                       \/ c \in unlisted',
           \A h \in H, c \in Categories :
              pc[h] = "put_open" /\ h \in DOMAIN call /\ call[h].cat = c /\ Undisturbed(c)' =>
                \/ pc'[h] = "put_open"
                \/ c \in DOMAIN category' => Holders(c) \subseteq category'[c].ids,
           \A h \in H, c \in Categories :
              h \in DOMAIN call' /\ pc'[h] \in PutSteps /\ call'[h].cat = c /\ Undisturbed(c)' =>
                 Apart(h, c)',
           \A h \in H : h \in DOMAIN call' /\ pc'[h] \in Hiring =>
              \/ \A c \in Categories : opened[<<call'[h].emp, c>>] \subseteq {h}
              \/ Crossed(HireRaces)'
    PROVE  OneInv'
<1>1. \A c \in Categories : Holders(c)' = Holders(c)
  BY DEF Holders
<1>2. \A h \in DOMAIN call : h \in Calls /\ h \in DOMAIN call' /\ call'[h] = call[h]
  BY DEF Frame, TypeOK, IsTable
<1>3. \A h \in DOMAIN call' : h \in DOMAIN call \/ h \in H
  BY DEF Frame
<1>4. \A c \in Categories : Holders(c)' \subseteq Hired'
  BY <1>1 DEF OneInv, Grows
<1>5. ASSUME NEW h \in DOMAIN call', h \notin H
      PROVE  /\ h \in DOMAIN call /\ h \in Calls /\ call'[h] = call[h] /\ pc'[h] = pc[h]
             /\ h \in DOMAIN todo => todo'[h] = todo[h]
  BY <1>2, <1>3, <1>5 DEF Frame, Still
<1>6. ASSUME NEW h \in DOMAIN call', pc'[h] \in Hiring
      PROVE  \/ \A c \in Categories : opened'[<<call'[h].emp, c>>] \subseteq {h}
             \/ Crossed(HireRaces)'
  <2>1. Crossed(HireRaces) => Crossed(HireRaces)'
    BY CrossedGrows DEF HireRaces
  <2>2. CASE h \in H
    BY <1>6, <2>2
  <2>3. CASE h \notin H
    BY <1>5, <1>6, <2>1, <2>3 DEF OneInv
  <2>4. QED
    BY <2>2, <2>3
<1>7. ASSUME NEW c \in Categories, Undisturbed(c)'
      PROVE  /\ \A e \in Employees : \A x, y \in opened'[<<e, c>>] : x = y
             /\ Listed(c)'
             /\ \A h \in DOMAIN call' : pc'[h] \in PutSteps /\ call'[h].cat = c => Apart(h, c)'
  <2>1. Undisturbed(c)
    BY <1>7, UndisturbedShrinks
  <2>2. /\ \A e \in Employees : \A x, y \in opened[<<e, c>>] : x = y
        /\ Listed(c)
        /\ \A h \in DOMAIN call : pc[h] \in PutSteps /\ call[h].cat = c => Apart(h, c)
    BY <2>1 DEF OneInv
  <2>3. ASSUME c \in DOMAIN category', ~category'[c].everyone
        PROVE  \/ Holders(c) \subseteq category'[c].ids
               \/ \E h \in DOMAIN call' : pc'[h] = "put_open" /\ call'[h].cat = c
    <3>1. c \notin unlisted'
      BY <1>7 DEF Undisturbed
    <3>2. CASE c \in DOMAIN category /\ category'[c] = category[c]
      <4>1. CASE Holders(c) \subseteq category[c].ids
        BY <3>2, <4>1
      <4>2. ASSUME NEW h \in DOMAIN call, pc[h] = "put_open", call[h].cat = c
            PROVE  \/ Holders(c) \subseteq category'[c].ids
                   \/ pc'[h] = "put_open" /\ h \in DOMAIN call' /\ call'[h].cat = c
        <5>1. CASE h \in H
          BY <1>2, <1>7, <2>3, <4>2, <5>1
        <5>2. CASE h \notin H
          BY <1>2, <4>2, <5>2 DEF Frame, Still
        <5>3. QED
          BY <5>1, <5>2
      <4>3. QED
        BY <2>2, <2>3, <3>2, <4>1, <4>2 DEF Listed
    <3>3. QED
      BY <2>3, <3>1, <3>2
  <2>4. Listed(c)'
    BY <1>1, <2>3 DEF Listed
  <2>5. ASSUME NEW h \in DOMAIN call', pc'[h] \in PutSteps, call'[h].cat = c
        PROVE  Apart(h, c)'
    <3>1. CASE h \in H
      BY <1>7, <2>5, <3>1
    <3>2. CASE h \notin H
      <4>1. /\ h \in DOMAIN call /\ h \in Calls /\ call'[h] = call[h] /\ pc'[h] = pc[h]
            /\ h \in DOMAIN todo => todo'[h] = todo[h]
        BY <1>5, <3>2
      <4>2. Apart(h, c)
        BY <2>2, <2>5, <4>1
      <4>3. pc[h] = "put_open" => h \in DOMAIN todo
        BY <4>1 DEF CallsInv, Placed, Opening
      <4>4. QED
        BY <1>1, <4>1, <4>2, <4>3 DEF Apart
    <3>3. QED
      BY <3>1, <3>2
  <2>6. QED
    BY <2>2, <2>4, <2>5
<1>8. QED
  BY <1>4, <1>6, <1>7 DEF OneInv

(* The steps that open no balance and save no category. *)

LEMMA PutReadOne ==
    ASSUME TypeOK, CallsInv, OneInv, Grows, NEW h \in Calls, PutReadCategory(h)
    PROVE  OneInv'
<1>1. PICK c \in DOMAIN category,
           new \in [everyone: BOOLEAN, ids: SUBSET Hired, unit: TimeUnits] :
        /\ pc'[h] = IF new.everyone /\ ~category[c].everyone
                    THEN "put_read" ELSE "put_save"
        /\ call'[h] = [op |-> "put", cat |-> c, data |-> new, old |-> category[c].ids]
  BY PutReadDoes
<1>2. call'[h].cat = c /\ call'[h].old = category[c].ids /\ call'[h].op = "put"
  BY <1>1
<1>3. /\ Frame({h}) /\ pc[h] = "idle" /\ h \notin DOMAIN call /\ h \in DOMAIN call'
      /\ pc'[h] \in {"put_read", "put_save"} /\ Cross("put", Busy)
      /\ UNCHANGED <<category, opened>> /\ c \in Categories
  BY PutReadDoes, CategoryFields DEF PutReadCategory
<1>4. ASSUME pc'[h] = "put_read", Undisturbed(c)' PROVE Holders(c) \subseteq category[c].ids
  <2>1. ~category[c].everyone
    BY <1>1, <1>4
  <2>2. Undisturbed(c)
    BY <1>3, <1>4, UndisturbedShrinks
  <2>3. Listed(c)
    BY <1>3, <2>2 DEF OneInv
  <2>4. ASSUME NEW g \in DOMAIN call, pc[g] = "put_open" PROVE FALSE
    <3>1. g \in Calls /\ pc[g] \in InFlight
      BY <2>4 DEF TypeOK, IsTable, InFlight, Opening
    <3>2. g \in Busy /\ Op(g) = "put"
      BY <2>4, <3>1, Places DEF PutSteps
    <3>3. {"put", Op(g)} \in crossed'
      BY <1>3, <3>2, CrossGrows
    <3>4. {"put"} \in crossed'
      BY <3>2, <3>3
    <3>5. QED
      BY <1>4, <3>4 DEF Undisturbed, Crossed
  <2>5. QED
    BY <2>1, <2>3, <2>4 DEF Listed
<1>5. ASSUME Undisturbed(c)' PROVE Apart(h, c)'
  BY <1>2, <1>3, <1>4, <1>5 DEF Apart, Holders
<1>6. pc'[h] \notin Hiring
  BY <1>3 DEF Hiring
<1>7. QED
  BY <1>2, <1>3, <1>5, <1>6, OneStays

LEMMA PutEmployeesOne ==
    ASSUME TypeOK, CallsInv, OneInv, Grows, NEW h \in Calls, PutReadEmployees(h)
    PROVE  OneInv'
<1>1. /\ h \in DOMAIN call /\ h \in Busy /\ Op(h) = "put" /\ Frame({h})
      /\ pc[h] = "put_read" /\ pc'[h] = "put_open"
      /\ todo'[h] = staff \ call[h].old
      /\ UNCHANGED <<staff, category, opened, savedEmployee, call, seen, ghosts>>
  BY PutEmployeesDoes
<1>2. ASSUME NEW c \in Categories, call[h].cat = c, Undisturbed(c)' PROVE Apart(h, c)'
  <2>1. Undisturbed(c)
    BY <1>1, <1>2, UndisturbedShrinks
  <2>2. Apart(h, c)
    BY <1>1, <1>2, <2>1 DEF OneInv, PutSteps
  <2>3. Holders(c) \subseteq call[h].old
    BY <1>1, <2>2 DEF Apart
  <2>4. QED
    BY <1>1, <2>3 DEF Apart, Holders
<1>3. pc'[h] \notin Hiring
  BY <1>1 DEF Hiring
<1>4. QED
  BY <1>1, <1>2, <1>3, OneStays

LEMMA HireInsertOne ==
    ASSUME TypeOK, CallsInv, OneInv, Grows, NEW h \in Calls, HireInsert(h)
    PROVE  OneInv'
<1>1. /\ Frame({h}) /\ pc[h] = "idle" /\ pc'[h] = "hire_insert"
      /\ call'[h] \in [op: {"hire"}, emp: Employees \ Hired]
      /\ UNCHANGED <<category, opened>>
  BY HireInsertDoes DEF HireInsert
<1>2. PICK e \in Employees \ Hired : e = call'[h].emp
  BY <1>1
<1>3. \A c \in Categories : opened[<<e, c>>] = {}
  BY <1>2 DEF OneInv, Holders
<1>4. pc'[h] \notin PutSteps
  BY <1>1 DEF PutSteps
<1>5. QED
  BY <1>1, <1>2, <1>3, <1>4, OneStays

LEMMA QuietOne ==
    ASSUME TypeOK, CallsInv, OneInv, Grows, NEW h \in Calls,
           \/ PostReadEmployees(h) \/ HireResume(h) \/ HireSaveAgain(h)
           \/ HireReadCategories(h) \/ Abort(h)
    PROVE  OneInv'
<1>1. /\ Frame({h}) /\ UNCHANGED <<category, opened>>
      /\ \/ pc[h] = "idle" /\ pc'[h] = "post_open"
         \/ /\ h \in DOMAIN call /\ h \in Busy /\ call' = call /\ Op(h) = "hire"
            /\ pc[h] \in Hiring /\ pc'[h] \in Hiring
         \/ /\ h \in DOMAIN call /\ h \in Busy /\ call' = call /\ pc'[h] = "failed"
  <2>1. CASE PostReadEmployees(h)
    BY <2>1, PostReadDoes DEF PostReadEmployees
  <2>2. CASE HireResume(h) \/ HireSaveAgain(h)
    BY <2>2, HireStepDoes DEF Hiring
  <2>3. CASE HireReadCategories(h)
    BY <2>3, HireReadDoes DEF Hiring
  <2>4. CASE Abort(h)
    BY <2>4, AbortDoes
  <2>5. QED
    BY <2>1, <2>2, <2>3, <2>4
<1>2. pc'[h] \notin PutSteps /\ pc[h] # "failed"
  BY <1>1 DEF PutSteps, Hiring, Busy, InFlight, Opening
<1>3. pc'[h] \in Hiring => \/ \A c \in Categories : opened[<<call'[h].emp, c>>] \subseteq {h}
                           \/ Crossed(HireRaces)'
  <2>1. Crossed(HireRaces) => Crossed(HireRaces)'
    BY CrossedGrows DEF HireRaces
  <2>2. pc'[h] \in Hiring => h \in DOMAIN call /\ call' = call /\ pc[h] \in Hiring
    BY <1>1 DEF Hiring
  <2>3. QED
    BY <2>1, <2>2 DEF OneInv
<1>4. ASSUME NEW c \in Categories, pc[h] = "put_open", h \in DOMAIN call, Undisturbed(c)'
      PROVE  FALSE
  <2>1. /\ pc'[h] = "failed" /\ call' = call
    BY <1>1, <1>4 DEF Hiring
  <2>2. Op(h) = "put"
    BY <1>4 DEF CallsInv, Placed, PutSteps
  <2>3. h \in Failed' /\ Op(h)' = "put"
    BY <2>1, <2>2 DEF Failed, Op
  <2>4. QED
    BY <1>4, <2>3 DEF Undisturbed
<1>5. QED
  BY <1>1, <1>2, <1>3, <1>4, OneStays

(* The saves list whoever holds a row, or are recorded not to.             *)
LEMMA SaveOne ==
    ASSUME TypeOK, CallsInv, OneInv, Grows, NEW h \in Calls,
           PostSaveCategory(h) \/ PutSaveCategory(h) \/ HireSaveCategories(h)
    PROVE  OneInv'
<1>1. PICK rows \in Table :
        /\ Frame({h}) /\ h \in DOMAIN call /\ h \in Busy /\ pc'[h] = "done"
        /\ SaveCategories(rows) /\ UNCHANGED <<opened, call>>
        /\ pc[h] = "put_open" => call[h].cat \in DOMAIN rows
  <2>1. CASE PostSaveCategory(h) \/ PutSaveCategory(h)
    <3>1. PICK rows \in Table : /\ SaveCategories(rows)
                                /\ DOMAIN rows = {call[h].cat}
                                /\ rows[call[h].cat] = call[h].data
      BY <2>1, SaveOneDoes
    <3>2. call[h].cat \in DOMAIN rows
      BY <3>1
    <3>3. /\ Frame({h}) /\ h \in DOMAIN call /\ h \in Busy /\ pc'[h] = "done"
          /\ UNCHANGED <<opened, call>>
      BY <2>1, SaveOneDoes
    <3>4. QED
      BY <3>1, <3>2, <3>3
  <2>2. CASE HireSaveCategories(h)
    BY <2>2, HireSaveDoes
  <2>3. QED
    BY <2>1, <2>2
<1>2. /\ DOMAIN category' = DOMAIN category \cup DOMAIN rows
      /\ \A c \in DOMAIN rows : category'[c] = rows[c]
      /\ \A c \in DOMAIN category : c \notin DOMAIN rows => category'[c] = category[c]
      /\ \A c \in DOMAIN rows : Holders(c) \subseteq rows[c].ids \/ c \in unlisted'
  BY <1>1, Saves
<1>3. \A c \in DOMAIN category' : \/ c \in DOMAIN category /\ category'[c] = category[c]
                                  \/ Holders(c) \subseteq category'[c].ids
                                  \/ c \in unlisted'
  BY <1>2
<1>4. ASSUME NEW c \in Categories, pc[h] = "put_open", call[h].cat = c, Undisturbed(c)'
      PROVE  c \in DOMAIN category' => Holders(c) \subseteq category'[c].ids
  BY <1>1, <1>2, <1>4 DEF Undisturbed
<1>5. pc'[h] \notin PutSteps /\ pc'[h] \notin Hiring /\ pc[h] # "failed"
  BY <1>1 DEF PutSteps, Hiring, Busy, InFlight, Opening
<1>6. QED
  BY <1>1, <1>3, <1>4, <1>5, OneStays

Inserts(n, d, h) == opened' = [opened EXCEPT ![<<n, d>>] = @ \cup {h}]

LEMMA OpensOne ==
    ASSUME TypeOK, NEW h \in Calls, NEW n \in Employees, NEW d \in Categories,
           Inserts(n, d, h)
    PROVE  /\ opened'[<<n, d>>] = opened[<<n, d>>] \cup {h}
           /\ \A e \in Employees, c \in Categories :
                 (e = n /\ c = d) \/ opened'[<<e, c>>] = opened[<<e, c>>]
           /\ \A c \in Categories : c # d => Holders(c)' = Holders(c)
           /\ Holders(d)' = Holders(d) \cup {n}
<1>1. /\ opened'[<<n, d>>] = opened[<<n, d>>] \cup {h}
      /\ \A e \in Employees, c \in Categories :
            e # n \/ c # d => opened'[<<e, c>>] = opened[<<e, c>>]
  <2>1. opened \in [Accounts -> SUBSET Calls] /\ <<n, d>> \in Accounts
    BY DEF TypeOK, Accounts
  <2>2. ASSUME NEW e \in Employees, NEW c \in Categories, e # n \/ c # d
        PROVE  opened'[<<e, c>>] = opened[<<e, c>>]
    <3>1. <<e, c>> # <<n, d>> /\ <<e, c>> \in Accounts
      BY <2>2 DEF Accounts
    <3>2. QED
      BY <2>1, <3>1 DEF Inserts
  <2>3. QED
    BY <2>1, <2>2 DEF Inserts
<1>2. ASSUME NEW c \in Categories, c # d PROVE Holders(c)' = Holders(c)
  BY <1>1, <1>2 DEF Holders
<1>3. Holders(d)' = Holders(d) \cup {n}
  <2>1. ASSUME NEW e \in Employees PROVE opened'[<<e, d>>] # {} <=> opened[<<e, d>>] # {} \/ e = n
    BY <1>1, <2>1
  <2>2. QED
    BY <2>1 DEF Holders
<1>4. QED
  BY <1>1, <1>2, <1>3

(* A POST opens where it alone knows the category, a PUT where nobody has  *)
(* a row; and no PUT or hire is in flight with it.                         *)
LEMMA OpenOne ==
    ASSUME TypeOK, CallsInv, KnownInv, OneInv, Grows, NEW h \in Calls, OpenBalance(h)
    PROVE  OneInv'
<1>1. PICK n \in todo[h] :
        /\ n \in Hired /\ Frame({h}) /\ h \in DOMAIN call /\ h \in Busy
        /\ pc[h] \in Opening /\ call[h].cat \in Categories
        /\ opened' = [opened EXCEPT ![<<n, call[h].cat>>] = @ \cup {h}]
        /\ h \in DOMAIN todo /\ todo'[h] = todo[h] \ {n}
  BY OpenDoes
<1>2. UNCHANGED <<category, pc, call>>
  BY DEF OpenBalance
<1>3. PICK d \in Categories : d = call[h].cat
  BY <1>1
<1>4. n \in Employees
  BY <1>1, HiredEmployees
<1>5. Inserts(n, d, h)
  BY <1>1, <1>3 DEF Inserts
<1>6. /\ opened'[<<n, d>>] = opened[<<n, d>>] \cup {h}
      /\ \A e \in Employees, c \in Categories :
            (e = n /\ c = d) \/ opened'[<<e, c>>] = opened[<<e, c>>]
      /\ \A c \in Categories : c # d => Holders(c)' = Holders(c)
      /\ Holders(d)' = Holders(d) \cup {n}
  BY <1>4, <1>5, OpensOne
<1>7. \/ Op(h) = "post" /\ pc[h] = "post_open"
      \/ Op(h) = "put" /\ pc[h] = "put_open"
  BY <1>1 DEF CallsInv, Placed, PutSteps, Opening
<1>8. ASSUME Op(h) = "post"
      PROVE  d \notin Known /\ \A e \in Employees : opened[<<e, d>>] \subseteq {h}
  <2>1. pc[h] # "done"
    BY <1>7
  <2>2. QED
    BY <1>1, <1>3, <1>8, <2>1 DEF KnownInv
<1>9. \A c \in Categories : Holders(c)' \subseteq Hired'
  BY <1>1, <1>6 DEF OneInv, Grows
<1>10. ASSUME NEW g \in DOMAIN call', pc'[g] \in Hiring
       PROVE  \/ \A c \in Categories : opened'[<<call'[g].emp, c>>] \subseteq {g}
              \/ Crossed(HireRaces)'
  <2>1. g \in Calls /\ pc[g] \in InFlight
    BY <1>2, <1>10 DEF TypeOK, IsTable, InFlight
  <2>2. g \in Busy /\ Op(g) = "hire"
    BY <1>2, <1>10, <2>1, Places
  <2>3. g # h
    BY <1>7, <2>2
  <2>4. Crossed(HireRaces)
    BY <1>1, <2>2, <2>3, HiresRace
  <2>5. QED
    BY <2>4, CrossedGrows DEF HireRaces
<1>11. ASSUME NEW c \in Categories, Undisturbed(c)'
       PROVE  /\ \A e \in Employees : \A x, y \in opened'[<<e, c>>] : x = y
              /\ Listed(c)'
              /\ \A g \in DOMAIN call' : pc'[g] \in PutSteps /\ call'[g].cat = c => Apart(g, c)'
  <2>1. Undisturbed(c)
    <3>1. pc[h] # "failed"
      BY <1>7
    <3>2. QED
      BY <1>1, <1>11, <3>1, UndisturbedShrinks
  <2>2. /\ \A e \in Employees : \A x, y \in opened[<<e, c>>] : x = y
        /\ Listed(c)
        /\ \A g \in DOMAIN call : pc[g] \in PutSteps /\ call[g].cat = c => Apart(g, c)
    BY <2>1 DEF OneInv
  <2>3. ASSUME c = d, Op(h) = "put" PROVE todo[h] \cap Holders(d) = {}
    <3>1. Apart(h, d)
      BY <1>1, <1>3, <1>7, <2>2, <2>3 DEF PutSteps
    <3>2. QED
      BY <1>7, <2>3, <3>1 DEF Apart
  <2>4. c = d => opened[<<n, d>>] \subseteq {h}
    <3>1. CASE Op(h) = "post"
      BY <1>4, <1>8, <3>1
    <3>2. CASE Op(h) = "put"
      <4>1. c = d => n \notin Holders(d)
        BY <1>1, <2>3, <3>2
      <4>2. QED
        BY <1>4, <4>1 DEF Holders
    <3>3. QED
      BY <1>7, <3>1, <3>2
  <2>5. ASSUME NEW e \in Employees, NEW x \in opened'[<<e, c>>], NEW y \in opened'[<<e, c>>]
        PROVE  x = y
    <3>1. CASE e = n /\ c = d
      BY <1>6, <2>4, <2>5, <3>1
    <3>2. CASE ~(e = n /\ c = d)
      <4>1. opened'[<<e, c>>] = opened[<<e, c>>]
        BY <1>6, <1>11, <2>5, <3>2
      <4>2. QED
        BY <2>2, <2>5, <4>1
    <3>3. QED
      BY <3>1, <3>2
  <2>6. Listed(c)'
    <3>1. CASE c # d
      BY <1>2, <1>6, <2>2, <3>1 DEF Listed
    <3>2. CASE c = d /\ Op(h) = "post"
      <4>1. c \notin DOMAIN category
        BY <1>8, <3>2 DEF Known
      <4>2. QED
        BY <1>2, <4>1 DEF Listed
    <3>3. CASE c = d /\ Op(h) = "put"
      BY <1>1, <1>2, <1>3, <1>7, <3>3 DEF Listed
    <3>4. QED
      BY <1>7, <3>1, <3>2, <3>3
  <2>7. ASSUME NEW g \in DOMAIN call', pc'[g] \in PutSteps, call'[g].cat = c
        PROVE  Apart(g, c)'
    <3>1. /\ g \in DOMAIN call /\ pc[g] \in PutSteps /\ call[g].cat = c
          /\ g \in Calls /\ pc[g] \in InFlight
      BY <1>2, <2>7 DEF TypeOK, IsTable, PutSteps, InFlight, Opening
    <3>2. g \in Busy /\ Op(g) = "put" /\ Apart(g, c)
      BY <2>2, <3>1, Places
    <3>3. CASE g = h
      <4>1. pc[h] = "put_open" /\ c = d /\ Op(h) = "put"
        BY <1>3, <1>7, <3>1, <3>2, <3>3
      <4>2. todo'[h] \cap Holders(d)' = {}
        BY <1>1, <1>6, <2>3, <4>1
      <4>3. QED
        BY <1>2, <3>3, <4>1, <4>2 DEF Apart
    <3>4. CASE g # h
      <4>1. Op(h) = "post"
        BY <1>1, <1>7, <2>1, <3>2, <3>4, PutsDisturb
      <4>2. c # d
        BY <1>8, <3>1, <3>2, <4>1, PutsKnow
      <4>3. pc[g] = "put_open" => g \in DOMAIN todo /\ todo'[g] = todo[g]
        BY <1>1, <3>1, <3>4 DEF CallsInv, Placed, Opening, Frame, Still
      <4>4. QED
        BY <1>2, <1>6, <3>2, <4>2, <4>3 DEF Apart
    <3>5. QED
      BY <3>3, <3>4
  <2>8. QED
    BY <2>5, <2>6, <2>7
<1>12. QED
  BY <1>9, <1>10, <1>11 DEF OneInv

(* A hire opens for a newcomer, who has no row, in everyone's categories.  *)
LEMMA HireOpenOne ==
    ASSUME TypeOK, CallsInv, UndoneInv, OneInv, Grows, NEW h \in Calls, HireOpenBalance(h)
    PROVE  OneInv'
<1>1. PICK d \in todo[h] :
        /\ Frame({h}) /\ h \in DOMAIN call /\ h \in Busy /\ pc[h] = "hire_open"
        /\ savedEmployee \in Hired /\ savedEmployee \in Employees
        /\ d \in Categories /\ Op(h) = "hire"
        /\ opened' = [opened EXCEPT ![<<savedEmployee, d>>] = @ \cup {h}]
        /\ d \in DOMAIN seen[h] /\ seen[h][d].everyone
  <2>1. PICK d \in todo[h] : HireOpens(h, d)
    BY HireOpenDoes
  <2>2. QED
    BY <2>1 DEF HireOpens
<1>2. UNCHANGED <<category, savedEmployee, pc, call, crossed>>
  BY DEF HireOpenBalance, ghosts
<1>3. PICK n \in Employees : n = savedEmployee
  BY <1>1
<1>4. Inserts(n, d, h) /\ d \in Categories
  BY <1>1, <1>3 DEF Inserts
<1>5. /\ opened'[<<n, d>>] = opened[<<n, d>>] \cup {h}
      /\ \A e \in Employees, c \in Categories :
            (e = n /\ c = d) \/ opened'[<<e, c>>] = opened[<<e, c>>]
      /\ \A c \in Categories : c # d => Holders(c)' = Holders(c)
      /\ Holders(d)' = Holders(d) \cup {n}
  BY <1>4, OpensOne
<1>6. \A c \in Categories : Holders(c)' \subseteq Hired'
  BY <1>1, <1>3, <1>5 DEF OneInv, Grows
<1>7. ASSUME ~Crossed(HireRaces)
      PROVE  /\ n = call[h].emp
             /\ \A c \in Categories : opened[<<n, c>>] \subseteq {h}
             /\ \A c \in DOMAIN category : c \in DOMAIN seen[h] /\ seen[h][c] = Enrolled(h, c)
  <2>1. n = call[h].emp
    BY <1>1, <1>3, <1>7 DEF UndoneInv, Unlost, Hiring
  <2>2. \A c \in Categories : opened[<<call[h].emp, c>>] \subseteq {h}
    BY <1>1, <1>7 DEF OneInv, Hiring
  <2>3. QED
    BY <1>1, <1>7, <2>1, <2>2 DEF UndoneInv, Unlost
<1>8. ASSUME NEW g \in DOMAIN call', pc'[g] \in Hiring
      PROVE  \/ \A c \in Categories : opened'[<<call'[g].emp, c>>] \subseteq {g}
             \/ Crossed(HireRaces)'
  <2>1. g \in Calls /\ pc[g] \in InFlight
    BY <1>2, <1>8 DEF TypeOK, IsTable, InFlight
  <2>2. g \in Busy /\ Op(g) = "hire"
    BY <1>2, <1>8, <2>1, Places
  <2>3. Crossed(HireRaces)' <=> Crossed(HireRaces)
    BY <1>2 DEF Crossed, HireRaces
  <2>4. CASE g # h
    BY <1>1, <2>2, <2>3, <2>4, HiresRace
  <2>5. CASE g = h /\ ~Crossed(HireRaces)
    <3>1. \A c \in Categories : opened'[<<n, c>>] \subseteq {h}
      BY <1>5, <1>7, <2>5
    <3>2. call'[g].emp = n
      BY <1>2, <1>7, <2>5
    <3>3. QED
      BY <2>5, <3>1, <3>2
  <2>6. QED
    BY <2>3, <2>4, <2>5
<1>9. ASSUME NEW c \in Categories, Undisturbed(c)'
      PROVE  /\ \A e \in Employees : \A x, y \in opened'[<<e, c>>] : x = y
             /\ Listed(c)'
             /\ \A g \in DOMAIN call' : pc'[g] \in PutSteps /\ call'[g].cat = c => Apart(g, c)'
  <2>1. Undisturbed(c)
    BY <1>1, <1>9, UndisturbedShrinks
  <2>2. ~Crossed(HireRaces)
    BY <2>1, RacesDisturb
  <2>3. /\ \A e \in Employees : \A x, y \in opened[<<e, c>>] : x = y
        /\ Listed(c)
    BY <2>1 DEF OneInv
  <2>4. ASSUME NEW e \in Employees, NEW x \in opened'[<<e, c>>], NEW y \in opened'[<<e, c>>]
        PROVE  x = y
    <3>1. CASE e = n /\ c = d
      <4>1. opened[<<n, d>>] \subseteq {h}
        BY <1>1, <1>7, <2>2
      <4>2. QED
        BY <1>5, <2>4, <3>1, <4>1
    <3>2. CASE ~(e = n /\ c = d)
      <4>1. opened'[<<e, c>>] = opened[<<e, c>>]
        BY <1>5, <1>9, <2>4, <3>2
      <4>2. QED
        BY <2>3, <2>4, <4>1
    <3>3. QED
      BY <3>1, <3>2
  <2>5. Listed(c)'
    <3>1. CASE c # d
      BY <1>2, <1>5, <2>3, <3>1 DEF Listed
    <3>2. CASE c = d
      <4>1. ASSUME d \in DOMAIN category PROVE category[d].everyone
        <5>1. seen[h][d] = Enrolled(h, d) /\ category[d] \in Assignees
          BY <1>7, <2>2, <4>1, CategoryFields
        <5>2. Enrolled(h, d).everyone = category[d].everyone
          BY <5>1 DEF Enrolled, Assignees
        <5>3. QED
          BY <1>1, <5>1, <5>2
      <4>2. QED
        BY <1>2, <3>2, <4>1 DEF Listed
    <3>3. QED
      BY <3>1, <3>2
  <2>6. ASSUME NEW g \in DOMAIN call', pc'[g] \in PutSteps PROVE FALSE
    <3>1. g \in Calls /\ pc[g] \in InFlight /\ pc[g] \in PutSteps
      BY <1>2, <2>6 DEF TypeOK, IsTable, PutSteps, InFlight, Opening
    <3>2. g \in Busy /\ Op(g) = "put"
      BY <3>1, Places
    <3>3. QED
      BY <1>1, <2>1, <3>2, PutsDisturb
  <2>7. QED
    BY <2>4, <2>5, <2>6
<1>10. QED
  BY <1>6, <1>8, <1>9 DEF OneInv

LEMMA NextOne ==
    ASSUME TypeOK, CallsInv, UndoneInv, KnownInv, OneInv, [Next]_vars
    PROVE  OneInv'
<1>1. Grows
  BY Moves
<1>2. ASSUME Frame({}), opened' = opened,
             \A c \in DOMAIN category' : c \in DOMAIN category /\ category'[c] = category[c]
      PROVE  OneInv'
  BY <1>1, <1>2, OneStays
<1>3. ASSUME NEW c \in Categories, DeleteCategory(c) PROVE OneInv'
  BY <1>2, <1>3, DeleteDoes
<1>4. ASSUME NEW e \in Employees, ChangeEmployeeStatus(e) PROVE OneInv'
  BY <1>2, <1>4, StatusDoes
<1>5. CASE UNCHANGED vars
  BY <1>2, <1>5, QuietFrame DEF vars
<1>6. QED
  BY <1>1, <1>3, <1>4, <1>5, PutReadOne, PutEmployeesOne, HireInsertOne, QuietOne,
     SaveOne, OpenOne, HireOpenOne DEF Next, Post, Put, Hire

-----------------------------------------------------------------------------
(* The inductive invariant. *)

LEMMA InitIInv == Init => IInv
<1> SUFFICES ASSUME Init PROVE IInv
  OBVIOUS
<1>1. TypeOK
  BY InitType
<1>2. /\ DOMAIN call = {} /\ DOMAIN category = {} /\ DOMAIN seen = {}
      /\ \A c \in Categories : Holders(c) = {}
      /\ savedEmployee = Nobody
      /\ \A h \in Calls : pc[h] = "idle"
  BY DEF Init, Holders, Accounts, NoRows, IsTable
<1>3. CallsInv
  BY <1>2 DEF CallsInv, Busy
<1>4. UndoneInv /\ CoverInv
  BY <1>2 DEF UndoneInv, CoverInv
<1>5. KnownInv
  <2>1. Known = {}
    BY <1>2 DEF Known
  <2>2. QED
    BY <1>2, <2>1 DEF KnownInv
<1>6. OneInv
  <2>1. \A e \in Employees, c \in Categories : opened[<<e, c>>] = {}
    BY DEF Init, Accounts
  <2>2. QED
    BY <1>2, <2>1 DEF OneInv, Listed
<1>7. QED
  BY <1>1, <1>3, <1>4, <1>5, <1>6 DEF IInv

LEMMA NextIInv == IInv /\ [Next]_vars => IInv'
  BY NextType, NextCalls, NextUndone, NextCover, NextKnown, NextOne DEF IInv

(* Types, where the calls are and who has a row in what, in every          *)
(* behaviour of the category and hiring handlers.                          *)
THEOREM CategoriesInductive == Spec => []IInv
  BY InitIInv, NextIInv, PTL DEF Spec

(* Every table of the category handlers stays well typed: calls keep the   *)
(* arguments of their operation, loops visit employees or categories, and  *)
(* what a hire has read are categories.                                    *)
THEOREM CategoriesTypeCorrect == Spec => []TypeOK
<1>1. IInv => TypeOK
  BY DEF IInv
<1>2. QED
  BY <1>1, CategoriesInductive, PTL

LEMMA RowsCounted == IInv => OneBalanceRow
<1> SUFFICES ASSUME IInv PROVE OneBalanceRow
  OBVIOUS
<1>1. OneBalanceEach
  <2> SUFFICES ASSUME NEW e \in Employees, NEW c \in Categories
               PROVE  \/ Cardinality(opened[<<e, c>>]) <= 1
                      \/ c \in unlisted
                      \/ \E h \in Failed : Op(h) = "put"
                      \/ Crossed({{"put"}, {"hire"}, {"put", "hire"}, {"post", "hire"}})
    BY DEF OneBalanceEach
  <2>1. CASE ~Undisturbed(c)
    <3>1. \A S : S \in HireRaces \cup {{"put"}} =>
                  S \in {{"put"}, {"hire"}, {"put", "hire"}, {"post", "hire"}}
      BY DEF HireRaces
    <3>2. Crossed(HireRaces \cup {{"put"}}) =>
             Crossed({{"put"}, {"hire"}, {"put", "hire"}, {"post", "hire"}})
      BY <3>1 DEF Crossed
    <3>3. QED
      BY <2>1, <3>2 DEF Undisturbed
  <2>2. CASE Undisturbed(c)
    <3>1. \A x, y \in opened[<<e, c>>] : x = y
      BY <2>2 DEF IInv, OneInv
    <3>2. CASE opened[<<e, c>>] = {}
      BY <3>2, FS_EmptySet
    <3>3. CASE opened[<<e, c>>] # {}
      <4>1. PICK x : x \in opened[<<e, c>>]
        BY <3>3
      <4>2. opened[<<e, c>>] = {x}
        BY <3>1, <4>1
      <4>3. Cardinality({x}) = 1
        BY FS_Singleton
      <4>4. QED
        BY <4>2, <4>3
    <3>4. QED
      BY <3>2, <3>3
  <2>3. QED
    BY <2>1, <2>2
<1>2. EveryoneCovered
  BY DEF IInv, CoverInv, Covered, EveryoneCovered, HireRaces
<1>3. QED
  BY <1>1, <1>2 DEF OneBalanceRow

(* Whoever a leave category is for has exactly one balance row in it,      *)
(* however POSTs, PUTs, DELETEs, hires and changes of status interleave,   *)
(* fail or are repeated, except where the property names the disturbance.  *)
THEOREM CategoriesOneBalanceRow == Spec => []OneBalanceRow
  BY RowsCounted, CategoriesInductive, PTL

-----------------------------------------------------------------------------
(* Nothing is undone. *)

Rewritten(h) ==
    \/ category' = [c \in DOMAIN category |->
            [category[c] EXCEPT !.ids =
                IF category[c].everyone THEN @ \cup {call[h].emp} ELSE @]]
    \/ Crossed({{"hire"}, {"put", "hire"}, {"delete", "hire"}, {"post", "hire"}})

Returning(c) ==
    \/ \E h \in Calls : pc[h] = "post_open" /\ call[h].cat = c
    \/ Crossed({{"delete", "put"}, {"delete", "hire"}})

LEMMA HireRewrites ==
    ASSUME IInv, NEW h \in Calls, HireSaveCategories(h)
    PROVE  /\ Rewritten(h)
           /\ \A c \in DOMAIN category' \ DOMAIN category : Returning(c)
<1>1. /\ h \in DOMAIN call /\ pc[h] = "hire_open" /\ h \in DOMAIN seen
      /\ todo[h] = {} /\ SaveCategories(seen[h]) /\ Unlost(h) /\ TypeOK
  BY HireSaveDoes DEF IInv, UndoneInv
<1>2. category' = [c \in DOMAIN category \cup DOMAIN seen[h] |->
                     IF c \in DOMAIN seen[h] THEN seen[h][c] ELSE category[c]]
  BY <1>1 DEF SaveCategories
<1>3. DOMAIN seen[h] \subseteq DOMAIN category \/ Crossed({{"delete", "hire"}})
  BY <1>1 DEF Unlost
<1>4. Rewritten(h)
  <2>1. CASE Crossed({{"delete", "hire"}}) \/ Crossed(HireRaces)
    BY <2>1 DEF Rewritten, Crossed, HireRaces
  <2>2. CASE ~(Crossed({{"delete", "hire"}}) \/ Crossed(HireRaces))
    <3>1. /\ DOMAIN seen[h] \subseteq DOMAIN category
          /\ \A c \in DOMAIN category : c \in DOMAIN seen[h] /\ seen[h][c] = Enrolled(h, c)
      BY <1>1, <2>2 DEF Unlost
    <3>2. \A c \in DOMAIN category :
            seen[h][c] = [category[c] EXCEPT !.ids =
                             IF category[c].everyone THEN @ \cup {call[h].emp} ELSE @]
      BY <1>1, <3>1 DEF Enrolled
    <3>3. category' = [c \in DOMAIN category |-> seen[h][c]]
      BY <1>2, <3>1
    <3>4. QED
      BY <3>2, <3>3 DEF Rewritten
  <2>3. QED
    BY <2>1, <2>2
<1>5. ASSUME NEW c \in DOMAIN category' \ DOMAIN category PROVE Returning(c)
  <2>1. Crossed({{"delete", "hire"}})
    BY <1>2, <1>3
  <2>2. QED
    BY <2>1 DEF Returning, Crossed
<1>6. QED
  BY <1>4, <1>5

LEMMA SaveOneReturns ==
    ASSUME IInv, NEW h \in Calls, PostSaveCategory(h) \/ PutSaveCategory(h)
    PROVE  \A c \in DOMAIN category' \ DOMAIN category : Returning(c)
<1>1. PICK rows \in Table :
        /\ h \in DOMAIN call /\ SaveCategories(rows) /\ DOMAIN rows = {call[h].cat}
        /\ pc[h] = "post_open" \/ pc[h] \in PutSteps
        /\ opened' = opened
  <2>1. PICK rows \in Table : /\ SaveCategories(rows) /\ DOMAIN rows = {call[h].cat}
                              /\ rows[call[h].cat] = call[h].data
    BY SaveOneDoes DEF IInv
  <2>2. /\ h \in DOMAIN call /\ opened' = opened
        /\ pc[h] = "post_open" \/ pc[h] \in PutSteps
    BY SaveOneDoes DEF IInv, PutSteps
  <2>3. QED
    BY <2>1, <2>2
<1>2. DOMAIN category' = DOMAIN category \cup {call[h].cat}
  BY <1>1, Saves DEF IInv
<1>3. pc[h] \in PutSteps =>
         call[h].cat \in DOMAIN category \/ Crossed({{"delete", "put"}})
  BY <1>1 DEF IInv, UndoneInv, Unlost
<1>4. QED
  BY <1>1, <1>2, <1>3 DEF Returning, Crossed

LEMMA StepUndoesNothing ==
    ASSUME IInv, [Next]_vars
    PROVE  /\ \A h \in Calls : pc[h] = "hire_open" /\ pc'[h] = "done" => Rewritten(h)
           /\ \A c \in DOMAIN category' \ DOMAIN category : Returning(c)
<1> DEFINE Goal == /\ \A h \in Calls : pc[h] = "hire_open" /\ pc'[h] = "done" => Rewritten(h)
                   /\ \A c \in DOMAIN category' \ DOMAIN category : Returning(c)
<1> USE DEF IInv
<1>1. ASSUME NEW g \in Calls, Frame({g}), DOMAIN category' \subseteq DOMAIN category,
             pc[g] # "hire_open" \/ pc'[g] # "done"
      PROVE  Goal
  BY <1>1 DEF Frame, Still
<1>2. ASSUME NEW g \in Calls,
             \/ PostReadEmployees(g) \/ PutReadCategory(g) \/ HireInsert(g)
             \/ OpenBalance(g) \/ PutReadEmployees(g) \/ HireResume(g)
             \/ HireSaveAgain(g) \/ HireReadCategories(g) \/ HireOpenBalance(g) \/ Abort(g)
      PROVE  Goal
  <2>1. category' = category
    BY <1>2 DEF PostReadEmployees, PutReadCategory, HireInsert, OpenBalance,
       PutReadEmployees, HireResume, HireSaveAgain, HireReadCategories, HireOpenBalance, Abort
  <2>2. Frame({g})
    BY <1>2, PostReadDoes, PutReadDoes, HireInsertDoes, OpenDoes, PutEmployeesDoes,
       HireStepDoes, HireReadDoes, HireOpenDoes, AbortDoes
  <2>3. pc[g] # "hire_open" \/ pc'[g] # "done"
    <3>1. CASE \/ PostReadEmployees(g) \/ PutReadCategory(g) \/ HireInsert(g)
               \/ PutReadEmployees(g) \/ HireResume(g)
               \/ HireSaveAgain(g) \/ HireReadCategories(g)
      BY <3>1 DEF PostReadEmployees, PutReadCategory, HireInsert,
         PutReadEmployees, HireResume, HireSaveAgain, HireReadCategories, Goto
    <3>2. CASE OpenBalance(g) \/ HireOpenBalance(g)
      BY <3>2 DEF OpenBalance, HireOpenBalance
    <3>3. CASE Abort(g)
      BY <3>3, AbortDoes
    <3>4. QED
      BY <1>2, <3>1, <3>2, <3>3
  <2>4. QED
    BY <1>1, <2>1, <2>2, <2>3
<1>3. ASSUME NEW g \in Calls, PostSaveCategory(g) \/ PutSaveCategory(g) PROVE Goal
  <2>1. Frame({g}) /\ pc[g] # "hire_open"
    BY <1>3, SaveOneDoes
  <2>2. \A h \in Calls : pc[h] = "hire_open" /\ pc'[h] = "done" => Rewritten(h)
    BY <2>1 DEF Frame, Still
  <2>3. QED
    BY <1>3, <2>2, SaveOneReturns
<1>4. ASSUME NEW g \in Calls, HireSaveCategories(g) PROVE Goal
  <2>1. Frame({g})
    BY <1>4, HireSaveDoes
  <2>2. \A h \in Calls : pc[h] = "hire_open" /\ pc'[h] = "done" => h = g
    BY <2>1 DEF Frame, Still
  <2>3. QED
    BY <1>4, <2>2, HireRewrites
<1>5. ASSUME pc' = pc, DOMAIN category' \subseteq DOMAIN category PROVE Goal
  BY <1>5
<1>6. ASSUME NEW c \in Categories, DeleteCategory(c) PROVE Goal
  BY <1>5, <1>6, DeleteDoes DEF memory
<1>7. ASSUME NEW e \in Employees, ChangeEmployeeStatus(e) PROVE Goal
  BY <1>5, <1>7, StatusDoes DEF memory
<1>8. CASE UNCHANGED vars
  BY <1>5, <1>8 DEF vars, memory
<1>9. QED
  BY <1>2, <1>3, <1>4, <1>6, <1>7, <1>8 DEF Next, Post, Put, Hire

(* What another call did to a category is not undone: a hire writes back   *)
(* what is stored but for the newcomer's name, and a deleted category does *)
(* not come back, but for the calls the property names.                    *)
THEOREM CategoriesNothingIsUndone == Spec => NothingIsUndone
<1>1. IInv /\ [Next]_vars =>
        [/\ \A h \in Calls : pc[h] = "hire_open" /\ pc'[h] = "done" =>
               \/ category' = [c \in DOMAIN category |->
                       [category[c] EXCEPT !.ids =
                           IF category[c].everyone THEN @ \cup {call[h].emp} ELSE @]]
               \/ Crossed({{"hire"}, {"put", "hire"}, {"delete", "hire"},
                           {"post", "hire"}})
         /\ \A c \in DOMAIN category' \ DOMAIN category :
               \/ \E h \in Calls : pc[h] = "post_open" /\ call[h].cat = c
               \/ Crossed({{"delete", "put"}, {"delete", "hire"}})]_vars
  BY StepUndoesNothing DEF Rewritten, Returning
<1>2. QED
  BY <1>1, CategoriesInductive, PTL DEF Spec, NothingIsUndone

-----------------------------------------------------------------------------
(* Every step is one that LeaveRequests lets its environment take.         *)

(* The balance rows as LeaveRequests has them. *)
Opened == {b \in Calls \X Employees \X Categories : b[1] \in opened[<<b[2], b[3]>>]}
Balance == [b \in Opened |-> [emp |-> b[2], cat |-> b[3], total |-> {}, used |-> NoRows]]

Mapped == <<staff, DOMAIN category, unit, opened, edited>>

LEMMA InitRequests == Init => Requests!Init
<1> SUFFICES ASSUME Init PROVE Requests!Init
  OBVIOUS
<1>1. staff \in SUBSET Employees /\ unit \in [Categories -> {"DAYS", "HOURS"}]
  BY UnitsAssumption DEF Init
<1>2. DOMAIN category = {}
  BY DEF Init, NoRows, IsTable
<1>3. Balance = NoRows
  <2>1. Opened = {}
    BY DEF Init, Opened, Accounts
  <2>2. QED
    BY <2>1 DEF Balance, NoRows
<1>4. [a \in Accounts |-> IF a[2] \in edited THEN {"unitEdited"} ELSE {}] = [a \in Accounts |-> {}]
  BY DEF Init
<1>5. NoRows = [h \in {} |-> "idle"]
  BY DEF NoRows
<1>6. QED
  BY <1>1, <1>2, <1>3, <1>4, <1>5
     DEF Requests!Init, Requests!Units, Requests!NoRows, Requests!Accounts,
         NoRows, Accounts, Balance, Opened

LEMMA StutterRequests ==
    ASSUME UNCHANGED Mapped
    PROVE  UNCHANGED Requests!vars
<1>1. Balance' = Balance
  BY DEF Mapped, Balance, Opened
<1>2. QED
  BY <1>1 DEF Mapped, Requests!vars, Requests!tables, Balance, Opened

LEMMA StaffRequests ==
    ASSUME NEW e \in Employees, UNCHANGED <<DOMAIN category, unit, opened, edited>>,
           staff' = IF e \in staff THEN staff \ {e} ELSE staff \cup {e}
    PROVE  Requests!ChangeEmployeeStatus(e)
<1>1. Balance' = Balance
  BY DEF Balance, Opened
<1>2. QED
  BY <1>1 DEF Requests!ChangeEmployeeStatus, Requests!tables, Requests!NoBlame,
     Balance, Opened

LEMMA DeleteRequests ==
    ASSUME NEW c \in Categories, UNCHANGED <<staff, unit, opened, edited>>,
           DOMAIN category' = DOMAIN category \ {c}
    PROVE  Requests!DeleteCategory(c)
<1>1. Balance' = Balance
  BY DEF Balance, Opened
<1>2. QED
  BY <1>1 DEF Requests!DeleteCategory, Requests!tables, Requests!NoBlame,
     Balance, Opened

LEMMA OpenRequests ==
    ASSUME TypeOK, NEW h \in Calls, NEW n \in Employees, NEW d \in Categories,
           Inserts(n, d, h), UNCHANGED <<staff, category, unit, edited>>
    PROVE  Requests!OpenBalance(n, d) \/ UNCHANGED Requests!vars
<1>1. /\ opened \in [Accounts -> SUBSET Calls] /\ <<n, d>> \in Accounts
      /\ opened'[<<n, d>>] = opened[<<n, d>>] \cup {h}
      /\ \A e \in Employees, c \in Categories :
            (e = n /\ c = d) \/ opened'[<<e, c>>] = opened[<<e, c>>]
  <2>1. opened \in [Accounts -> SUBSET Calls] /\ <<n, d>> \in Accounts
    BY DEF TypeOK, Accounts
  <2>2. Inserts(n, d, h)
    OBVIOUS
  <2>3. /\ opened'[<<n, d>>] = opened[<<n, d>>] \cup {h}
        /\ \A e \in Employees, c \in Categories :
              (e = n /\ c = d) \/ opened'[<<e, c>>] = opened[<<e, c>>]
        /\ \A c \in Categories : c # d => Holders(c)' = Holders(c)
        /\ Holders(d)' = Holders(d) \cup {n}
    BY <2>2, OpensOne
  <2>4. QED
    BY <2>1, <2>3
<1>2. CASE h \in opened[<<n, d>>]
  <2>1. opened' = opened
    <3>1. opened[<<n, d>>] \cup {h} = opened[<<n, d>>]
      BY <1>2
    <3>2. QED
      BY <1>1, <3>1 DEF Inserts
  <2>2. QED
    BY <2>1, StutterRequests DEF Mapped
<1>3. CASE h \notin opened[<<n, d>>]
  <2> DEFINE b == <<h, n, d>>
             fresh == [emp |-> n, cat |-> d, total |-> {}, used |-> NoRows]
  <2>1. b \in Calls \X Employees \X Categories
    OBVIOUS
  <2>2. b \notin Opened
    BY <1>3 DEF Opened
  <2>3. Opened' = Opened \cup {b}
    <3>1. ASSUME NEW x \in Calls, NEW e \in Employees, NEW c \in Categories
          PROVE  x \in opened'[<<e, c>>] <=> x \in opened[<<e, c>>] \/ <<x, e, c>> = b
      BY <1>1
    <3>2. ASSUME NEW t \in Calls \X Employees \X Categories
          PROVE  t \in Opened' <=> t \in Opened \/ t = b
      <4>1. t[1] \in Calls /\ t[2] \in Employees /\ t[3] \in Categories
            /\ t = <<t[1], t[2], t[3]>>
        OBVIOUS
      <4>2. /\ t \in Opened' <=> t[1] \in opened'[<<t[2], t[3]>>]
            /\ t \in Opened <=> t[1] \in opened[<<t[2], t[3]>>]
        BY DEF Opened
      <4>3. QED
        BY <3>1, <4>1, <4>2
    <3>3. Opened' \subseteq Calls \X Employees \X Categories
          /\ Opened \subseteq Calls \X Employees \X Categories
      BY DEF Opened
    <3>4. QED
      BY <2>1, <3>2, <3>3
  <2>4. Balance' = [x \in Opened \cup {b} |-> IF x = b THEN fresh ELSE Balance[x]]
    <3>1. /\ Balance' = [x \in Opened' |-> [emp |-> x[2], cat |-> x[3], total |-> {}, used |-> NoRows]]
          /\ \A x \in Opened :
                Balance[x] = [emp |-> x[2], cat |-> x[3], total |-> {}, used |-> NoRows]
      BY DEF Balance, NoRows
    <3>2. b[2] = n /\ b[3] = d
      OBVIOUS
    <3>3. \A x \in Opened \cup {b} :
             [emp |-> x[2], cat |-> x[3], total |-> {}, used |-> NoRows]
               = IF x = b THEN fresh ELSE Balance[x]
      BY <2>2, <3>1, <3>2
    <3>4. QED
      BY <2>3, <3>1, <3>3
  <2>5. DOMAIN Balance = Opened
    BY DEF Balance
  <2>6. Requests!Fresh(n, d) = fresh
    BY DEF Requests!Fresh, NoRows
  <2>7. Balance' = Requests!Save(Balance, b, Requests!Fresh(n, d))
    BY <2>4, <2>5, <2>6 DEF Requests!Save
  <2>8. Requests!OpenBalance(n, d)
    BY <2>1, <2>2, <2>5, <2>7 DEF Requests!OpenBalance, Requests!NoBlame, Balance, Opened
  <2>9. QED
    BY <2>8
<1>4. QED
  BY <1>2, <1>3

LEMMA SaveRequests ==
    ASSUME TypeOK, NEW rows \in Table, SaveCategories(rows), UNCHANGED <<staff, opened>>
    PROVE  \E cs \in SUBSET Categories : \E timeUnit \in [cs -> Requests!Units] :
             Requests!SaveCategories(timeUnit)
<1>1. IsTable(rows, Categories, Assignees)
  BY Tables
<1>2. DOMAIN rows \subseteq Categories /\ \A c \in DOMAIN rows : rows[c].unit \in {"DAYS", "HOURS"}
  BY <1>1, UnitsAssumption DEF IsTable, Assignees
<1>3. PICK timeUnit \in [DOMAIN rows -> Requests!Units] :
         timeUnit = [c \in DOMAIN rows |-> rows[c].unit]
  BY <1>2 DEF Requests!Units
<1>4. DOMAIN timeUnit = DOMAIN rows /\ \A c \in DOMAIN rows : timeUnit[c] = rows[c].unit
  BY <1>3
<1>5. Balance' = Balance
  BY DEF Balance, Opened
<1>6. DOMAIN category' = DOMAIN category \cup DOMAIN timeUnit
  BY <1>4 DEF SaveCategories
<1>7. unit' = [c \in Categories |-> IF c \in DOMAIN timeUnit THEN timeUnit[c] ELSE unit[c]]
  BY <1>4 DEF SaveCategories
<1>8. edited' = edited \cup {c \in DOMAIN timeUnit : timeUnit[c] # unit[c]}
  BY <1>4 DEF SaveCategories
<1>9. [a \in Accounts |-> IF a[2] \in edited' THEN {"unitEdited"} ELSE {}] =
        [a \in Accounts |->
           IF a \in Employees \X {c \in DOMAIN timeUnit : timeUnit[c] # unit[c]}
           THEN [x \in Accounts |-> IF x[2] \in edited THEN {"unitEdited"} ELSE {}][a]
                  \cup {"unitEdited"}
           ELSE [x \in Accounts |-> IF x[2] \in edited THEN {"unitEdited"} ELSE {}][a]]
  BY <1>8 DEF Accounts
<1>10. Requests!SaveCategories(timeUnit)
  BY <1>5, <1>6, <1>7, <1>9
     DEF Requests!SaveCategories, Requests!Blame, Requests!tables, Requests!Accounts,
         Accounts, Balance, Opened
<1>11. QED
  BY <1>2, <1>10

LEMMA NextRequests ==
    ASSUME TypeOK, CallsInv, [Next]_vars
    PROVE  [Requests!Next]_(Requests!vars)
<1> DEFINE Goal == Requests!Next \/ UNCHANGED Requests!vars
<1>1. ASSUME UNCHANGED Mapped PROVE Goal
  BY <1>1, StutterRequests
<1>2. ASSUME NEW e \in Employees, UNCHANGED <<category, unit, opened, edited>>,
             staff' = staff \cup {e}
      PROVE  Goal
  <2>1. CASE e \in staff
    <3>1. UNCHANGED Mapped
      BY <1>2, <2>1 DEF Mapped
    <3>2. QED
      BY <1>1, <3>1
  <2>2. CASE e \notin staff
    <3>1. Requests!ChangeEmployeeStatus(e)
      BY <1>2, <2>2, StaffRequests
    <3>2. QED
      BY <1>2, <3>1 DEF Requests!Next
  <2>3. QED
    BY <2>1, <2>2
<1>3. ASSUME NEW h \in Calls, PostReadEmployees(h) \/ PutReadCategory(h) PROVE Goal
  BY <1>1, <1>3 DEF PostReadEmployees, PutReadCategory, Mapped
<1>4. ASSUME NEW h \in Calls,
             PutReadEmployees(h) \/ HireResume(h) \/ HireReadCategories(h) \/ Abort(h)
      PROVE  Goal
  BY <1>1, <1>4 DEF PutReadEmployees, HireResume, HireReadCategories, Abort, ghosts, Mapped
<1>5. ASSUME NEW h \in Calls, HireInsert(h) PROVE Goal
  BY <1>2, <1>5 DEF HireInsert
<1>6. ASSUME NEW h \in Calls, HireSaveAgain(h) PROVE Goal
  <2>1. call[h].emp \in Employees
    BY <1>6, HireStepDoes
  <2>2. QED
    BY <1>2, <1>6, <2>1 DEF HireSaveAgain, ghosts
<1>7. ASSUME NEW h \in Calls, NEW n \in Employees, NEW d \in Categories, Inserts(n, d, h),
             UNCHANGED <<staff, category, unit, edited>>
      PROVE  Goal
  <2>1. Requests!OpenBalance(n, d) \/ UNCHANGED Requests!vars
    BY <1>7, OpenRequests
  <2>2. QED
    BY <1>7, <2>1 DEF Requests!Next, Requests!Categorise
<1>8. ASSUME NEW h \in Calls, OpenBalance(h) PROVE Goal
  <2>1. PICK n \in todo[h] :
          /\ n \in Hired /\ call[h].cat \in Categories
          /\ opened' = [opened EXCEPT ![<<n, call[h].cat>>] = @ \cup {h}]
    BY <1>8, OpenDoes
  <2>2. n \in Employees /\ Inserts(n, call[h].cat, h)
    BY <2>1, HiredEmployees DEF Inserts
  <2>3. UNCHANGED <<staff, category, unit, edited>>
    BY <1>8 DEF OpenBalance, ghosts
  <2>4. QED
    BY <1>7, <1>8, <2>1, <2>2, <2>3
<1>9. ASSUME NEW h \in Calls, HireOpenBalance(h) PROVE Goal
  <2>1. PICK d \in todo[h] :
          /\ savedEmployee \in Employees /\ d \in Categories
          /\ opened' = [opened EXCEPT ![<<savedEmployee, d>>] = @ \cup {h}]
    <3>1. PICK d \in todo[h] : HireOpens(h, d)
      BY <1>9, HireOpenDoes
    <3>2. QED
      BY <3>1 DEF HireOpens
  <2>2. Inserts(savedEmployee, d, h)
    BY <2>1 DEF Inserts
  <2>3. UNCHANGED <<staff, category, unit, edited>>
    BY <1>9 DEF HireOpenBalance, ghosts
  <2>4. QED
    BY <1>7, <1>9, <2>1, <2>2, <2>3
<1>10. ASSUME NEW h \in Calls,
              PostSaveCategory(h) \/ PutSaveCategory(h) \/ HireSaveCategories(h)
       PROVE  Goal
  <2>1. PICK rows \in Table : SaveCategories(rows) /\ UNCHANGED <<staff, opened>>
    BY <1>10, SaveOneDoes, HireSaveDoes
  <2>2. \E cs \in SUBSET Categories : \E timeUnit \in [cs -> Requests!Units] :
          Requests!SaveCategories(timeUnit)
    BY <2>1, SaveRequests
  <2>3. QED
    BY <2>2 DEF Requests!Next, Requests!Categorise
<1>11. ASSUME NEW c \in Categories, DeleteCategory(c) PROVE Goal
  <2>1. Requests!DeleteCategory(c)
    BY <1>11, DeleteDoes, DeleteRequests
  <2>2. QED
    BY <1>11, <2>1 DEF Requests!Next, Requests!Categorise
<1>12. ASSUME NEW e \in Employees, ChangeEmployeeStatus(e) PROVE Goal
  <2>1. Requests!ChangeEmployeeStatus(e)
    BY <1>12, StaffRequests DEF ChangeEmployeeStatus
  <2>2. QED
    BY <1>12, <2>1 DEF Requests!Next
<1>13. CASE UNCHANGED vars
  BY <1>1, <1>13 DEF vars, ghosts, Mapped
<1>14. QED
  BY <1>3, <1>4, <1>5, <1>6, <1>8, <1>9, <1>10, <1>11, <1>12, <1>13
     DEF Next, Post, Put, Hire

(* The category and hiring handlers are the environment that LeaveRequests *)
(* allows for: each of their steps is one of its single statements, or     *)
(* changes nothing it sees.                                                *)
THEOREM CategoriesAreEnvironment == Spec => IsEnvironmentOfRequests
<1>1. Init => Requests!Init
  BY InitRequests
<1>2. IInv /\ [Next]_vars => [Requests!Next]_(Requests!vars)
  BY NextRequests DEF IInv
<1>3. QED
  BY <1>1, <1>2, CategoriesInductive, PTL DEF Spec, IsEnvironmentOfRequests, Requests!Spec
=============================================================================
