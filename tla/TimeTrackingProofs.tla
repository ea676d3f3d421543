-------------------------- MODULE TimeTrackingProofs --------------------------
(***************************************************************************)
(* Proofs about TimeTracking: about TimeProjects, for every number of      *)
(* projects, tasks, employees and calls, and about EntryTimer, that        *)
(* addTime adds and the duration of an entry is the time worked, whatever  *)
(* the instants, the zones, the durations and the number of calls.         *)
(***************************************************************************)
EXTENDS TimeTracking, TLAPS

-----------------------------------------------------------------------------
(* What a call and what it has read are. *)
LEMMA CallFields ==
    ASSUME TypeOK, NEW h \in DOMAIN call
    PROVE  /\ h \in Calls /\ call[h] \in Call
           /\ call[h].op = "putProject" => call[h].project \in Projects
           /\ call[h].op = "deleteProject" => call[h].project \in Projects
           /\ call[h].op \in Methods => /\ call[h].project \in Projects
                                        /\ call[h].task \in Tasks
                                        /\ call[h].emp \in Employees
           /\ call[h].op = "postEntry" => call[h].data \in EntryRow
           /\ call[h].op = "putEntry" => call[h].id \in Calls
<1>1. h \in Calls /\ call[h] \in Call
  BY DEF TypeOK, IsTable
<1>2. QED
  BY <1>1 DEF Call, Methods

LEMMA ProjectFields ==
    ASSUME TypeOK, NEW p \in DOMAIN project
    PROVE  /\ p \in Projects /\ project[p] \in ProjectRow
           /\ project[p].tasks \subseteq Tasks /\ project[p].members \subseteq Employees
  BY DEF TypeOK, IsTable, ProjectRow

LEMMA EntryFields ==
    ASSUME TypeOK, NEW n \in DOMAIN entry
    PROVE  n \in Calls /\ entry[n] \in EntryRow
  BY DEF TypeOK, IsTable

(* A call that is to save a project has a row of it; one that is to save   *)
(* an entry a row of that.                                                 *)
LEMMA Places ==
    ASSUME TypeOK, CallsInv, NEW h \in Calls
    PROVE  /\ pc[h] \in InFlight => h \in DOMAIN call /\ h \in Busy
           /\ pc[h] \in ProjectSteps =>
                /\ h \in DOMAIN copy /\ copy[h] \in ProjectRow
                /\ call[h].op \in WritesProject
                /\ call[h].project \in Projects /\ call[h].project \in posted
           /\ pc[h] = "common_save" => h \in DOMAIN entries /\ entries[h] \subseteq EntryRow
           /\ pc[h] \in {"common_entries", "common_save"} => call[h].op \in Methods
           /\ pc[h] = "delete_act" => /\ call[h].op = "deleteProject"
                                      /\ call[h].project \in Projects
           /\ pc[h] = "entry_save" => call[h].op = "postEntry" /\ call[h].data \in EntryRow
           /\ pc[h] = "entry_update" => /\ call[h].op = "putEntry" /\ call[h].id \in Calls
                                        /\ h \in DOMAIN copy /\ copy[h] \in EntryRow
<1>1. ASSUME pc[h] \in InFlight PROVE h \in DOMAIN call /\ h \in Busy /\ Placed(h)
  BY <1>1 DEF CallsInv, Busy, InFlight
<1>2. ASSUME h \in DOMAIN entries PROVE entries[h] \subseteq EntryRow
  BY <1>2 DEF TypeOK, IsTable
<1>3. ProjectSteps \subseteq InFlight
  BY DEF ProjectSteps, InFlight
<1>4. ASSUME pc[h] \in ProjectSteps
      PROVE  /\ h \in DOMAIN copy /\ copy[h] \in ProjectRow
             /\ call[h].op = "putProject" \/ call[h].op \in Methods
             /\ call[h].project \in posted
  BY <1>1, <1>3, <1>4 DEF Placed, ProjectSteps
<1>5. pc[h] \in {"common_save", "common_entries", "delete_act", "entry_save", "entry_update"}
        => pc[h] \in InFlight
  BY DEF InFlight
<1>6. QED
  BY <1>1, <1>2, <1>3, <1>4, <1>5, CallFields DEF Placed, WritesProject

-----------------------------------------------------------------------------
(* A step moves the calls of H, one at most: the others stay as they are,  *)
(* and nothing is forgotten that was recorded.                             *)
Frame(H) ==
    /\ H \subseteq Calls /\ \A g, h \in H : g = h
    /\ \A g \in Calls \ H :
         /\ pc'[g] = pc[g]
         /\ g \in DOMAIN call' <=> g \in DOMAIN call
         /\ g \in DOMAIN call => call'[g] = call[g]
         /\ g \in DOMAIN copy => g \in DOMAIN copy' /\ copy'[g] = copy[g]
         /\ g \in DOMAIN entries => g \in DOMAIN entries' /\ entries'[g] = entries[g]
    /\ DOMAIN call' \subseteq Calls
    /\ posted \subseteq posted' /\ outdated \subseteq outdated' /\ crossed \subseteq crossed'

LEMMA BeginDoes ==
    ASSUME TypeOK, CallsInv, NEW h \in Calls, NEW c \in Call, NEW to \in Steps,
           Begin(h, c), Goto(h, "idle", to)
    PROVE  /\ pc' \in [Calls -> Steps] /\ pc'[h] = to
           /\ \A g \in Calls : g # h => pc'[g] = pc[g]
           /\ h \notin DOMAIN call /\ DOMAIN call' = DOMAIN call \cup {h} /\ call'[h] = c
           /\ \A g \in DOMAIN call : g # h /\ call'[g] = call[g]
           /\ IsTable(call', Calls, Call)
           /\ crossed \subseteq crossed'
           /\ \A g \in Busy : {c.op, call[g].op} \in crossed'
<1>1. pc[h] = "idle" /\ pc' = [pc EXCEPT ![h] = to] /\ pc \in [Calls -> Steps]
  BY DEF Goto, TypeOK
<1>2. h \notin DOMAIN call
  BY <1>1 DEF CallsInv
<1>3. call' = Save(call, h, c) /\ crossed' = crossed \cup {{c.op, call[g].op} : g \in Busy}
  BY DEF Begin
<1>4. IsTable(call', Calls, Call)
  BY <1>3 DEF TypeOK, Save, IsTable
<1>5. DOMAIN call' = DOMAIN call \cup {h} /\ call'[h] = c
      /\ \A g \in DOMAIN call : g # h => call'[g] = call[g]
  BY <1>3 DEF Save
<1>6. QED
  BY <1>1, <1>2, <1>3, <1>4, <1>5

LEMMA GotoDoes ==
    ASSUME TypeOK, NEW h \in Calls, NEW from, NEW to \in Steps, Goto(h, from, to)
    PROVE  /\ pc[h] = from /\ pc' \in [Calls -> Steps] /\ pc'[h] = to
           /\ \A g \in Calls : g # h => pc'[g] = pc[g]
  BY DEF Goto, TypeOK

-----------------------------------------------------------------------------
(* Calls stay in their place if the one that moves does. *)

LEMMA CallsStay ==
    ASSUME CallsInv, NEW H, Frame(H),
           DOMAIN project' \subseteq posted',
           \A h \in H : pc'[h] = "idle" <=> h \notin DOMAIN call',
           \A h \in H : h \in DOMAIN call' => Placed(h)',
           \A h \in H : \A g \in Busy :
              h \in Busy' /\ g # h => {call'[h].op, call[g].op} \in crossed'
    PROVE  CallsInv'
<1>1. \A g \in Calls : pc'[g] = "idle" <=> g \notin DOMAIN call'
  BY DEF CallsInv, Frame
<1>2. ASSUME NEW g \in DOMAIN call', g \notin H PROVE Placed(g)'
  <2>1. g \in Calls /\ g \in DOMAIN call /\ Placed(g)
    BY <1>2 DEF CallsInv, Frame
  <2>2. /\ pc'[g] = pc[g] /\ call'[g] = call[g]
        /\ g \in DOMAIN copy => g \in DOMAIN copy' /\ copy'[g] = copy[g]
        /\ g \in DOMAIN entries => g \in DOMAIN entries'
        /\ posted \subseteq posted'
    BY <1>2, <2>1 DEF Frame
  <2>3. QED
    BY <2>1, <2>2 DEF Placed
<1>3. ASSUME NEW g \in Busy', g \notin H
      PROVE  g \in Busy /\ call'[g] = call[g]
  BY <1>3 DEF Busy, Frame
<1>4. ASSUME NEW g \in Busy', NEW h \in Busy', g # h
      PROVE  {call'[g].op, call'[h].op} \in crossed'
  <2>1. crossed \subseteq crossed' /\ \A x, y \in H : x = y
    BY DEF Frame
  <2>2. CASE g \notin H /\ h \notin H
    BY <1>3, <1>4, <2>1, <2>2 DEF CallsInv
  <2>3. CASE h \in H
    <3>1. g \notin H
      BY <1>4, <2>1, <2>3
    <3>2. g \in Busy /\ call'[g] = call[g]
      BY <1>3, <3>1
    <3>3. {call'[h].op, call[g].op} \in crossed'
      BY <1>4, <2>3, <3>2
    <3>4. {call'[h].op, call[g].op} = {call'[g].op, call'[h].op}
      BY <3>2
    <3>5. QED
      BY <3>3, <3>4
  <2>4. CASE g \in H
    <3>1. h \notin H
      BY <1>4, <2>1, <2>4
    <3>2. h \in Busy /\ call'[h] = call[h]
      BY <1>3, <3>1
    <3>3. QED
      BY <1>4, <2>4, <3>2
  <2>5. QED
    BY <2>2, <2>3, <2>4
<1>5. QED
  BY <1>1, <1>2, <1>4 DEF CallsInv

LEMMA BeginCalls ==
    ASSUME TypeOK, CallsInv, NEW h \in Calls, NEW c \in Call, NEW to \in Steps \ {"idle"},
           Begin(h, c), Goto(h, "idle", to), Frame({h}), Placed(h)',
           DOMAIN project' \subseteq posted'
    PROVE  CallsInv'
<1>1. /\ pc'[h] = to /\ call'[h] = c /\ h \in DOMAIN call' /\ DOMAIN call' \subseteq Calls
      /\ \A g \in Busy : {c.op, call[g].op} \in crossed'
  <2>1. to \in Steps
    OBVIOUS
  <2>2. QED
    BY <2>1, BeginDoes DEF IsTable
<1>2. QED
  BY <1>1, CallsStay

LEMMA MoveCalls ==
    ASSUME TypeOK, CallsInv, NEW h \in Calls, pc[h] \in InFlight, call' = call, Frame({h}),
           pc'[h] # "idle", Placed(h)', DOMAIN project' \subseteq posted'
    PROVE  CallsInv'
<1>1. h \in Busy /\ h \in DOMAIN call /\ DOMAIN call \subseteq Calls
  BY Places DEF TypeOK, IsTable
<1>2. \A g \in Busy : g # h => {call'[h].op, call[g].op} \in crossed'
  BY <1>1 DEF CallsInv, Frame
<1>3. QED
  BY <1>1, <1>2, CallsStay

LEMMA QuietCalls ==
    ASSUME TypeOK, CallsInv, Frame({}), call' = call, DOMAIN project' \subseteq posted'
    PROVE  CallsInv'
  BY CallsStay

(* The frames of steps that move a call: it begins, or goes on. *)
LEMMA BeginFrame ==
    ASSUME TypeOK, CallsInv, NEW h \in Calls, NEW c \in Call, NEW to \in Steps,
           Begin(h, c), Goto(h, "idle", to), entries' = entries,
           \A g \in DOMAIN copy : g # h => g \in DOMAIN copy' /\ copy'[g] = copy[g],
           posted \subseteq posted', outdated \subseteq outdated'
    PROVE  Frame({h})
  BY BeginDoes DEF Frame, IsTable

LEMMA MoveFrame ==
    ASSUME TypeOK, NEW h \in Calls, NEW from, NEW to \in Steps, Goto(h, from, to),
           UNCHANGED <<call, copy, posted, outdated, crossed>>,
           \A g \in DOMAIN entries : g # h => g \in DOMAIN entries' /\ entries'[g] = entries[g]
    PROVE  Frame({h})
<1>1. DOMAIN call' \subseteq Calls
  BY DEF TypeOK, IsTable
<1>2. QED
  BY <1>1, GotoDoes DEF Frame

LEMMA QuietFrame ==
    ASSUME TypeOK, UNCHANGED <<pc, call, copy, entries, crossed>>,
           posted \subseteq posted', outdated \subseteq outdated'
    PROVE  Frame({})
  BY DEF Frame, TypeOK, IsTable

-----------------------------------------------------------------------------
(* What each action does, in types and to the calls.                       *)

LEMMA PutReadProjectDoes ==
    ASSUME TypeOK, CallsInv, NEW h \in Calls, PutReadProject(h)
    PROVE  /\ TypeOK' /\ CallsInv' /\ Frame({h}) /\ UNCHANGED <<project, entry, outdated>>
           /\ h \notin DOMAIN call /\ h \in DOMAIN call' /\ pc'[h] = "project_entries"
           /\ call'[h].project \in DOMAIN project
           /\ copy'[h].tasks = project[call'[h].project].tasks
<1>1. PICK p \in DOMAIN project, ms \in SUBSET Employees :
         /\ Begin(h, [op |-> "putProject", project |-> p, members |-> ms])
         /\ copy' = Save(copy, h, [project[p] EXCEPT !.members = ms])
  BY DEF PutReadProject
<1> DEFINE c == [op |-> "putProject", project |-> p, members |-> ms]
           r == [project[p] EXCEPT !.members = ms]
<1>2. /\ p \in Projects /\ project[p] \in ProjectRow
      /\ r \in ProjectRow /\ r.tasks = project[p].tasks
  BY <1>1, ProjectFields DEF ProjectRow
<1>3. c \in Call
  BY <1>1, <1>2 DEF Call
<1>4. "project_entries" \in Steps \ {"idle"}
  BY DEF Steps, InFlight
<1>5. Goto(h, "idle", "project_entries") /\ Begin(h, c)
  BY <1>1 DEF PutReadProject
<1>6. /\ pc' \in [Calls -> Steps] /\ pc'[h] = "project_entries"
      /\ h \notin DOMAIN call /\ h \in DOMAIN call' /\ call'[h] = c
      /\ IsTable(call', Calls, Call)
  BY <1>3, <1>4, <1>5, BeginDoes
<1>7. /\ IsTable(copy', Calls, ProjectRow \cup EntryRow)
      /\ h \in DOMAIN copy' /\ copy'[h] = r
      /\ \A g \in DOMAIN copy : g # h => g \in DOMAIN copy' /\ copy'[g] = copy[g]
  <2>1. IsTable(copy, Calls, ProjectRow \cup EntryRow) /\ r \in ProjectRow \cup EntryRow
    BY <1>2 DEF TypeOK
  <2>2. copy' = Save(copy, h, r)
    BY <1>1
  <2>3. IsTable(copy', Calls, ProjectRow \cup EntryRow)
    BY <2>1, <2>2 DEF Save, IsTable
  <2>4. QED
    BY <2>2, <2>3 DEF Save
<1>8. UNCHANGED <<project, entry, entries, held, posted, outdated>>
  BY DEF PutReadProject
<1>9. TypeOK'
  BY <1>6, <1>7, <1>8 DEF TypeOK
<1>10. Frame({h})
  BY <1>3, <1>4, <1>5, <1>7, <1>8, BeginFrame
<1>11. Placed(h)' /\ DOMAIN project' \subseteq posted'
  BY <1>1, <1>2, <1>6, <1>7, <1>8 DEF Placed, CallsInv, ProjectSteps
<1>12. CallsInv'
  BY <1>3, <1>4, <1>5, <1>10, <1>11, BeginCalls
<1>13. call'[h].project = p
  BY <1>6
<1>14. QED
  BY <1>1, <1>2, <1>6, <1>7, <1>8, <1>9, <1>10, <1>12, <1>13

LEMMA CommonReadProjectDoes ==
    ASSUME TypeOK, CallsInv, NEW h \in Calls, CommonReadProject(h)
    PROVE  /\ TypeOK' /\ CallsInv' /\ Frame({h}) /\ UNCHANGED <<project, entry, outdated>>
           /\ h \notin DOMAIN call /\ h \in DOMAIN call' /\ pc'[h] = "common_entries"
           /\ call'[h].project \in DOMAIN project
           /\ copy'[h].tasks = project[call'[h].project].tasks
<1>1. PICK p \in DOMAIN project, m \in Methods, t \in Tasks, e \in Employees :
         /\ m \in {"removeTask", "editTask"} => t \in project[p].tasks
         /\ Begin(h, [op |-> m, project |-> p, task |-> t, emp |-> e])
         /\ copy' = Save(copy, h, project[p])
         /\ posted' = posted \cup (IF m = "addTask" THEN {t} ELSE {})
  BY DEF CommonReadProject
<1> DEFINE c == [op |-> m, project |-> p, task |-> t, emp |-> e]
<1>2. p \in Projects /\ project[p] \in ProjectRow
  BY <1>1, ProjectFields
<1>3. c \in Call
  BY <1>1, <1>2 DEF Call
<1>4. "common_entries" \in Steps \ {"idle"}
  BY DEF Steps, InFlight
<1>5. Goto(h, "idle", "common_entries") /\ Begin(h, c)
  BY <1>1 DEF CommonReadProject
<1>6. /\ pc' \in [Calls -> Steps] /\ pc'[h] = "common_entries"
      /\ h \notin DOMAIN call /\ h \in DOMAIN call' /\ call'[h] = c
      /\ IsTable(call', Calls, Call)
  BY <1>3, <1>4, <1>5, BeginDoes
<1>7. /\ IsTable(copy', Calls, ProjectRow \cup EntryRow)
      /\ h \in DOMAIN copy' /\ copy'[h] = project[p]
      /\ \A g \in DOMAIN copy : g # h => g \in DOMAIN copy' /\ copy'[g] = copy[g]
  <2>1. IsTable(copy, Calls, ProjectRow \cup EntryRow) /\ project[p] \in ProjectRow \cup EntryRow
    BY <1>2 DEF TypeOK
  <2>2. copy' = Save(copy, h, project[p])
    BY <1>1
  <2>3. IsTable(copy', Calls, ProjectRow \cup EntryRow)
    BY <2>1, <2>2 DEF Save, IsTable
  <2>4. QED
    BY <2>2, <2>3 DEF Save
<1>8. UNCHANGED <<project, entry, entries, held, outdated>>
  BY DEF CommonReadProject
<1>9. posted \subseteq posted' /\ posted' \subseteq Projects \cup Tasks
  BY <1>1 DEF TypeOK
<1>10. TypeOK'
  BY <1>6, <1>7, <1>8, <1>9 DEF TypeOK
<1>11. Frame({h})
  BY <1>3, <1>4, <1>5, <1>7, <1>8, <1>9, BeginFrame
<1>12. Placed(h)' /\ DOMAIN project' \subseteq posted'
  <2>1. p \in posted' /\ DOMAIN project' \subseteq posted'
    BY <1>1, <1>8, <1>9 DEF CallsInv
  <2>2. c.op = "editTask" => c.task \in copy'[h].tasks
    BY <1>1, <1>7
  <2>3. QED
    BY <1>1, <1>2, <1>6, <1>7, <2>1, <2>2 DEF Placed, ProjectSteps
<1>13. CallsInv'
  BY <1>3, <1>4, <1>5, <1>11, <1>12, BeginCalls
<1>14. QED
  BY <1>1, <1>2, <1>6, <1>7, <1>8, <1>10, <1>11, <1>13

LEMMA PutReadEntriesDoes ==
    ASSUME TypeOK, CallsInv, NEW h \in Calls, PutReadEntries(h)
    PROVE  /\ TypeOK' /\ CallsInv' /\ Frame({h})
           /\ pc[h] = "project_entries" /\ pc'[h] = "project_save"
<1>1. /\ "project_save" \in Steps /\ "project_entries" \in InFlight
  BY DEF Steps, InFlight
<1>2. Goto(h, "project_entries", "project_save")
  BY DEF PutReadEntries
<1>3. /\ pc[h] = "project_entries" /\ pc' \in [Calls -> Steps] /\ pc'[h] = "project_save"
  BY <1>1, <1>2, GotoDoes
<1>4. UNCHANGED <<project, entry, call, copy, entries, held, posted, outdated, crossed>>
  BY DEF PutReadEntries
<1>5. TypeOK'
  BY <1>3, <1>4 DEF TypeOK
<1>6. Frame({h})
  BY <1>1, <1>2, <1>4, MoveFrame
<1>7. Placed(h)' /\ DOMAIN project' \subseteq posted'
  <2>1. h \in DOMAIN call /\ Placed(h)
    BY <1>1, <1>3, Places DEF CallsInv
  <2>2. QED
    BY <1>3, <1>4, <2>1 DEF Placed, ProjectSteps, CallsInv
<1>8. CallsInv'
  BY <1>1, <1>3, <1>4, <1>6, <1>7, MoveCalls
<1>9. QED
  BY <1>3, <1>5, <1>6, <1>8

LEMMA PutSaveProjectDoes ==
    ASSUME TypeOK, CallsInv, NEW h \in Calls, PutSaveProject(h)
    PROVE  /\ TypeOK' /\ CallsInv' /\ Frame({h})
           /\ pc[h] = "project_save" /\ pc'[h] = "done"
           /\ DOMAIN project' = DOMAIN project \cup {call[h].project}
           /\ project'[call[h].project] = copy[h]
           /\ \A p \in DOMAIN project : p # call[h].project => project'[p] = project[p]
<1>1. "done" \in Steps /\ "project_save" \in InFlight /\ "project_save" \in ProjectSteps
  BY DEF Steps, InFlight, ProjectSteps
<1>2. Goto(h, "project_save", "done") /\ project' = Save(project, call[h].project, copy[h])
  BY DEF PutSaveProject
<1>3. /\ pc[h] = "project_save" /\ pc' \in [Calls -> Steps] /\ pc'[h] = "done"
  BY <1>1, <1>2, GotoDoes
<1>4. UNCHANGED <<entry, call, copy, entries, held, posted, outdated, crossed>>
  BY DEF PutSaveProject
<1>5. /\ copy[h] \in ProjectRow /\ call[h].project \in Projects /\ call[h].project \in posted
  BY <1>1, <1>3, Places
<1>6. /\ IsTable(project', Projects, ProjectRow)
      /\ DOMAIN project' = DOMAIN project \cup {call[h].project}
      /\ project'[call[h].project] = copy[h]
      /\ \A p \in DOMAIN project : p # call[h].project => project'[p] = project[p]
  <2>1. IsTable(project', Projects, ProjectRow)
    BY <1>2, <1>5 DEF TypeOK, Save, IsTable
  <2>2. QED
    BY <1>2, <2>1 DEF Save
<1>7. TypeOK'
  BY <1>3, <1>4, <1>6 DEF TypeOK
<1>8. Frame({h})
  BY <1>1, <1>2, <1>4, MoveFrame
<1>9. Placed(h)' /\ DOMAIN project' \subseteq posted'
  BY <1>3, <1>4, <1>5, <1>6 DEF Placed, ProjectSteps, CallsInv
<1>10. CallsInv'
  BY <1>1, <1>3, <1>4, <1>8, <1>9, MoveCalls
<1>11. QED
  BY <1>3, <1>6, <1>7, <1>8, <1>10

(* What a change to a project saves: no task goes but the one to be        *)
(* removed, and that only if no entry names it.                            *)
LEMMA AmendedDoes ==
    ASSUME TypeOK, CallsInv, NEW h \in Calls, pc[h] = "common_save"
    PROVE  /\ Amended(h) \in ProjectRow
           /\ call[h].op \notin {"addTask", "removeTask"} => Amended(h).tasks = copy[h].tasks
           /\ \A t \in copy[h].tasks :
                \/ t \in Amended(h).tasks
                \/ call[h].op = "removeTask" /\ call[h].task = t /\ ~Refused(h)
<1>1. /\ h \in DOMAIN call /\ copy[h] \in ProjectRow /\ call[h].op \in Methods
      /\ call[h].task \in Tasks /\ call[h].emp \in Employees
      /\ call[h].op = "editTask" => call[h].task \in copy[h].tasks
  BY Places, CallFields DEF InFlight, ProjectSteps, CallsInv, Placed
<1>2. CASE Refused(h)
  BY <1>1, <1>2 DEF Amended
<1>3. CASE ~Refused(h) /\ call[h].op = "addTask"
  BY <1>1, <1>3 DEF Amended, ProjectRow
<1>4. CASE ~Refused(h) /\ call[h].op = "editTask"
  BY <1>1, <1>4 DEF Amended, ProjectRow
<1>5. CASE ~Refused(h) /\ call[h].op = "removeTask"
  BY <1>1, <1>5 DEF Amended, ProjectRow
<1>6. CASE ~Refused(h) /\ call[h].op = "addMember"
  BY <1>1, <1>6 DEF Amended, ProjectRow
<1>7. CASE ~Refused(h) /\ call[h].op = "removeMember"
  BY <1>1, <1>7 DEF Amended, ProjectRow
<1>8. QED
  BY <1>1, <1>2, <1>3, <1>4, <1>5, <1>6, <1>7 DEF Methods

LEMMA CommonReadEntriesDoes ==
    ASSUME TypeOK, CallsInv, NEW h \in Calls, CommonReadEntries(h)
    PROVE  /\ TypeOK' /\ CallsInv' /\ Frame({h})
           /\ UNCHANGED <<project, entry, call, copy, outdated>>
           /\ pc[h] = "common_entries" /\ pc'[h] = "common_save"
           /\ entries'[h] = {entry[n] : n \in DOMAIN entry}
<1>1. "common_save" \in Steps /\ "common_entries" \in InFlight
  BY DEF Steps, InFlight
<1>2. Goto(h, "common_entries", "common_save")
  BY DEF CommonReadEntries
<1>3. /\ pc[h] = "common_entries" /\ pc' \in [Calls -> Steps] /\ pc'[h] = "common_save"
  BY <1>1, <1>2, GotoDoes
<1>4. UNCHANGED <<project, entry, call, copy, held, posted, outdated, crossed>>
  BY DEF CommonReadEntries
<1>5. {entry[n] : n \in DOMAIN entry} \in SUBSET EntryRow
  BY EntryFields
<1>6. /\ IsTable(entries', Calls, SUBSET EntryRow)
      /\ h \in DOMAIN entries' /\ entries'[h] = {entry[n] : n \in DOMAIN entry}
      /\ \A g \in DOMAIN entries : g # h => g \in DOMAIN entries' /\ entries'[g] = entries[g]
  <2>1. entries' = Save(entries, h, {entry[n] : n \in DOMAIN entry})
    BY DEF CommonReadEntries
  <2>2. IsTable(entries, Calls, SUBSET EntryRow)
    BY DEF TypeOK
  <2>3. PICK es \in SUBSET EntryRow : es = {entry[n] : n \in DOMAIN entry}
    BY <1>5
  <2>4. entries' = Save(entries, h, es)
    BY <2>1, <2>3
  <2>5. IsTable(entries', Calls, SUBSET EntryRow)
    BY <2>2, <2>3, <2>4 DEF Save, IsTable
  <2>6. QED
    BY <2>3, <2>4, <2>5 DEF Save
<1>7. TypeOK'
  BY <1>3, <1>4, <1>6 DEF TypeOK
<1>8. Frame({h})
  BY <1>1, <1>2, <1>4, <1>6, MoveFrame
<1>9. Placed(h)' /\ DOMAIN project' \subseteq posted'
  <2>1. h \in DOMAIN call /\ Placed(h)
    BY <1>1, <1>3, Places DEF CallsInv
  <2>2. QED
    BY <1>3, <1>4, <1>6, <2>1 DEF Placed, ProjectSteps, CallsInv
<1>10. CallsInv'
  BY <1>1, <1>3, <1>4, <1>8, <1>9, MoveCalls
<1>11. QED
  BY <1>3, <1>4, <1>6, <1>7, <1>8, <1>10

LEMMA CommonSaveProjectDoes ==
    ASSUME TypeOK, CallsInv, NEW h \in Calls, CommonSaveProject(h)
    PROVE  /\ TypeOK' /\ CallsInv' /\ Frame({h})
           /\ pc[h] = "common_save" /\ pc'[h] = "done"
           /\ DOMAIN project' = DOMAIN project \cup {call[h].project}
           /\ project'[call[h].project] = Amended(h)
           /\ \A p \in DOMAIN project : p # call[h].project => project'[p] = project[p]
<1>1. "done" \in Steps /\ "common_save" \in InFlight /\ "common_save" \in ProjectSteps
  BY DEF Steps, InFlight, ProjectSteps
<1>2. Goto(h, "common_save", "done") /\ project' = Save(project, call[h].project, Amended(h))
  BY DEF CommonSaveProject
<1>3. /\ pc[h] = "common_save" /\ pc' \in [Calls -> Steps] /\ pc'[h] = "done"
  BY <1>1, <1>2, GotoDoes
<1>4. UNCHANGED <<entry, call, copy, entries, held, posted, outdated, crossed>>
  BY DEF CommonSaveProject
<1>5. /\ Amended(h) \in ProjectRow /\ call[h].project \in Projects /\ call[h].project \in posted
  BY <1>1, <1>3, Places, AmendedDoes
<1>6. /\ IsTable(project', Projects, ProjectRow)
      /\ DOMAIN project' = DOMAIN project \cup {call[h].project}
      /\ project'[call[h].project] = Amended(h)
      /\ \A p \in DOMAIN project : p # call[h].project => project'[p] = project[p]
  <2>1. IsTable(project', Projects, ProjectRow)
    BY <1>2, <1>5 DEF TypeOK, Save, IsTable
  <2>2. QED
    BY <1>2, <2>1 DEF Save
<1>7. TypeOK'
  BY <1>3, <1>4, <1>6 DEF TypeOK
<1>8. Frame({h})
  BY <1>1, <1>2, <1>4, MoveFrame
<1>9. Placed(h)' /\ DOMAIN project' \subseteq posted'
  BY <1>3, <1>4, <1>5, <1>6 DEF Placed, ProjectSteps, CallsInv
<1>10. CallsInv'
  BY <1>1, <1>3, <1>4, <1>8, <1>9, MoveCalls
<1>11. QED
  BY <1>3, <1>6, <1>7, <1>8, <1>10

LEMMA DeleteReadEntriesDoes ==
    ASSUME TypeOK, CallsInv, NEW h \in Calls, DeleteReadEntries(h)
    PROVE  /\ TypeOK' /\ CallsInv' /\ Frame({h}) /\ UNCHANGED <<project, entry, outdated>>
           /\ h \notin DOMAIN call /\ pc'[h] \in {"done", "delete_act"}
           /\ pc'[h] = "delete_act" =>
                \A n \in DOMAIN entry : entry[n].project # call'[h].project
<1>1. PICK p \in DOMAIN project :
         /\ Begin(h, [op |-> "deleteProject", project |-> p])
         /\ Goto(h, "idle", IF \E n \in DOMAIN entry : entry[n].project = p
                            THEN "done" ELSE "delete_act")
  BY DEF DeleteReadEntries
<1>2. PICK c \in Call : c = [op |-> "deleteProject", project |-> p]
  BY <1>1, ProjectFields DEF Call
<1>3. PICK to \in Steps \ {"idle"} :
         to = IF \E n \in DOMAIN entry : entry[n].project = p THEN "done" ELSE "delete_act"
  BY DEF Steps, InFlight
<1>4. Begin(h, c) /\ Goto(h, "idle", to)
  BY <1>1, <1>2, <1>3
<1>5. /\ pc' \in [Calls -> Steps] /\ pc'[h] = to
      /\ h \notin DOMAIN call /\ call'[h] = c
      /\ IsTable(call', Calls, Call)
  BY <1>2, <1>3, <1>4, BeginDoes
<1>6. UNCHANGED <<project, entry, copy, entries, held, posted, outdated>>
  BY DEF DeleteReadEntries
<1>7. TypeOK'
  BY <1>5, <1>6 DEF TypeOK
<1>8. Frame({h})
  BY <1>2, <1>3, <1>4, <1>6, BeginFrame
<1>9. Placed(h)' /\ DOMAIN project' \subseteq posted'
  BY <1>2, <1>3, <1>5, <1>6 DEF Placed, CallsInv, ProjectSteps
<1>10. CallsInv'
  BY <1>2, <1>3, <1>4, <1>8, <1>9, BeginCalls
<1>11. call'[h].project = p
  BY <1>2, <1>5
<1>12. QED
  BY <1>3, <1>5, <1>6, <1>7, <1>8, <1>10, <1>11

LEMMA DeleteProjectDoes ==
    ASSUME TypeOK, CallsInv, NEW h \in Calls, DeleteProject(h)
    PROVE  /\ TypeOK' /\ CallsInv' /\ Frame({h}) /\ UNCHANGED <<entry, call, copy, outdated>>
           /\ pc[h] = "delete_act" /\ pc'[h] = "done"
           /\ DOMAIN project' = DOMAIN project \ {call[h].project}
           /\ \A p \in DOMAIN project' : project'[p] = project[p]
<1>1. "done" \in Steps /\ "delete_act" \in InFlight
  BY DEF Steps, InFlight
<1>2. Goto(h, "delete_act", "done") /\ project' = Delete(project, call[h].project)
  BY DEF DeleteProject
<1>3. /\ pc[h] = "delete_act" /\ pc' \in [Calls -> Steps] /\ pc'[h] = "done"
  BY <1>1, <1>2, GotoDoes
<1>4. UNCHANGED <<entry, call, copy, entries, held, posted, outdated, crossed>>
  BY DEF DeleteProject
<1>5. IsTable(project', Projects, ProjectRow)
  BY <1>2 DEF TypeOK, Delete, IsTable
<1>6. /\ DOMAIN project' = DOMAIN project \ {call[h].project}
      /\ \A p \in DOMAIN project' : project'[p] = project[p]
  BY <1>2 DEF Delete
<1>7. TypeOK'
  BY <1>3, <1>4, <1>5 DEF TypeOK
<1>8. Frame({h})
  BY <1>1, <1>2, <1>4, MoveFrame
<1>9. Placed(h)' /\ DOMAIN project' \subseteq posted'
  BY <1>3, <1>4, <1>6 DEF Placed, ProjectSteps, CallsInv
<1>10. CallsInv'
  BY <1>1, <1>3, <1>4, <1>8, <1>9, MoveCalls
<1>11. QED
  BY <1>3, <1>4, <1>6, <1>7, <1>8, <1>10

LEMMA PostProjectDoes ==
    ASSUME TypeOK, CallsInv, NEW p \in Projects, PostProject(p)
    PROVE  /\ TypeOK' /\ CallsInv' /\ Frame({}) /\ UNCHANGED <<entry, pc, call, copy, outdated>>
           /\ p \notin posted /\ DOMAIN project' = DOMAIN project \cup {p}
           /\ \A q \in DOMAIN project : q # p => project'[q] = project[q]
<1>1. PICK r \in ProjectRow : project' = Save(project, p, r)
                              /\ posted' = posted \cup {p} \cup r.tasks
  BY DEF PostProject
<1>2. UNCHANGED <<entry, pc, call, copy, entries, held, outdated, crossed>> /\ p \notin posted
  BY DEF PostProject
<1>3. IsTable(project', Projects, ProjectRow)
  BY <1>1 DEF TypeOK, Save, IsTable
<1>4. /\ DOMAIN project' = DOMAIN project \cup {p}
      /\ \A q \in DOMAIN project : q # p => project'[q] = project[q]
  BY <1>1 DEF Save
<1>5. posted \subseteq posted' /\ posted' \subseteq Projects \cup Tasks /\ p \in posted'
  BY <1>1 DEF TypeOK, ProjectRow
<1>6. TypeOK'
  BY <1>2, <1>3, <1>5 DEF TypeOK
<1>7. Frame({})
  BY <1>2, <1>5, QuietFrame
<1>8. DOMAIN project' \subseteq posted'
  BY <1>4, <1>5 DEF CallsInv
<1>9. CallsInv'
  BY <1>2, <1>7, <1>8, QuietCalls
<1>10. QED
  BY <1>2, <1>4, <1>6, <1>7, <1>9

-----------------------------------------------------------------------------
(* Row r is asked for entry n: it is of a task that is there, or the row   *)
(* that the entry has, or the entry is recorded as outdated.               *)
AskedFor(n, r) ==
    \/ n \in outdated'
    \/ Current(r)
    \/ n \in DOMAIN entry \ outdated /\ r = entry[n]

LEMMA AskedDoes ==
    ASSUME TypeOK, NEW n \in Calls, NEW r, Asked(n, r)
    PROVE  outdated \subseteq outdated' /\ outdated' \subseteq Calls /\ AskedFor(n, r)
  BY DEF Asked, AskedFor, Outdated, TypeOK

LEMMA PostReadUserDoes ==
    ASSUME TypeOK, CallsInv, NEW h \in Calls, PostReadUser(h)
    PROVE  /\ TypeOK' /\ CallsInv' /\ Frame({h}) /\ UNCHANGED <<project, entry>>
           /\ h \notin DOMAIN call /\ pc'[h] = "entry_save"
           /\ call'[h].data \in EntryRow /\ AskedFor(h, call'[h].data)
<1>1. PICK r \in Known : Begin(h, [op |-> "postEntry", data |-> r]) /\ Asked(h, r)
  BY DEF PostReadUser
<1>2. PICK c \in Call : c = [op |-> "postEntry", data |-> r]
  BY <1>1 DEF Call, Known
<1>3. "entry_save" \in Steps \ {"idle"}
  BY DEF Steps, InFlight
<1>4. Begin(h, c) /\ Goto(h, "idle", "entry_save")
  BY <1>1, <1>2 DEF PostReadUser
<1>5. /\ pc' \in [Calls -> Steps] /\ pc'[h] = "entry_save"
      /\ h \notin DOMAIN call /\ call'[h] = c
      /\ IsTable(call', Calls, Call)
  BY <1>2, <1>3, <1>4, BeginDoes
<1>6. UNCHANGED <<project, entry, copy, entries, held, posted>>
  BY DEF PostReadUser
<1>7. outdated \subseteq outdated' /\ outdated' \subseteq Calls /\ AskedFor(h, r)
  BY <1>1, AskedDoes
<1>8. TypeOK'
  BY <1>5, <1>6, <1>7 DEF TypeOK
<1>9. Frame({h})
  BY <1>2, <1>3, <1>4, <1>6, <1>7, BeginFrame
<1>10. Placed(h)' /\ DOMAIN project' \subseteq posted'
  BY <1>2, <1>5, <1>6 DEF Placed, CallsInv, ProjectSteps
<1>11. CallsInv'
  BY <1>2, <1>3, <1>4, <1>9, <1>10, BeginCalls
<1>12. call'[h].data = r /\ r \in EntryRow
  BY <1>1, <1>2, <1>5 DEF Known
<1>13. QED
  BY <1>5, <1>6, <1>7, <1>8, <1>9, <1>11, <1>12

(* A PUT of an entry begins with a row it has read or been sent. *)
LEMMA BeginPutEntry ==
    ASSUME TypeOK, CallsInv, NEW h \in Calls, NEW n \in Calls, NEW r \in EntryRow,
           Goto(h, "idle", "entry_update"), Begin(h, [op |-> "putEntry", id |-> n]),
           copy' = Save(copy, h, r), outdated \subseteq outdated', outdated' \subseteq Calls,
           UNCHANGED <<project, entry, entries, held, posted>>
    PROVE  /\ TypeOK' /\ CallsInv' /\ Frame({h})
           /\ h \notin DOMAIN call /\ pc'[h] = "entry_update"
           /\ call'[h].id = n /\ copy'[h] = r
<1>1. PICK c \in Call : c = [op |-> "putEntry", id |-> n]
  BY DEF Call
<1>2. "entry_update" \in Steps \ {"idle"}
  BY DEF Steps, InFlight
<1>3. Begin(h, c)
  BY <1>1
<1>4. /\ pc' \in [Calls -> Steps] /\ pc'[h] = "entry_update"
      /\ h \notin DOMAIN call /\ call'[h] = c
      /\ IsTable(call', Calls, Call)
  BY <1>1, <1>2, <1>3, BeginDoes
<1>5. /\ IsTable(copy', Calls, ProjectRow \cup EntryRow)
      /\ h \in DOMAIN copy' /\ copy'[h] = r
      /\ \A g \in DOMAIN copy : g # h => g \in DOMAIN copy' /\ copy'[g] = copy[g]
  <2>1. IsTable(copy, Calls, ProjectRow \cup EntryRow) /\ r \in ProjectRow \cup EntryRow
    BY DEF TypeOK
  <2>2. copy' = Save(copy, h, r)
    OBVIOUS
  <2>3. IsTable(copy', Calls, ProjectRow \cup EntryRow)
    BY <2>1, <2>2 DEF Save, IsTable
  <2>4. QED
    BY <2>2, <2>3 DEF Save
<1>6. TypeOK'
  BY <1>4, <1>5 DEF TypeOK
<1>7. Frame({h})
  BY <1>1, <1>2, <1>3, <1>5, BeginFrame
<1>8. Placed(h)' /\ DOMAIN project' \subseteq posted'
  BY <1>1, <1>4, <1>5 DEF Placed, CallsInv, ProjectSteps
<1>9. CallsInv'
  BY <1>1, <1>2, <1>3, <1>7, <1>8, BeginCalls
<1>10. call'[h].id = n
  BY <1>1, <1>4
<1>11. QED
  BY <1>4, <1>5, <1>6, <1>7, <1>9, <1>10

LEMMA PutReadEntryDoes ==
    ASSUME TypeOK, CallsInv, NEW h \in Calls, PutReadEntry(h) \/ PutReadRequest(h)
    PROVE  /\ TypeOK' /\ CallsInv' /\ Frame({h}) /\ UNCHANGED <<project, entry>>
           /\ h \notin DOMAIN call /\ pc'[h] = "entry_update"
           /\ copy'[h] \in EntryRow /\ AskedFor(call'[h].id, copy'[h])
<1>1. PICK n \in Calls : \E r \in EntryRow :
         /\ Begin(h, [op |-> "putEntry", id |-> n])
         /\ copy' = Save(copy, h, r)
         /\ Asked(n, r)
  <2>1. CASE PutReadEntry(h)
    BY <2>1, EntryFields DEF PutReadEntry, Known
  <2>2. CASE PutReadRequest(h)
    BY <2>2 DEF PutReadRequest, Known
  <2>3. QED
    BY <2>1, <2>2
<1>2. PICK r \in EntryRow :
         /\ Begin(h, [op |-> "putEntry", id |-> n])
         /\ copy' = Save(copy, h, r)
         /\ Asked(n, r)
  BY <1>1
<1>3. Goto(h, "idle", "entry_update") /\ UNCHANGED <<project, entry, entries, held, posted>>
  BY DEF PutReadEntry, PutReadRequest
<1>4. outdated \subseteq outdated' /\ outdated' \subseteq Calls /\ AskedFor(n, r)
  BY <1>2, AskedDoes
<1>5. /\ TypeOK' /\ CallsInv' /\ Frame({h}) /\ copy'[h] = r /\ call'[h].id = n
      /\ h \notin DOMAIN call /\ pc'[h] = "entry_update"
  BY <1>2, <1>3, <1>4, BeginPutEntry
<1>6. QED
  BY <1>2, <1>3, <1>4, <1>5

LEMMA SaveEntryDoes ==
    ASSUME TypeOK, NEW n \in Calls, NEW r \in EntryRow, SaveEntry(n, r)
    PROVE  /\ IsTable(entry', Calls, EntryRow) /\ held' \in [Calls -> SUBSET EntryRow]
           /\ DOMAIN entry' = DOMAIN entry \cup {n} /\ entry'[n] = r
           /\ \A m \in DOMAIN entry : m # n => entry'[m] = entry[m]
<1>1. entry' = Save(entry, n, r) /\ held' = [held EXCEPT ![n] = @ \cup {r}]
  BY DEF SaveEntry
<1>2. IsTable(entry', Calls, EntryRow)
  BY <1>1 DEF TypeOK, Save, IsTable
<1>3. held' \in [Calls -> SUBSET EntryRow]
  BY <1>1 DEF TypeOK
<1>4. QED
  BY <1>1, <1>2, <1>3 DEF Save

LEMMA PostSaveEntryDoes ==
    ASSUME TypeOK, CallsInv, NEW h \in Calls, PostSaveEntry(h)
    PROVE  /\ TypeOK' /\ CallsInv' /\ Frame({h}) /\ UNCHANGED <<project, call, copy, outdated>>
           /\ pc[h] = "entry_save" /\ pc'[h] = "done"
           /\ DOMAIN entry' = DOMAIN entry \cup {h} /\ entry'[h] = call[h].data
           /\ \A m \in DOMAIN entry : m # h => entry'[m] = entry[m]
<1>1. "done" \in Steps /\ "entry_save" \in InFlight
  BY DEF Steps, InFlight
<1>2. Goto(h, "entry_save", "done") /\ SaveEntry(h, call[h].data)
  BY DEF PostSaveEntry
<1>3. /\ pc[h] = "entry_save" /\ pc' \in [Calls -> Steps] /\ pc'[h] = "done"
  BY <1>1, <1>2, GotoDoes
<1>4. UNCHANGED <<project, call, copy, entries, posted, outdated, crossed>>
  BY DEF PostSaveEntry
<1>5. call[h].data \in EntryRow
  BY <1>1, <1>3, Places
<1>6. /\ IsTable(entry', Calls, EntryRow) /\ held' \in [Calls -> SUBSET EntryRow]
      /\ DOMAIN entry' = DOMAIN entry \cup {h} /\ entry'[h] = call[h].data
      /\ \A m \in DOMAIN entry : m # h => entry'[m] = entry[m]
  BY <1>2, <1>5, SaveEntryDoes
<1>7. TypeOK'
  BY <1>3, <1>4, <1>6 DEF TypeOK
<1>8. Frame({h})
  BY <1>1, <1>2, <1>4, MoveFrame
<1>9. Placed(h)' /\ DOMAIN project' \subseteq posted'
  BY <1>3, <1>4 DEF Placed, ProjectSteps, CallsInv
<1>10. CallsInv'
  BY <1>1, <1>3, <1>4, <1>8, <1>9, MoveCalls
<1>11. QED
  BY <1>3, <1>4, <1>6, <1>7, <1>8, <1>10

LEMMA PutSaveEntryDoes ==
    ASSUME TypeOK, CallsInv, NEW h \in Calls, PutSaveEntry(h)
    PROVE  /\ TypeOK' /\ CallsInv' /\ Frame({h}) /\ UNCHANGED <<project, call, copy, outdated>>
           /\ pc[h] = "entry_update" /\ pc'[h] = "done" /\ call[h].id \in Calls
           /\ DOMAIN entry' = DOMAIN entry \cup {call[h].id} /\ entry'[call[h].id] = copy[h]
           /\ \A m \in DOMAIN entry : m # call[h].id => entry'[m] = entry[m]
<1>1. "done" \in Steps /\ "entry_update" \in InFlight
  BY DEF Steps, InFlight
<1>2. Goto(h, "entry_update", "done") /\ SaveEntry(call[h].id, copy[h])
  BY DEF PutSaveEntry
<1>3. /\ pc[h] = "entry_update" /\ pc' \in [Calls -> Steps] /\ pc'[h] = "done"
  BY <1>1, <1>2, GotoDoes
<1>4. UNCHANGED <<project, call, copy, entries, posted, outdated, crossed>>
  BY DEF PutSaveEntry
<1>5. call[h].id \in Calls /\ copy[h] \in EntryRow
  BY <1>1, <1>3, Places
<1>6. /\ IsTable(entry', Calls, EntryRow) /\ held' \in [Calls -> SUBSET EntryRow]
      /\ DOMAIN entry' = DOMAIN entry \cup {call[h].id} /\ entry'[call[h].id] = copy[h]
      /\ \A m \in DOMAIN entry : m # call[h].id => entry'[m] = entry[m]
  BY <1>2, <1>5, SaveEntryDoes
<1>7. TypeOK'
  BY <1>3, <1>4, <1>6 DEF TypeOK
<1>8. Frame({h})
  BY <1>1, <1>2, <1>4, MoveFrame
<1>9. Placed(h)' /\ DOMAIN project' \subseteq posted'
  BY <1>3, <1>4 DEF Placed, ProjectSteps, CallsInv
<1>10. CallsInv'
  BY <1>1, <1>3, <1>4, <1>8, <1>9, MoveCalls
<1>11. QED
  BY <1>3, <1>4, <1>5, <1>6, <1>7, <1>8, <1>10

LEMMA DeleteEntryDoes ==
    ASSUME TypeOK, CallsInv, NEW n \in Calls, DeleteEntry(n)
    PROVE  /\ TypeOK' /\ CallsInv' /\ Frame({})
           /\ UNCHANGED <<project, pc, call, copy, outdated>>
           /\ DOMAIN entry' \subseteq DOMAIN entry
           /\ \A m \in DOMAIN entry' : entry'[m] = entry[m]
<1>1. UNCHANGED <<project, pc, call, copy, entries, held, posted, outdated, crossed>>
      /\ entry' = Delete(entry, n)
  BY DEF DeleteEntry
<1>2. IsTable(entry', Calls, EntryRow)
  BY <1>1 DEF TypeOK, Delete, IsTable
<1>3. DOMAIN entry' \subseteq DOMAIN entry /\ \A m \in DOMAIN entry' : entry'[m] = entry[m]
  BY <1>1 DEF Delete
<1>4. TypeOK'
  BY <1>1, <1>2 DEF TypeOK
<1>5. Frame({})
  BY <1>1, QuietFrame
<1>6. CallsInv'
  BY <1>1, <1>5, QuietCalls DEF CallsInv
<1>7. QED
  BY <1>1, <1>3, <1>4, <1>5, <1>6

LEMMA WriteBackDoes ==
    ASSUME TypeOK, CallsInv, NEW n \in Calls, WriteBack(n)
    PROVE  /\ TypeOK' /\ CallsInv' /\ Frame({}) /\ UNCHANGED <<project, pc, call, copy>>
           /\ \A m \in DOMAIN entry' \ outdated' : m \in DOMAIN entry /\ entry'[m] = entry[m]
<1>1. PICK r \in held[n] : /\ SaveEntry(n, r)
                           /\ outdated' = outdated \cup {x \in {n} : Outdated(x, r)}
  BY DEF WriteBack
<1>2. UNCHANGED <<project, pc, call, copy, entries, posted, crossed>>
  BY DEF WriteBack
<1>3. r \in EntryRow
  BY <1>1 DEF TypeOK
<1>4. /\ IsTable(entry', Calls, EntryRow) /\ held' \in [Calls -> SUBSET EntryRow]
      /\ DOMAIN entry' = DOMAIN entry \cup {n} /\ entry'[n] = r
      /\ \A m \in DOMAIN entry : m # n => entry'[m] = entry[m]
  BY <1>1, <1>3, SaveEntryDoes
<1>5. outdated \subseteq outdated' /\ outdated' \subseteq Calls
  BY <1>1 DEF TypeOK
<1>6. n \in outdated' \/ (n \in DOMAIN entry /\ entry[n] = r)
  BY <1>1 DEF Outdated
<1>7. TypeOK'
  BY <1>2, <1>4, <1>5 DEF TypeOK
<1>8. Frame({})
  BY <1>2, <1>5, QuietFrame
<1>9. CallsInv'
  BY <1>2, <1>8, QuietCalls DEF CallsInv
<1>10. QED
  BY <1>2, <1>4, <1>6, <1>7, <1>8, <1>9

LEMMA AbortDoes ==
    ASSUME TypeOK, CallsInv, NEW h \in Calls, Abort(h)
    PROVE  /\ TypeOK' /\ CallsInv' /\ Frame({h}) /\ pc'[h] = "failed"
           /\ UNCHANGED <<project, entry, call, copy, outdated>>
<1>1. /\ pc[h] \in InFlight /\ pc' = [pc EXCEPT ![h] = "failed"]
      /\ UNCHANGED <<project, entry, call, copy, entries, held, posted, outdated, crossed>>
  BY DEF Abort
<1>2. pc' \in [Calls -> Steps] /\ pc'[h] = "failed" /\ \A g \in Calls : g # h => pc'[g] = pc[g]
  BY <1>1 DEF TypeOK, Steps
<1>3. TypeOK'
  BY <1>1, <1>2 DEF TypeOK
<1>4. Frame({h})
  BY <1>1, <1>2 DEF Frame, TypeOK, IsTable
<1>5. Placed(h)' /\ DOMAIN project' \subseteq posted'
  BY <1>1, <1>2 DEF Placed, ProjectSteps, CallsInv
<1>6. CallsInv'
  BY <1>1, <1>2, <1>4, <1>5, MoveCalls
<1>7. QED
  BY <1>1, <1>2, <1>3, <1>4, <1>6

-----------------------------------------------------------------------------
(* Types and calls, in every step. *)

LEMMA InitIInv == Init => IInv
<1> SUFFICES ASSUME Init PROVE IInv
  OBVIOUS
<1>1. DOMAIN call = {} /\ DOMAIN entry = {} /\ DOMAIN project = {}
  BY DEF Init, NoRows, IsTable
<1>2. TypeOK
  BY DEF Init, TypeOK, Steps, NoRows, IsTable
<1>3. CallsInv
  BY <1>1 DEF Init, CallsInv, Busy
<1>4. TasksInv
  BY <1>1 DEF TasksInv, Saving
<1>5. Stored = {} /\ Coming = {}
  BY <1>1 DEF Stored, Coming
<1>6. QED
  BY <1>2, <1>3, <1>4, <1>5 DEF IInv, ParentsInv

LEMMA StepDoes ==
    ASSUME TypeOK, CallsInv, [Next]_vars
    PROVE  TypeOK' /\ CallsInv'
<1>1. ASSUME NEW h \in Calls, Project(h) PROVE TypeOK' /\ CallsInv'
  BY <1>1, PutReadProjectDoes, PutReadEntriesDoes, PutSaveProjectDoes, DeleteReadEntriesDoes,
     DeleteProjectDoes, CommonReadProjectDoes, CommonReadEntriesDoes, CommonSaveProjectDoes
     DEF Project
<1>2. ASSUME NEW h \in Calls, Entry(h) PROVE TypeOK' /\ CallsInv'
  BY <1>2, PostReadUserDoes, PostSaveEntryDoes, PutReadEntryDoes, PutSaveEntryDoes DEF Entry
<1>3. ASSUME UNCHANGED vars PROVE TypeOK' /\ CallsInv'
  BY <1>3 DEF vars, TypeOK, CallsInv, Placed, Busy, IsTable
<1>4. QED
  BY <1>1, <1>2, <1>3, AbortDoes, PostProjectDoes, DeleteEntryDoes, WriteBackDoes DEF Next

-----------------------------------------------------------------------------
(* What is raced stays raced, and calls in flight together race. *)

LEMMA RacesStay ==
    ASSUME NEW H, Frame(H)
    PROVE  /\ DeleteRaced => DeleteRaced'
           /\ RemoveRaced => RemoveRaced'
           /\ TasksRaced => TasksRaced'
  BY DEF Frame, DeleteRaced, RemoveRaced, TasksRaced, Crossed

LEMMA Racing ==
    ASSUME CallsInv, NEW g \in Busy, NEW h \in Busy, g # h
    PROVE  /\ call[g].op = "deleteProject" /\ call[h].op \in WritesEntry => DeleteRaced
           /\ call[g].op = "removeTask" /\ call[h].op \in WritesEntry => RemoveRaced
           /\ call[g].op \in {"addTask", "removeTask"} /\ call[h].op \in WritesProject => TasksRaced
  BY DEF CallsInv, DeleteRaced, RemoveRaced, TasksRaced, Crossed

(* The calls that save project p but the one that moves are those before,  *)
(* with what they had.                                                     *)
LEMMA SavingStays ==
    ASSUME TypeOK, CallsInv, NEW H, Frame(H), NEW p, NEW g, g \notin H
    PROVE  /\ g \in Saving(p)' => g \in Saving(p)
           /\ g \in Saving(p) => copy'[g] = copy[g] /\ g \in Busy
<1>1. ASSUME g \in Saving(p)' PROVE g \in Saving(p)
  <2>1. g \in DOMAIN call' /\ pc'[g] \in ProjectSteps /\ call'[g].project = p
    BY <1>1 DEF Saving
  <2>2. g \in Calls
    BY <2>1 DEF Frame
  <2>3. QED
    BY <2>1, <2>2 DEF Saving, Frame
<1>2. ASSUME g \in Saving(p) PROVE copy'[g] = copy[g] /\ g \in Busy
  <2>1. g \in Calls /\ g \in DOMAIN call /\ pc[g] \in ProjectSteps
    BY <1>2, CallFields DEF Saving
  <2>2. g \in DOMAIN copy /\ g \in Busy
    BY <2>1, Places DEF ProjectSteps, InFlight
  <2>3. QED
    BY <2>1, <2>2 DEF Frame
<1>3. QED
  BY <1>1, <1>2

-----------------------------------------------------------------------------
(* All copies of a project have its tasks. *)

LEMMA TasksStay ==
    ASSUME TypeOK, CallsInv, TasksInv, NEW H, Frame(H),
           \A p \in Projects : \A g \in Saving(p) \ H : p \in DOMAIN project' =>
              TasksRaced' \/ copy[g].tasks = project'[p].tasks,
           \A p \in Projects : \A h \in H : h \in Saving(p)' =>
              \/ TasksRaced'
              \/ /\ p \in DOMAIN project' => copy'[h].tasks = project'[p].tasks
                 /\ \A g \in Saving(p) \ H : copy[g].tasks = copy'[h].tasks
    PROVE  TasksInv'
<1> SUFFICES ASSUME ~TasksRaced', NEW p \in Projects, NEW h \in Saving(p)'
             PROVE  /\ p \in DOMAIN project' => copy'[h].tasks = project'[p].tasks
                    /\ \A g \in Saving(p)' : copy'[g].tasks = copy'[h].tasks
  BY DEF TasksInv
<1>1. ~TasksRaced /\ \A x, y \in H : x = y
  BY RacesStay DEF Frame
<1>2. \A g : g \notin H /\ g \in Saving(p)' => g \in Saving(p) \ H /\ copy'[g] = copy[g]
  BY SavingStays
<1>3. \A x, y \in Saving(p) : copy[x].tasks = copy[y].tasks
  BY <1>1 DEF TasksInv
<1>4. CASE h \in H
  BY <1>1, <1>2, <1>4
<1>5. CASE h \notin H
  <2>1. h \in Saving(p) \ H /\ copy'[h] = copy[h]
    BY <1>2, <1>5
  <2>2. p \in DOMAIN project' => copy'[h].tasks = project'[p].tasks
    BY <2>1
  <2>3. ASSUME NEW g \in Saving(p)' PROVE copy'[g].tasks = copy'[h].tasks
    <3>1. CASE g \in H
      BY <2>1, <2>3, <3>1
    <3>2. CASE g \notin H
      BY <1>2, <1>3, <2>1, <2>3, <3>2
    <3>3. QED
      BY <3>1, <3>2
  <2>4. QED
    BY <2>2, <2>3
<1>6. QED
  BY <1>4, <1>5

(* A step that leaves the projects, and makes no copy of one, is quiet. *)
LEMMA QuietTasks ==
    ASSUME TypeOK, CallsInv, TasksInv, NEW H, Frame(H), project' = project,
           \A p \in Projects : \A h \in H : h \in Saving(p)' =>
              h \in Saving(p) /\ copy'[h] = copy[h]
    PROVE  TasksInv'
<1>1. TasksRaced => TasksRaced'
  BY RacesStay
<1>2. QED
  BY <1>1, TasksStay DEF TasksInv

(* So is one that copies a project as stored. *)
LEMMA CopyTasks ==
    ASSUME TypeOK, CallsInv, TasksInv, NEW h \in Calls, Frame({h}), project' = project,
           h \notin DOMAIN call, call'[h].project \in DOMAIN project,
           copy'[h].tasks = project[call'[h].project].tasks
    PROVE  TasksInv'
<1>1. TasksRaced => TasksRaced'
  BY RacesStay
<1>2. \A p : h \in Saving(p)' => p = call'[h].project
  BY DEF Saving
<1>3. QED
  BY <1>1, <1>2, TasksStay DEF TasksInv

(* A call that saves a project saves the tasks it has read, or races with  *)
(* all others that have read any.                                          *)
LEMMA SaveTasks ==
    ASSUME TypeOK, CallsInv, TasksInv, NEW h \in Calls, Frame({h}),
           pc[h] \in ProjectSteps, pc'[h] = "done",
           DOMAIN project' = DOMAIN project \cup {call[h].project},
           \A p \in DOMAIN project : p # call[h].project => project'[p] = project[p],
           \/ call[h].op \in {"addTask", "removeTask"}
           \/ project'[call[h].project].tasks = copy[h].tasks
    PROVE  TasksInv'
<1>1. TasksRaced => TasksRaced'
  BY RacesStay
<1>2. h \in DOMAIN call /\ h \in Busy /\ h \in Saving(call[h].project)
  BY Places DEF ProjectSteps, InFlight, Saving
<1>3. \A p : h \notin Saving(p)'
  BY DEF Saving, ProjectSteps
<1>4. ASSUME NEW p \in Projects, NEW g \in Saving(p), g # h, p \in DOMAIN project'
      PROVE  TasksRaced' \/ copy[g].tasks = project'[p].tasks
  <2>1. g \in Busy /\ call[g].op \in WritesProject
    <3>1. g \in Calls /\ pc[g] \in ProjectSteps
      BY <1>4, CallFields DEF Saving
    <3>2. QED
      BY <3>1, Places DEF ProjectSteps, InFlight
  <2>2. CASE call[h].op \in {"addTask", "removeTask"}
    BY <1>1, <1>2, <1>4, <2>1, <2>2, Racing
  <2>3. CASE project'[call[h].project].tasks = copy[h].tasks
    <3>1. CASE p = call[h].project
      BY <1>1, <1>2, <1>4, <2>3, <3>1 DEF TasksInv
    <3>2. CASE p # call[h].project
      BY <1>1, <1>4, <3>2 DEF TasksInv
    <3>3. QED
      BY <3>1, <3>2
  <2>4. QED
    BY <2>2, <2>3
<1>5. QED
  BY <1>3, <1>4, TasksStay

(* A project that is posted is no call's yet. *)
LEMMA PostTasks ==
    ASSUME TypeOK, CallsInv, TasksInv, NEW p \in Projects, PostProject(p)
    PROVE  TasksInv'
<1>1. /\ Frame({}) /\ p \notin posted /\ DOMAIN project' = DOMAIN project \cup {p}
      /\ \A q \in DOMAIN project : q # p => project'[q] = project[q]
  BY PostProjectDoes
<1>2. TasksRaced => TasksRaced'
  BY <1>1, RacesStay
<1>3. Saving(p) = {}
  <2>1. ASSUME NEW g \in Saving(p) PROVE FALSE
    <3>1. g \in Calls /\ pc[g] \in ProjectSteps /\ call[g].project = p
      BY <2>1, CallFields DEF Saving
    <3>2. QED
      BY <1>1, <3>1, Places
  <2>2. QED
    BY <2>1
<1>4. \A q \in Projects : \A g \in Saving(q) \ {} : q \in DOMAIN project' =>
         TasksRaced' \/ copy[g].tasks = project'[q].tasks
  BY <1>1, <1>2, <1>3 DEF TasksInv
<1>5. QED
  BY <1>1, <1>4, TasksStay

LEMMA DeleteTasks ==
    ASSUME TypeOK, CallsInv, TasksInv, NEW h \in Calls, DeleteProject(h)
    PROVE  TasksInv'
<1>1. /\ Frame({h}) /\ pc'[h] = "done" /\ DOMAIN project' \subseteq DOMAIN project
      /\ \A p \in DOMAIN project' : project'[p] = project[p]
  BY DeleteProjectDoes
<1>2. TasksRaced => TasksRaced'
  BY <1>1, RacesStay
<1>3. \A p : h \notin Saving(p)'
  BY <1>1 DEF Saving, ProjectSteps
<1>4. \A p \in Projects : \A g \in Saving(p) \ {h} : p \in DOMAIN project' =>
         TasksRaced' \/ copy[g].tasks = project'[p].tasks
  BY <1>1, <1>2 DEF TasksInv
<1>5. QED
  BY <1>1, <1>3, <1>4, TasksStay

-----------------------------------------------------------------------------
(* Every entry, stored or about to be, has its parents.                    *)

Booked == Stored \cup Coming

(* A row to come is one of a call that stays, or of the one that moves. *)
LEMMA ComingRows ==
    ASSUME TypeOK, CallsInv, NEW H, Frame(H), NEW r \in Coming'
    PROVE  \/ r \in Coming
           \/ \E h \in H : \/ /\ pc'[h] = "entry_save" /\ h \notin outdated'
                              /\ r = call'[h].data
                           \/ /\ pc'[h] = "entry_update" /\ call'[h].id \notin outdated'
                              /\ r = copy'[h]
<1>1. PICK g \in DOMAIN call' :
         \/ pc'[g] = "entry_save" /\ g \notin outdated' /\ r = call'[g].data
         \/ pc'[g] = "entry_update" /\ call'[g].id \notin outdated' /\ r = copy'[g]
  BY DEF Coming
<1>2. CASE g \in H
  BY <1>1, <1>2
<1>3. CASE g \notin H
  <2>1. /\ g \in Calls /\ g \in DOMAIN call /\ pc'[g] = pc[g] /\ call'[g] = call[g]
        /\ outdated \subseteq outdated'
        /\ g \in DOMAIN copy => copy'[g] = copy[g]
    BY <1>1, <1>3 DEF Frame
  <2>2. pc[g] = "entry_update" => copy'[g] = copy[g]
    BY <2>1, Places
  <2>3. QED
    BY <1>1, <2>1, <2>2 DEF Coming
<1>4. QED
  BY <1>2, <1>3

(* The call that a row to come is of writes an entry. *)
LEMMA ComingCall ==
    ASSUME TypeOK, CallsInv, NEW r \in Coming
    PROVE  \E g \in Busy : pc[g] \in {"entry_save", "entry_update"} /\ call[g].op \in WritesEntry
<1>1. PICK g \in DOMAIN call : pc[g] \in {"entry_save", "entry_update"}
  BY DEF Coming
<1>2. g \in Calls
  BY <1>1, CallFields
<1>3. QED
  BY <1>1, <1>2, Places DEF InFlight, WritesEntry

(* What the projects and the copies of them must keep for a row.           *)
LEMMA ParentStays ==
    ASSUME TypeOK, CallsInv, NEW H, Frame(H), NEW r, Parented(r),
           r.project \in DOMAIN project => r.project \in DOMAIN project' \/ DeleteRaced',
           \/ RemoveRaced' \/ TasksRaced'
           \/ r.project \in DOMAIN project' => r.task \in project'[r.project].tasks,
           \A h \in H : h \in Saving(r.project)' =>
              RemoveRaced' \/ TasksRaced' \/ r.task \in copy'[h].tasks
    PROVE  Parented(r)'
<1>1. /\ DeleteRaced => DeleteRaced'
      /\ RemoveRaced => RemoveRaced'
      /\ TasksRaced => TasksRaced'
  BY RacesStay
<1>2. r.project \in posted'
  BY DEF Frame, Parented
<1>3. r.project \in DOMAIN project' \/ DeleteRaced'
  BY <1>1 DEF Parented
<1>4. ASSUME ~RemoveRaced', ~TasksRaced'
      PROVE  /\ r.project \in DOMAIN project' => r.task \in project'[r.project].tasks
             /\ \A h \in Saving(r.project)' : r.task \in copy'[h].tasks
  <2>1. \A h \in Saving(r.project) : r.task \in copy[h].tasks
    BY <1>1, <1>4 DEF Parented
  <2>2. ASSUME NEW h \in Saving(r.project)', h \notin H
        PROVE  r.task \in copy'[h].tasks
    <3>1. h \in Saving(r.project) /\ copy'[h] = copy[h]
      BY <2>2, SavingStays
    <3>2. QED
      BY <2>1, <3>1
  <2>3. QED
    BY <1>4, <2>2
<1>5. QED
  BY <1>2, <1>3, <1>4 DEF Parented

LEMMA QuietParents ==
    ASSUME TypeOK, CallsInv, ParentsInv, NEW H, Frame(H), project' = project,
           \A p : \A h \in H : h \in Saving(p)' => h \in Saving(p) /\ copy'[h] = copy[h]
    PROVE  \A r \in Booked : Parented(r)'
<1> SUFFICES ASSUME NEW r \in Booked PROVE Parented(r)'
  OBVIOUS
<1>1. Parented(r)
  BY DEF ParentsInv, Booked
<1>2. (RemoveRaced => RemoveRaced') /\ (TasksRaced => TasksRaced')
  BY RacesStay
<1>3. QED
  BY <1>1, <1>2, ParentStays DEF Parented

LEMMA CopyParents ==
    ASSUME TypeOK, CallsInv, ParentsInv, NEW h \in Calls, Frame({h}), project' = project,
           h \notin DOMAIN call, call'[h].project \in DOMAIN project,
           copy'[h].tasks = project[call'[h].project].tasks
    PROVE  \A r \in Booked : Parented(r)'
<1> SUFFICES ASSUME NEW r \in Booked PROVE Parented(r)'
  OBVIOUS
<1>1. Parented(r)
  BY DEF ParentsInv, Booked
<1>2. (RemoveRaced => RemoveRaced') /\ (TasksRaced => TasksRaced')
  BY RacesStay
<1>3. h \in Saving(r.project)' => r.project = call'[h].project
  BY DEF Saving
<1>4. QED
  BY <1>1, <1>2, <1>3, ParentStays DEF Parented

(* A call that saves a project saves the task of every row of it, or races *)
(* with who is to store the row.                                           *)
LEMMA SaveParents ==
    ASSUME TypeOK, CallsInv, ParentsInv, NEW h \in Calls, Frame({h}),
           pc[h] \in ProjectSteps, pc'[h] = "done",
           DOMAIN project' = DOMAIN project \cup {call[h].project},
           \A p \in DOMAIN project : p # call[h].project => project'[p] = project[p],
           \A t \in copy[h].tasks :
              \/ t \in project'[call[h].project].tasks
              \/ /\ pc[h] = "common_save" /\ call[h].op = "removeTask"
                 /\ call[h].task = t /\ ~Refused(h)
    PROVE  \A r \in Booked : Parented(r)'
<1> SUFFICES ASSUME NEW r \in Booked PROVE Parented(r)'
  OBVIOUS
<1>1. Parented(r)
  BY DEF ParentsInv, Booked
<1>2. (RemoveRaced => RemoveRaced') /\ (TasksRaced => TasksRaced')
  BY RacesStay
<1>3. h \in DOMAIN call /\ h \in Busy /\ h \in Saving(call[h].project)
  BY Places DEF ProjectSteps, InFlight, Saving
<1>4. h \notin Saving(r.project)'
  BY DEF Saving, ProjectSteps
<1>5. ASSUME ~RemoveRaced', ~TasksRaced', r.project \in DOMAIN project'
      PROVE  r.task \in project'[r.project].tasks
  <2>1. CASE r.project # call[h].project
    <3>1. r.project \in DOMAIN project /\ project'[r.project] = project[r.project]
      BY <1>5, <2>1
    <3>2. QED
      BY <1>1, <1>2, <1>5, <3>1 DEF Parented
  <2>2. CASE r.project = call[h].project
    <3>1. r.task \in copy[h].tasks
      BY <1>1, <1>2, <1>3, <1>5, <2>2 DEF Parented
    <3>2. ASSUME pc[h] = "common_save", call[h].op = "removeTask", call[h].task = r.task,
                 ~Refused(h)
          PROVE  FALSE
      <4>1. CASE r \in Stored
        BY <1>2, <1>3, <1>5, <3>2, <4>1 DEF ParentsInv, Spares
      <4>2. CASE r \in Coming
        <5>1. PICK g \in Busy : /\ pc[g] \in {"entry_save", "entry_update"}
                                /\ call[g].op \in WritesEntry
          BY <4>2, ComingCall
        <5>2. QED
          BY <1>2, <1>3, <1>5, <3>2, <5>1, Racing
      <4>3. QED
        BY <4>1, <4>2 DEF Booked
    <3>3. QED
      BY <2>2, <3>1, <3>2
  <2>3. QED
    BY <2>1, <2>2
<1>6. QED
  BY <1>1, <1>4, <1>5, ParentStays

LEMMA DeleteParents ==
    ASSUME TypeOK, CallsInv, ParentsInv, NEW h \in Calls, DeleteProject(h)
    PROVE  \A r \in Booked : Parented(r)'
<1> SUFFICES ASSUME NEW r \in Booked PROVE Parented(r)'
  OBVIOUS
<1>1. Parented(r)
  BY DEF ParentsInv, Booked
<1>2. /\ Frame({h}) /\ pc[h] = "delete_act" /\ pc'[h] = "done"
      /\ DOMAIN project' = DOMAIN project \ {call[h].project}
      /\ \A p \in DOMAIN project' : project'[p] = project[p]
  BY DeleteProjectDoes
<1>3. /\ DeleteRaced => DeleteRaced'
      /\ RemoveRaced => RemoveRaced'
      /\ TasksRaced => TasksRaced'
  BY <1>2, RacesStay
<1>4. h \in DOMAIN call /\ h \in Busy /\ call[h].op = "deleteProject"
  BY <1>2, Places DEF InFlight
<1>5. r.project = call[h].project => DeleteRaced
  <2>1. CASE r \in Stored
    BY <1>2, <1>4, <2>1 DEF ParentsInv, Spares
  <2>2. CASE r \in Coming
    <3>1. PICK g \in Busy : /\ pc[g] \in {"entry_save", "entry_update"}
                            /\ call[g].op \in WritesEntry
      BY <2>2, ComingCall
    <3>2. QED
      BY <1>2, <1>4, <3>1, Racing
  <2>3. QED
    BY <2>1, <2>2 DEF Booked
<1>6. h \notin Saving(r.project)'
  BY <1>2 DEF Saving, ProjectSteps
<1>7. QED
  BY <1>1, <1>2, <1>3, <1>5, <1>6, ParentStays DEF Parented

LEMMA PostParents ==
    ASSUME TypeOK, CallsInv, ParentsInv, NEW p \in Projects, PostProject(p)
    PROVE  \A r \in Booked : Parented(r)'
<1> SUFFICES ASSUME NEW r \in Booked PROVE Parented(r)'
  OBVIOUS
<1>1. Parented(r)
  BY DEF ParentsInv, Booked
<1>2. /\ Frame({}) /\ p \notin posted /\ DOMAIN project' = DOMAIN project \cup {p}
      /\ \A q \in DOMAIN project : q # p => project'[q] = project[q]
  BY PostProjectDoes
<1>3. (RemoveRaced => RemoveRaced') /\ (TasksRaced => TasksRaced')
  BY <1>2, RacesStay
<1>4. r.project # p
  BY <1>1, <1>2 DEF Parented
<1>5. QED
  BY <1>1, <1>2, <1>3, <1>4, ParentStays DEF Parented

(* A row of a task that is there has its parents. *)
LEMMA CurrentParents ==
    ASSUME TypeOK, CallsInv, TasksInv, NEW r \in EntryRow, Current(r)
    PROVE  Parented(r)
<1>1. /\ r.project \in DOMAIN project /\ r.project \in Projects
      /\ r.task \in project[r.project].tasks /\ r.project \in posted
  BY ProjectFields DEF Current, CallsInv
<1>2. TasksRaced \/ \A h \in Saving(r.project) : copy[h].tasks = project[r.project].tasks
  BY <1>1 DEF TasksInv
<1>3. QED
  BY <1>1, <1>2 DEF Parented

-----------------------------------------------------------------------------
(* The invariant of the rows follows from what the moving call does.       *)

LEMMA SparesStay ==
    ASSUME TypeOK, CallsInv, NEW H, Frame(H), NEW r \in Stored,
           NEW g \in DOMAIN call', g \notin H, Spares(g, r)
    PROVE  Spares(g, r)'
<1>1. /\ g \in Calls /\ g \in DOMAIN call /\ pc'[g] = pc[g] /\ call'[g] = call[g]
      /\ g \in DOMAIN entries => entries'[g] = entries[g]
  BY DEF Frame
<1>2. (DeleteRaced => DeleteRaced') /\ (RemoveRaced => RemoveRaced')
  BY RacesStay
<1>3. pc[g] = "common_save" => (Refused(g) => Refused(g)')
  BY <1>1, Places DEF Refused
<1>4. QED
  BY <1>1, <1>2, <1>3 DEF Spares

(* Call h has come to store row r of an entry. *)
Starts(h, r) ==
    \/ pc'[h] = "entry_save" /\ h \notin outdated' /\ r = call'[h].data
    \/ pc'[h] = "entry_update" /\ call'[h].id \notin outdated' /\ r = copy'[h]

LEMMA ParentsStay ==
    ASSUME TypeOK, CallsInv, ParentsInv, NEW H, Frame(H),
           \A r \in Booked : Parented(r)',
           \A h \in H : \A r : Starts(h, r) => Parented(r)',
           \A r \in Stored' : r \in Stored \/ r \in Coming,
           \A r \in Stored' \ Stored : \A g \in DOMAIN call' : Spares(g, r)',
           \A r \in Stored : \A h \in H : h \in DOMAIN call' => Spares(h, r)'
    PROVE  ParentsInv'
<1>1. ASSUME NEW r \in Coming' PROVE Parented(r)'
  <2>1. CASE r \in Coming
    BY <2>1 DEF Booked
  <2>2. ASSUME NEW h \in H, Starts(h, r) PROVE Parented(r)'
    BY <2>2
  <2>3. QED
    BY <1>1, <2>1, <2>2, ComingRows DEF Starts
<1>2. ASSUME NEW r \in Stored' PROVE Parented(r)'
  BY <1>2 DEF Booked
<1>3. ASSUME NEW r \in Stored', NEW g \in DOMAIN call' PROVE Spares(g, r)'
  <2>1. CASE r \notin Stored
    BY <1>3, <2>1
  <2>2. CASE r \in Stored /\ g \in H
    BY <1>3, <2>2
  <2>3. CASE r \in Stored /\ g \notin H
    <3>1. g \in DOMAIN call
      BY <1>3, <2>3 DEF Frame
    <3>2. Spares(g, r)
      BY <2>3, <3>1 DEF ParentsInv
    <3>3. QED
      BY <1>3, <2>3, <3>2, SparesStay
  <2>4. QED
    BY <2>1, <2>2, <2>3
<1>4. QED
  BY <1>1, <1>2, <1>3 DEF ParentsInv

(* A step that stores no row and is not about to remove a parent.          *)
LEMMA UnstoredParents ==
    ASSUME TypeOK, CallsInv, ParentsInv, NEW H, Frame(H),
           \A r \in Booked : Parented(r)',
           \A n \in DOMAIN entry' \ outdated' : n \in DOMAIN entry /\ entry'[n] = entry[n],
           \A h \in H : pc'[h] \notin {"entry_save", "entry_update", "delete_act", "common_save"}
    PROVE  ParentsInv'
<1>1. Stored' \subseteq Stored
  BY DEF Stored, Frame
<1>2. \A h \in H : \A r \in Stored : Spares(h, r)'
  BY DEF Spares
<1>3. QED
  BY <1>1, <1>2, ParentsStay DEF Starts

(* A step that begins to store a row that has its parents. *)
LEMMA WriterParents ==
    ASSUME TypeOK, CallsInv, ParentsInv, NEW h \in Calls, Frame({h}),
           UNCHANGED <<project, entry>>,
           pc'[h] \in {"entry_save", "entry_update"}, \A r : Starts(h, r) => Parented(r)'
    PROVE  ParentsInv'
<1>1. \A p : h \notin Saving(p)'
  BY DEF Saving, ProjectSteps
<1>2. \A r \in Booked : Parented(r)'
  BY <1>1, QuietParents
<1>3. Stored' \subseteq Stored
  BY DEF Stored, Frame
<1>4. \A r \in Stored : Spares(h, r)'
  BY DEF Spares
<1>5. QED
  BY <1>2, <1>3, <1>4, ParentsStay

(* A row that is stored was to come; whoever is about to remove a parent   *)
(* of it races with the call that stores it.                               *)
LEMMA StoreParents ==
    ASSUME TypeOK, CallsInv, ParentsInv, NEW h \in Calls, NEW n, NEW row, Frame({h}),
           UNCHANGED <<project, call, copy, outdated>>,
           pc[h] \in {"entry_save", "entry_update"}, pc'[h] = "done",
           DOMAIN entry' = DOMAIN entry \cup {n}, entry'[n] = row,
           \A m \in DOMAIN entry : m # n => entry'[m] = entry[m],
           n \in outdated \/ row \in Coming
    PROVE  ParentsInv'
<1>1. \A p : h \notin Saving(p)'
  BY DEF Saving, ProjectSteps
<1>2. \A r \in Booked : Parented(r)'
  BY <1>1, QuietParents
<1>3. \A r \in Stored' : r \in Stored \/ r \in Coming
  BY DEF Stored
<1>4. ASSUME NEW r \in Stored' \ Stored, NEW g \in DOMAIN call' PROVE Spares(g, r)'
  <2>1. h \in Busy /\ call[h].op \in WritesEntry
    BY Places DEF InFlight, WritesEntry
  <2>2. (DeleteRaced => DeleteRaced') /\ (RemoveRaced => RemoveRaced')
    BY RacesStay
  <2>3. CASE g = h
    BY <2>3 DEF Spares
  <2>4. CASE g # h
    <3>1. g \in Calls /\ pc'[g] = pc[g] /\ call'[g] = call[g]
      BY <1>4, <2>4, CallFields DEF Frame
    <3>2. pc[g] \in {"delete_act", "common_save"} => g \in Busy
      BY <3>1, Places DEF InFlight
    <3>3. pc[g] = "delete_act" => DeleteRaced
      BY <2>1, <2>4, <3>1, <3>2, Places, Racing
    <3>4. pc[g] = "common_save" /\ call[g].op = "removeTask" => RemoveRaced
      BY <2>1, <2>4, <3>2, Racing
    <3>5. QED
      BY <2>2, <3>1, <3>3, <3>4 DEF Spares
  <2>5. QED
    BY <2>3, <2>4
<1>5. \A r \in Stored : Spares(h, r)'
  BY DEF Spares
<1>6. \A r : ~Starts(h, r)
  BY DEF Starts
<1>7. QED
  BY <1>2, <1>3, <1>4, <1>5, <1>6, ParentsStay

-----------------------------------------------------------------------------
(* The steps. *)

LEMMA ProjectKeeps ==
    ASSUME TypeOK, CallsInv, TasksInv, ParentsInv, NEW h \in Calls, Project(h)
    PROVE  TasksInv' /\ ParentsInv'
<1>1. CASE PutReadProject(h)
  <2>1. /\ Frame({h}) /\ UNCHANGED <<project, entry, outdated>>
        /\ h \notin DOMAIN call /\ pc'[h] = "project_entries"
        /\ call'[h].project \in DOMAIN project
        /\ copy'[h].tasks = project[call'[h].project].tasks
    BY <1>1, PutReadProjectDoes
  <2>2. \A r \in Booked : Parented(r)'
    BY <2>1, CopyParents
  <2>3. QED
    BY <2>1, <2>2, CopyTasks, UnstoredParents
<1>2. CASE CommonReadProject(h)
  <2>1. /\ Frame({h}) /\ UNCHANGED <<project, entry, outdated>>
        /\ h \notin DOMAIN call /\ pc'[h] = "common_entries"
        /\ call'[h].project \in DOMAIN project
        /\ copy'[h].tasks = project[call'[h].project].tasks
    BY <1>2, CommonReadProjectDoes
  <2>2. \A r \in Booked : Parented(r)'
    BY <2>1, CopyParents
  <2>3. QED
    BY <2>1, <2>2, CopyTasks, UnstoredParents
<1>3. CASE PutReadEntries(h)
  <2>1. Frame({h}) /\ pc[h] = "project_entries" /\ pc'[h] = "project_save"
    BY <1>3, PutReadEntriesDoes
  <2>2. UNCHANGED <<project, entry, call, copy, outdated>>
    BY <1>3 DEF PutReadEntries
  <2>3. \A p : h \in Saving(p)' => h \in Saving(p) /\ copy'[h] = copy[h]
    BY <2>1, <2>2 DEF Saving, ProjectSteps
  <2>4. \A r \in Booked : Parented(r)'
    BY <2>1, <2>2, <2>3, QuietParents
  <2>5. QED
    BY <2>1, <2>2, <2>3, <2>4, QuietTasks, UnstoredParents
<1>4. CASE PutSaveProject(h)
  <2>1. /\ Frame({h}) /\ pc[h] = "project_save" /\ pc'[h] = "done"
        /\ DOMAIN project' = DOMAIN project \cup {call[h].project}
        /\ project'[call[h].project] = copy[h]
        /\ \A p \in DOMAIN project : p # call[h].project => project'[p] = project[p]
    BY <1>4, PutSaveProjectDoes
  <2>2. pc[h] \in ProjectSteps
    BY <2>1 DEF ProjectSteps
  <2>3. UNCHANGED <<entry, outdated>>
    BY <1>4 DEF PutSaveProject
  <2>4. \A r \in Booked : Parented(r)'
    BY <2>1, <2>2, SaveParents
  <2>5. QED
    BY <2>1, <2>2, <2>3, <2>4, SaveTasks, UnstoredParents
<1>5. CASE DeleteReadEntries(h)
  <2>1. /\ Frame({h}) /\ UNCHANGED <<project, entry, outdated>>
        /\ h \notin DOMAIN call /\ pc'[h] \in {"done", "delete_act"}
        /\ pc'[h] = "delete_act" => \A n \in DOMAIN entry : entry[n].project # call'[h].project
    BY <1>5, DeleteReadEntriesDoes
  <2>2. \A p : h \notin Saving(p)'
    BY <2>1 DEF Saving, ProjectSteps
  <2>3. \A r \in Booked : Parented(r)'
    BY <2>1, <2>2, QuietParents
  <2>4. Stored' = Stored
    BY <2>1 DEF Stored
  <2>5. \A r \in Stored : Spares(h, r)'
    BY <2>1 DEF Spares, Stored
  <2>6. ParentsInv'
    BY <2>1, <2>3, <2>4, <2>5, ParentsStay DEF Starts
  <2>7. QED
    BY <2>1, <2>2, <2>6, QuietTasks
<1>6. CASE DeleteProject(h)
  <2>1. Frame({h}) /\ UNCHANGED <<entry, outdated>> /\ pc'[h] = "done"
    BY <1>6, DeleteProjectDoes
  <2>2. \A r \in Booked : Parented(r)'
    BY <1>6, DeleteParents
  <2>3. QED
    BY <1>6, <2>1, <2>2, DeleteTasks, UnstoredParents
<1>7. CASE CommonReadEntries(h)
  <2>1. /\ Frame({h}) /\ UNCHANGED <<project, entry, call, copy, outdated>>
        /\ pc[h] = "common_entries" /\ pc'[h] = "common_save"
        /\ entries'[h] = {entry[n] : n \in DOMAIN entry}
    BY <1>7, CommonReadEntriesDoes
  <2>2. \A p : h \in Saving(p)' => h \in Saving(p) /\ copy'[h] = copy[h]
    BY <2>1 DEF Saving, ProjectSteps
  <2>3. \A r \in Booked : Parented(r)'
    BY <2>1, <2>2, QuietParents
  <2>4. Stored' = Stored
    BY <2>1 DEF Stored
  <2>5. ASSUME NEW r \in Stored PROVE Spares(h, r)'
    <3>1. r \in entries'[h]
      BY <2>1, <2>5 DEF Stored
    <3>2. QED
      BY <2>1, <3>1 DEF Spares, Refused
  <2>6. ParentsInv'
    BY <2>1, <2>3, <2>4, <2>5, ParentsStay DEF Starts
  <2>7. QED
    BY <2>1, <2>2, <2>6, QuietTasks
<1>8. CASE CommonSaveProject(h)
  <2>1. /\ Frame({h}) /\ pc[h] = "common_save" /\ pc'[h] = "done"
        /\ DOMAIN project' = DOMAIN project \cup {call[h].project}
        /\ project'[call[h].project] = Amended(h)
        /\ \A p \in DOMAIN project : p # call[h].project => project'[p] = project[p]
    BY <1>8, CommonSaveProjectDoes
  <2>2. pc[h] \in ProjectSteps
    BY <2>1 DEF ProjectSteps
  <2>3. UNCHANGED <<entry, outdated>>
    BY <1>8 DEF CommonSaveProject
  <2>4. /\ call[h].op \notin {"addTask", "removeTask"} => Amended(h).tasks = copy[h].tasks
        /\ \A t \in copy[h].tasks :
             \/ t \in Amended(h).tasks
             \/ call[h].op = "removeTask" /\ call[h].task = t /\ ~Refused(h)
    BY <2>1, AmendedDoes
  <2>5. \A r \in Booked : Parented(r)'
    BY <2>1, <2>2, <2>4, SaveParents
  <2>6. TasksInv'
    BY <2>1, <2>2, <2>4, SaveTasks
  <2>7. QED
    BY <2>1, <2>3, <2>5, <2>6, UnstoredParents
<1>9. QED
  BY <1>1, <1>2, <1>3, <1>4, <1>5, <1>6, <1>7, <1>8 DEF Project

(* A row that is asked for has its parents after the step that takes it,   *)
(* unless the entry is recorded as outdated.                               *)
LEMMA AskedParents ==
    ASSUME TypeOK, CallsInv, TasksInv, ParentsInv, NEW h \in Calls, Frame({h}),
           project' = project, \A p : h \notin Saving(p)',
           NEW n, NEW r \in EntryRow, AskedFor(n, r), n \notin outdated'
    PROVE  Parented(r)'
<1>1. CASE Current(r)
  <2>1. Parented(r)
    BY <1>1, CurrentParents
  <2>2. (RemoveRaced => RemoveRaced') /\ (TasksRaced => TasksRaced')
    BY RacesStay
  <2>3. QED
    BY <2>1, <2>2, ParentStays DEF Parented
<1>2. CASE n \in DOMAIN entry \ outdated /\ r = entry[n]
  <2>1. r \in Booked
    BY <1>2 DEF Booked, Stored
  <2>2. QED
    BY <2>1, QuietParents
<1>3. QED
  BY <1>1, <1>2 DEF AskedFor

LEMMA EntryKeeps ==
    ASSUME TypeOK, CallsInv, TasksInv, ParentsInv, NEW h \in Calls, Entry(h)
    PROVE  TasksInv' /\ ParentsInv'
<1>1. CASE PostReadUser(h)
  <2>1. /\ Frame({h}) /\ UNCHANGED <<project, entry>> /\ pc'[h] = "entry_save"
        /\ call'[h].data \in EntryRow /\ AskedFor(h, call'[h].data)
    BY <1>1, PostReadUserDoes
  <2>2. \A p : h \notin Saving(p)'
    BY <2>1 DEF Saving, ProjectSteps
  <2>3. \A r : Starts(h, r) => Parented(r)'
    BY <2>1, <2>2, AskedParents DEF Starts
  <2>4. QED
    BY <2>1, <2>2, <2>3, QuietTasks, WriterParents
<1>2. CASE PutReadEntry(h) \/ PutReadRequest(h)
  <2>1. /\ Frame({h}) /\ UNCHANGED <<project, entry>> /\ pc'[h] = "entry_update"
        /\ copy'[h] \in EntryRow /\ AskedFor(call'[h].id, copy'[h])
    BY <1>2, PutReadEntryDoes
  <2>2. \A p : h \notin Saving(p)'
    BY <2>1 DEF Saving, ProjectSteps
  <2>3. \A r : Starts(h, r) => Parented(r)'
    BY <2>1, <2>2, AskedParents DEF Starts
  <2>4. QED
    BY <2>1, <2>2, <2>3, QuietTasks, WriterParents
<1>3. CASE PostSaveEntry(h)
  <2>1. /\ Frame({h}) /\ UNCHANGED <<project, call, copy, outdated>>
        /\ pc[h] = "entry_save" /\ pc'[h] = "done"
        /\ DOMAIN entry' = DOMAIN entry \cup {h} /\ entry'[h] = call[h].data
        /\ \A m \in DOMAIN entry : m # h => entry'[m] = entry[m]
    BY <1>3, PostSaveEntryDoes
  <2>2. \A p : h \notin Saving(p)'
    BY <2>1 DEF Saving, ProjectSteps
  <2>3. h \in outdated \/ call[h].data \in Coming
    BY <2>1, Places DEF Coming, InFlight
  <2>4. QED
    BY <2>1, <2>2, <2>3, QuietTasks, StoreParents
<1>4. CASE PutSaveEntry(h)
  <2>1. /\ Frame({h}) /\ UNCHANGED <<project, call, copy, outdated>>
        /\ pc[h] = "entry_update" /\ pc'[h] = "done" /\ call[h].id \in Calls
        /\ DOMAIN entry' = DOMAIN entry \cup {call[h].id} /\ entry'[call[h].id] = copy[h]
        /\ \A m \in DOMAIN entry : m # call[h].id => entry'[m] = entry[m]
    BY <1>4, PutSaveEntryDoes
  <2>2. \A p : h \notin Saving(p)'
    BY <2>1 DEF Saving, ProjectSteps
  <2>3. call[h].id \in outdated \/ copy[h] \in Coming
    BY <2>1, Places DEF Coming, InFlight
  <2>4. QED
    BY <2>1, <2>2, <2>3, QuietTasks, StoreParents
<1>5. QED
  BY <1>1, <1>2, <1>3, <1>4 DEF Entry

LEMMA NextIInv == IInv /\ [Next]_vars => IInv'
<1> SUFFICES ASSUME IInv, [Next]_vars PROVE IInv'
  OBVIOUS
<1> USE DEF IInv
<1>1. TypeOK' /\ CallsInv'
  BY StepDoes
<1>2. ASSUME NEW h \in Calls, Abort(h) PROVE TasksInv' /\ ParentsInv'
  <2>1. /\ Frame({h}) /\ pc'[h] = "failed" /\ UNCHANGED <<project, entry, call, copy, outdated>>
    BY <1>2, AbortDoes
  <2>2. \A p : h \notin Saving(p)'
    BY <2>1 DEF Saving, ProjectSteps
  <2>3. \A r \in Booked : Parented(r)'
    BY <2>1, <2>2, QuietParents
  <2>4. QED
    BY <2>1, <2>2, <2>3, QuietTasks, UnstoredParents
<1>3. ASSUME NEW p \in Projects, PostProject(p) PROVE TasksInv' /\ ParentsInv'
  <2>1. Frame({}) /\ UNCHANGED <<entry, outdated>>
    BY <1>3, PostProjectDoes
  <2>2. \A r \in Booked : Parented(r)'
    BY <1>3, PostParents
  <2>3. QED
    BY <1>3, <2>1, <2>2, PostTasks, UnstoredParents
<1>4. ASSUME NEW n \in Calls, DeleteEntry(n) \/ WriteBack(n) PROVE TasksInv' /\ ParentsInv'
  <2>1. /\ Frame({}) /\ project' = project
        /\ \A m \in DOMAIN entry' \ outdated' : m \in DOMAIN entry /\ entry'[m] = entry[m]
    BY <1>4, DeleteEntryDoes, WriteBackDoes
  <2>2. \A r \in Booked : Parented(r)'
    BY <2>1, QuietParents
  <2>3. QED
    BY <2>1, <2>2, QuietTasks, UnstoredParents
<1>5. CASE UNCHANGED vars
  <2>1. Frame({}) /\ UNCHANGED <<project, entry, outdated>>
    BY <1>5, QuietFrame DEF vars
  <2>2. \A r \in Booked : Parented(r)'
    BY <2>1, QuietParents
  <2>3. QED
    BY <1>1, <2>1, <2>2, QuietTasks, UnstoredParents
<1>6. QED
  BY <1>1, <1>2, <1>3, <1>4, <1>5, ProjectKeeps, EntryKeeps DEF Next

(* The invariant holds in every reachable state of the projects' and       *)
(* entries' handlers.                                                      *)
THEOREM ProjectsInductive == Spec => []IInv
  BY InitIInv, NextIInv, PTL DEF Spec

(* Every table of the projects' and entries' handlers stays well typed: a  *)
(* call has a project's or an entry's row as its operation calls for.      *)
THEOREM ProjectsTypeCorrect == Spec => []TypeOK
<1>1. IInv => TypeOK
  BY DEF IInv
<1>2. QED
  BY <1>1, ProjectsInductive, PTL

(* Every entry names a stored project and a task of it, for any number of  *)
(* projects and calls, unless a deletion, the removal or the addition of a *)
(* task raced as EntriesHaveParents says, or the entry was saved from a    *)
(* row it no longer had, or for a task that was gone when the call came.   *)
THEOREM ProjectsEntriesHaveParents == Spec => []EntriesHaveParents
<1>1. IInv => EntriesHaveParents
  <2> SUFFICES ASSUME IInv, NEW n \in DOMAIN entry, n \notin outdated
               PROVE  Parented(entry[n])
    BY DEF EntriesHaveParents, Parented, DeleteRaced, RemoveRaced, TasksRaced
  <2>1. entry[n] \in Stored
    BY DEF Stored
  <2>2. QED
    BY <2>1 DEF IInv, ParentsInv
<1>2. QED
  BY <1>1, ProjectsInductive, PTL

-----------------------------------------------------------------------------
(* The stopwatch. *)
(* Formatting a number of seconds and parsing it again gives it back, if   *)
(* it is not negative.                                                     *)
LEMMA ParseFormat ==
    ASSUME NEW s \in Nat
    PROVE  /\ T!Parse(T!Format(s)) = s
           /\ T!Format(s) \in T!HMS
  BY DEF T!Parse, T!Format, T!HMS, T!Remainder, T!Hour, T!Minute

LEMMA FormatType ==
    ASSUME NEW s \in Int
    PROVE  T!Format(s) \in T!HMS
  BY DEF T!Format, T!HMS, T!Remainder, T!Hour, T!Minute

LEMMA ParseType ==
    ASSUME NEW t \in T!HMS
    PROVE  T!Parse(t) \in Int
<1>1. t[1] \in Int /\ t[2] \in Int /\ t[3] \in Int
  BY DEF T!HMS
<1>2. QED
  BY <1>1 DEF T!Parse, T!Hour, T!Minute

LEMMA ParseTimeOfDay ==
    ASSUME NEW t \in Nat
    PROVE  /\ T!Parse(T!TimeOfDay(t)) = t % T!Day
           /\ T!TimeOfDay(t) \in T!HMS
<1>1. t % T!Day \in Nat
  BY DEF T!Day, T!Hour, T!Minute
<1>2. QED
  BY <1>1, ParseFormat DEF T!TimeOfDay

(* Within a day the times of day differ by what has passed. *)
LEMMA SameDay ==
    ASSUME NEW a \in Nat, NEW b \in Nat, a \div T!Day = b \div T!Day
    PROVE  (b % T!Day) - (a % T!Day) = b - a
  BY DEF T!Day, T!Hour, T!Minute

(* addTime adds the time that has passed since startTime, provided both    *)
(* are readings of one clock on one day.                                   *)
THEOREM AddTimeAdds ==
    ASSUME NEW d \in T!HMS, T!Parse(d) \in Nat,
           NEW a \in Nat, NEW b \in Nat, a <= b, a \div T!Day = b \div T!Day
    PROVE  T!Parse(T!AddTime(d, T!TimeOfDay(a), b)) = T!Parse(d) + (b - a)
<1>1. T!Parse(T!TimeOfDay(b)) - T!Parse(T!TimeOfDay(a)) = b - a
  BY ParseTimeOfDay, SameDay
<1>2. T!Parse(d) + (b - a) \in Nat
  OBVIOUS
<1>3. QED
  BY <1>1, <1>2, ParseFormat DEF T!AddTime
-----------------------------------------------------------------------------
LEMMA AddTimeType ==
    ASSUME NEW d \in T!HMS, NEW t \in T!HMS, NEW now \in Nat
    PROVE  T!AddTime(d, t, now) \in T!HMS
  BY ParseType, ParseTimeOfDay, FormatType DEF T!AddTime

LEMMA EditedType ==
    ASSUME NEW r \in T!Row, NEW d \in Nat \cup {T!Unsent}
    PROVE  T!Edited(r, d) \in T!Row
<1>1. CASE d = T!Unsent
  BY <1>1 DEF T!Edited
<1>2. CASE d # T!Unsent
  <2>1. T!Format(d) \in T!HMS
    BY <1>2, ParseFormat
  <2>2. QED
    BY <1>2, <2>1 DEF T!Edited, T!Row
<1>3. QED
  BY <1>1, <1>2

(* Whatever the method, what it leaves is a row. *)
LEMMA ChangedType ==
    ASSUME NEW r \in T!Row, NEW m \in T!Methods, NEW d \in Nat \cup {T!Unsent},
           NEW now \in Nat
    PROVE  T!Changed(r, m, d, now) \in T!Row
<1> DEFINE e == T!Edited(r, d)
<1>1. e \in T!Row
  BY EditedType
<1> HIDE DEF e
<1>2. T!SetGoing(e, now) \in T!Row
  BY <1>1, ParseTimeOfDay DEF T!SetGoing, T!Row
<1>3. T!AddTime(e.duration, e.startTime, now) \in T!HMS
  BY <1>1, AddTimeType DEF T!Row
<1>4. T!Halt(e, now) \in T!Row
  BY <1>1, <1>3 DEF T!Halt, T!Row
<1>5. CASE m = "none"
  BY <1>1, <1>5 DEF T!Changed, e
<1>6. CASE m = "start"
  BY <1>2, <1>6 DEF T!Changed, T!Row, e
<1>7. CASE m = "resume"
  BY <1>2, <1>7 DEF T!Changed, e
<1>8. CASE m = "pause"
  BY <1>4, <1>8 DEF T!Changed, e
<1>9. CASE m = "stop"
  BY <1>1, <1>4, <1>9 DEF T!Changed, T!Row, e
<1>10. QED
  BY <1>5, <1>6, <1>7, <1>8, <1>9 DEF T!Methods

LEMMA InitInv == T!Init => T!IInv
<1> SUFFICES ASSUME T!Init PROVE T!IInv
  OBVIOUS
<1> USE ClockAssumption
<1>1. PICK z \in Zones, d \in Durations, going \in BOOLEAN :
         /\ watch = [start |-> going, inProgress |-> going, duration |-> T!Format(d),
                     startTime |-> IF going THEN T!TimeOfDay(clock + z) ELSE T!Format(0)]
         /\ since = [t |-> clock, zone |-> z]
         /\ worked = d
  BY DEF T!Init
<1>2. clock \in Nat /\ z \in Nat /\ d \in Nat /\ clock + z \in Nat
  BY DEF T!Init
<1>3. /\ T!Format(d) \in T!HMS /\ T!Parse(T!Format(d)) = d
      /\ T!TimeOfDay(clock + z) \in T!HMS /\ T!Format(0) \in T!HMS
  BY <1>2, ParseFormat, ParseTimeOfDay
<1>4. T!TypeOK
  <2>1. watch \in T!Row
    BY <1>1, <1>3 DEF T!Row
  <2>2. QED
    BY <1>1, <1>2, <2>1 DEF T!Init, T!TypeOK, T!Cause, T!NoRows, T!IsTable
<1>5. T!WatchInv
  BY <1>1, <1>2, <1>3 DEF T!WatchInv
<1>6. T!CallsInv
  BY DEF T!Init, T!CallsInv, T!Going, T!NoRows
<1>7. QED
  BY <1>4, <1>5, <1>6 DEF T!IInv
-----------------------------------------------------------------------------
LEMMA TickInv == T!IInv /\ T!Tick => T!IInv'
<1> SUFFICES ASSUME T!IInv, T!Tick PROVE T!IInv'
  OBVIOUS
<1> USE ClockAssumption
<1>1. /\ clock \in Nat /\ clock' \in Instants /\ clock' > clock
      /\ UNCHANGED <<watch, watchPc, watchCall, watchCopy, watchHeld, since, worked, blots>>
  BY DEF T!IInv, T!TypeOK, T!Tick, T!ghosts
<1>2. T!TypeOK'
  BY <1>1 DEF T!IInv, T!TypeOK
<1>3. T!WatchInv'
  <2>1. since.t \in Nat
    BY DEF T!IInv, T!TypeOK
  <2>2. QED
    BY <1>1, <2>1 DEF T!IInv, T!WatchInv
<1>4. T!CallsInv'
  <2>1. \A h \in DOMAIN watchCall : watchCall[h].at \in Nat
    BY DEF T!IInv, T!TypeOK, T!IsTable
  <2>2. \A h \in Calls : T!Going(h)' <=> T!Going(h)
    BY <1>1 DEF T!Going
  <2>3. \A h \in DOMAIN watchCall : watchCall[h].at <= clock'
    <3>1. \A h \in DOMAIN watchCall : watchCall[h].at <= clock
      BY DEF T!IInv, T!CallsInv
    <3>2. \A x \in Nat : x <= clock => x <= clock'
      BY <1>1
    <3>3. QED
      BY <2>1, <3>1, <3>2
  <2>4. \A h \in DOMAIN watchCall : T!Sound(h)' <=> T!Sound(h)
    BY <1>1 DEF T!Sound
  <2>5. QED
    BY <1>1, <2>2, <2>3, <2>4 DEF T!IInv, T!CallsInv
<1>5. QED
  BY <1>2, <1>3, <1>4 DEF T!IInv

(* A call goes on with what its method makes of row: the one it has read,  *)
(* or one that it was sent.                                                *)
LEMMA CallBegins ==
    ASSUME NEW h \in Calls, NEW m \in T!Methods, NEW z \in Zones,
           NEW d \in Durations \cup {T!Unsent}, NEW row \in T!Row, T!IInv,
           watchPc[h] = "idle", watchPc' = [watchPc EXCEPT ![h] = "put_save"],
           watchCall' = T!Save(watchCall, h, T!Put(h, m, d, z)),
           watchCopy' = T!Save(watchCopy, h, T!Changed(row, m, d, clock + z)),
           blots' = blots \cup T!Doubts(watch, m, z) \cup T!Older(row),
           UNCHANGED <<clock, watch, watchHeld, since, worked>>
    PROVE  T!IInv'
<1> USE ClockAssumption
<1> DEFINE k == T!Put(h, m, d, z)
           r == T!Changed(row, m, d, clock + z)
<1>1. watchPc \in [Calls -> {"idle", "put_save", "done", "failed"}]
  BY DEF T!IInv, T!TypeOK
<1>2. /\ d \in Nat \cup {T!Unsent}
      /\ clock \in Nat /\ z \in Nat /\ since.t \in Nat
  BY DEF T!IInv, T!TypeOK
<1>3. /\ DOMAIN watchCall' = DOMAIN watchCall \cup {h}
      /\ DOMAIN watchCopy' = DOMAIN watchCopy \cup {h}
      /\ watchCall'[h] = k /\ watchCopy'[h] = r
      /\ \A g \in DOMAIN watchCall : g # h => watchCall'[g] = watchCall[g]
  <2> HIDE DEF k, r
  <2>1. watchCall' = T!Save(watchCall, h, k) /\ watchCopy' = T!Save(watchCopy, h, r)
    BY DEF k, r
  <2>2. QED
    BY <2>1 DEF T!Save
<1>4. T!TypeOK'
  <2>1. r \in T!Row
    BY <1>2, ChangedType
  <2>2. T!IsTable(watchCopy', Calls, T!Row)
    BY <2>1 DEF T!IInv, T!TypeOK, T!Save, T!IsTable
  <2>3. k \in [method: T!Methods, at: Instants, zone: Zones,
            duration: Nat \cup {T!Unsent}]
    BY <1>2 DEF T!Put, T!IInv, T!TypeOK
  <2>4. T!IsTable(watchCall', Calls, [method: T!Methods, at: Instants, zone: Zones,
                               duration: Nat \cup {T!Unsent}])
    <3> HIDE DEF k
    <3>1. watchCall' = T!Save(watchCall, h, k)
      BY DEF k
    <3>2. QED
      BY <2>3, <3>1 DEF T!IInv, T!TypeOK, T!Save, T!IsTable
  <2>5. blots' \subseteq T!Cause
    BY DEF T!Doubts, T!Older, T!Cause, T!IInv, T!TypeOK
  <2>6. QED
    BY <1>1, <2>2, <2>4, <2>5 DEF T!IInv, T!TypeOK
<1>5. T!WatchInv'
  BY DEF T!IInv, T!WatchInv
<1>6. \A g \in Calls : T!Going(g)' <=> g \in DOMAIN watchCall'
  BY <1>1, <1>3 DEF T!Going, T!IInv, T!CallsInv
<1>7. DOMAIN watchCopy' = DOMAIN watchCall'
  BY <1>3 DEF T!IInv, T!CallsInv
<1>8. \A g \in DOMAIN watchCall' : watchCall'[g].at <= clock'
  BY <1>1, <1>2, <1>3 DEF T!IInv, T!CallsInv, T!Put
<1>9. ASSUME blots' = {}
       PROVE  \A g \in DOMAIN watchCall' : DOMAIN watchCall' = {g} /\ T!Sound(g)'
  <2>1. T!Doubts(watch, m, z) = {} /\ blots = {} /\ row = watch
    BY <1>9 DEF T!Older
  <2>2. \A g \in Calls : ~T!Going(g)
    BY <2>1 DEF T!Doubts
  <2>3. DOMAIN watchCall' = {h}
    BY <1>3, <2>2 DEF T!IInv, T!CallsInv, T!TypeOK, T!IsTable
  <2>4. /\ m = "pause" => watch.inProgress
        /\ m \in {"start", "resume"} => ~watch.inProgress
    BY <2>1 DEF T!Doubts
  <2>5. m \in {"pause", "stop"} /\ watch.inProgress =>
          /\ since.zone = z
          /\ (since.t + z) \div T!Day = (clock + z) \div T!Day
    BY <2>1 DEF T!Doubts
  <2>6. since.t <= clock
    BY <2>1 DEF T!IInv, T!WatchInv
  <2>7. k.method = m /\ k.duration = d /\ k.at = clock /\ k.zone = z
    BY DEF T!Put
  <2>8. T!Sound(h)'
    BY <1>3, <2>1, <2>4, <2>5, <2>6, <2>7 DEF T!Sound
  <2>9. QED
    BY <2>3, <2>8
<1>10. QED
  BY <1>4, <1>5, <1>6, <1>7, <1>8, <1>9 DEF T!IInv, T!CallsInv

LEMMA PutReadInv == ASSUME NEW h \in Calls PROVE T!IInv /\ T!PutRead(h) => T!IInv'
<1> SUFFICES ASSUME T!IInv, T!PutRead(h) PROVE T!IInv'
  OBVIOUS
<1>1. PICK m \in T!Methods, z \in Zones, d \in Durations \cup {T!Unsent} :
         /\ watchCall' = T!Save(watchCall, h, T!Put(h, m, d, z))
         /\ watchCopy' = T!Save(watchCopy, h, T!Changed(watch, m, d, clock + z))
         /\ blots' = blots \cup T!Doubts(watch, m, z)
  BY DEF T!PutRead
<1>2. /\ watchPc[h] = "idle" /\ watchPc' = [watchPc EXCEPT ![h] = "put_save"]
      /\ UNCHANGED <<clock, watch, watchHeld, since, worked>>
  BY DEF T!PutRead
<1>3. watch \in T!Row /\ T!Older(watch) = {}
  BY DEF T!IInv, T!TypeOK, T!Older
<1>4. QED
  BY <1>1, <1>2, <1>3, CallBegins

LEMMA PutReadRequestInv ==
    ASSUME NEW h \in Calls
    PROVE  T!IInv /\ T!PutReadRequest(h) => T!IInv'
<1> SUFFICES ASSUME T!IInv, T!PutReadRequest(h) PROVE T!IInv'
  OBVIOUS
<1>1. PICK r \in watchHeld, z \in Zones, d \in Durations \cup {T!Unsent} :
         /\ watchCall' = T!Save(watchCall, h, T!Put(h, "none", d, z))
         /\ watchCopy' = T!Save(watchCopy, h, T!Edited(r, d))
         /\ blots' = blots \cup T!Doubts(watch, "none", z) \cup T!Older(r)
  BY DEF T!PutReadRequest
<1>2. /\ watchPc[h] = "idle" /\ watchPc' = [watchPc EXCEPT ![h] = "put_save"]
      /\ UNCHANGED <<clock, watch, watchHeld, since, worked>>
  BY DEF T!PutReadRequest
<1>3. r \in T!Row /\ "none" \in T!Methods
  BY DEF T!IInv, T!TypeOK, T!Methods
<1>4. T!Edited(r, d) = T!Changed(r, "none", d, clock + z)
  BY DEF T!Changed
<1>5. QED
  BY <1>1, <1>2, <1>3, <1>4, CallBegins

(* A row that is written back is the one the entry has, or noted as not.   *)
LEMMA WriteBackInv == T!IInv /\ T!WriteBack => T!IInv'
<1> SUFFICES ASSUME T!IInv, T!WriteBack PROVE T!IInv'
  OBVIOUS
<1>1. PICK r \in watchHeld : watch' = r /\ blots' = blots \cup T!Older(r)
  BY DEF T!WriteBack
<1>2. UNCHANGED <<clock, watchPc, watchCall, watchCopy, watchHeld, since, worked>>
  BY DEF T!WriteBack
<1>3. blots' = {} => blots = {} /\ watch' = watch
  BY <1>1 DEF T!Older
<1>4. r \in T!Row /\ blots' \subseteq T!Cause
  BY <1>1 DEF T!IInv, T!TypeOK, T!Older, T!Cause
<1>5. T!TypeOK'
  BY <1>1, <1>2, <1>4 DEF T!IInv, T!TypeOK
<1>6. T!WatchInv'
  BY <1>2, <1>3 DEF T!IInv, T!WatchInv
<1>7. \A h \in Calls : T!Going(h)' <=> T!Going(h)
  BY <1>2 DEF T!Going
<1>8. blots' = {} => \A h \in DOMAIN watchCall : T!Sound(h)' <=> T!Sound(h)
  BY <1>2, <1>3 DEF T!Sound
<1>9. T!CallsInv'
  BY <1>2, <1>3, <1>7, <1>8 DEF T!IInv, T!CallsInv
<1>10. QED
  BY <1>5, <1>6, <1>9 DEF T!IInv
-----------------------------------------------------------------------------
(* A call that ends leaves the others as they were. *)
LEMMA Ended ==
    ASSUME NEW h \in Calls, NEW to \in {"done", "failed"}, T!IInv, T!Going(h),
           watchPc' = [watchPc EXCEPT ![h] = to], T!Forget(h), UNCHANGED clock
    PROVE  /\ T!IsTable(watchCall', Calls, [method: T!Methods, at: Instants, zone: Zones,
                                     duration: Nat \cup {T!Unsent}])
           /\ T!IsTable(watchCopy', Calls, T!Row)
           /\ watchPc' \in [Calls -> {"idle", "put_save", "done", "failed"}]
           /\ \A g \in Calls : T!Going(g)' <=> g \in DOMAIN watchCall'
           /\ DOMAIN watchCopy' = DOMAIN watchCall'
           /\ \A g \in DOMAIN watchCall' : watchCall'[g].at <= clock'
           /\ blots = {} => DOMAIN watchCall' = {}
<1>1. watchCall' = T!Delete(watchCall, h) /\ watchCopy' = T!Delete(watchCopy, h)
  BY DEF T!Forget
<1>2. /\ DOMAIN watchCall' = DOMAIN watchCall \ {h} /\ DOMAIN watchCopy' = DOMAIN watchCopy \ {h}
      /\ \A g \in DOMAIN watchCall' : watchCall'[g] = watchCall[g]
  BY <1>1 DEF T!Delete
<1>3. /\ T!IsTable(watchCall', Calls, [method: T!Methods, at: Instants, zone: Zones,
                                duration: Nat \cup {T!Unsent}])
      /\ T!IsTable(watchCopy', Calls, T!Row)
  BY <1>1 DEF T!IInv, T!TypeOK, T!Delete, T!IsTable
<1>4. watchPc' \in [Calls -> {"idle", "put_save", "done", "failed"}]
  BY DEF T!IInv, T!TypeOK
<1>5. \A g \in Calls : T!Going(g)' <=> g \in DOMAIN watchCall'
  BY <1>2 DEF T!Going, T!IInv, T!CallsInv, T!TypeOK
<1>6. /\ DOMAIN watchCopy' = DOMAIN watchCall'
      /\ \A g \in DOMAIN watchCall' : watchCall'[g].at <= clock'
  BY <1>2 DEF T!IInv, T!CallsInv
<1>7. blots = {} => DOMAIN watchCall' = {}
  BY <1>2 DEF T!IInv, T!CallsInv
<1>8. QED
  BY <1>3, <1>4, <1>5, <1>6, <1>7

LEMMA PutFailsInv == ASSUME NEW h \in Calls PROVE T!IInv /\ T!PutFails(h) => T!IInv'
<1> SUFFICES ASSUME T!IInv, T!PutFails(h) PROVE T!IInv'
  OBVIOUS
<1>1. /\ T!Going(h) /\ watchPc' = [watchPc EXCEPT ![h] = "failed"] /\ T!Forget(h)
      /\ UNCHANGED <<clock, watch, watchHeld, since, worked, blots>>
  BY DEF T!PutFails, T!ghosts
<1>2. T!TypeOK'
  BY <1>1, Ended DEF T!IInv, T!TypeOK
<1>3. T!WatchInv'
  BY <1>1 DEF T!IInv, T!WatchInv
<1>4. T!CallsInv'
  BY <1>1, Ended DEF T!CallsInv
<1>5. QED
  BY <1>2, <1>3, <1>4 DEF T!IInv

(* Saving what a sound call has made keeps the duration the time worked:   *)
(* a duration that is sent sets both, a pause or a stop adds what has      *)
(* passed.                                                                 *)
LEMMA PutSaveWatch ==
    ASSUME NEW h \in Calls, T!IInv, T!PutSave(h), blots = {}
    PROVE  T!WatchInv'
<1> USE ClockAssumption
<1> DEFINE k == watchCall[h]
           now == k.at + k.zone
           e == T!Edited(watch, k.duration)
           base == IF k.duration = T!Unsent THEN worked ELSE k.duration
<1>1. /\ h \in DOMAIN watchCall /\ T!Sound(h)
      /\ watch' = watchCopy[h] /\ clock' = clock
      /\ since' = IF k.method \in {"start", "resume"} /\ ~watch.inProgress
                  THEN [t |-> k.at, zone |-> k.zone] ELSE since
      /\ worked' = IF k.method \in {"pause", "stop"} /\ watch.inProgress
                   THEN base + (k.at - since.t) ELSE base
  BY DEF T!PutSave, T!IInv, T!CallsInv
<1>2. /\ k \in [method: T!Methods, at: Instants, zone: Zones,
                duration: Nat \cup {T!Unsent}]
      /\ k.method \in T!Methods /\ k.duration \in Nat \cup {T!Unsent}
      /\ k.at \in Nat /\ k.zone \in Nat /\ k.at <= clock /\ now \in Nat
  BY <1>1 DEF T!IInv, T!TypeOK, T!IsTable, T!CallsInv
<1>3. /\ watch \in T!Row /\ since \in [t: Instants, zone: Zones]
      /\ since.t \in Nat /\ since.zone \in Nat /\ since.t <= clock
      /\ worked \in Nat /\ T!Parse(watch.duration) = worked
      /\ watch.inProgress => watch.startTime = T!TimeOfDay(since.t + since.zone)
  BY DEF T!IInv, T!TypeOK, T!WatchInv
<1>4. watch' = T!Changed(watch, k.method, k.duration, now)
  BY <1>1 DEF T!Sound
<1>5. /\ e \in T!Row /\ base \in Nat /\ T!Parse(e.duration) = base
      /\ e.startTime = watch.startTime /\ e.inProgress = watch.inProgress
  <2>1. CASE k.duration = T!Unsent
    BY <1>3, <2>1 DEF T!Edited
  <2>2. CASE k.duration # T!Unsent
    <3>1. k.duration \in Nat /\ base = k.duration
      BY <1>2, <2>2
    <3>2. T!Parse(T!Format(k.duration)) = k.duration /\ T!Format(k.duration) \in T!HMS
      BY <3>1, ParseFormat
    <3>3. e = [watch EXCEPT !.duration = T!Format(k.duration)]
      BY <2>2 DEF T!Edited
    <3>4. QED
      BY <1>3, <3>1, <3>2, <3>3 DEF T!Row
  <2>3. QED
    BY <2>1, <2>2
<1> HIDE DEF k, now, base
<1>6. CASE k.method \in {"start", "resume"}
  <2>1. /\ watch'.duration = e.duration
        /\ watch'.startTime = T!TimeOfDay(now)
    <3> HIDE DEF e
    <3>1. watch' = [T!SetGoing(e, now) EXCEPT !.start = TRUE] \/ watch' = T!SetGoing(e, now)
      BY <1>4, <1>6 DEF T!Changed, e
    <3>2. QED
      BY <1>5, <3>1 DEF T!SetGoing, T!Row
  <2>2. ~watch.inProgress
    BY <1>1, <1>6 DEF T!Sound, k
  <2>3. worked' = base /\ since' = [t |-> k.at, zone |-> k.zone]
    BY <1>1, <1>6, <2>2
  <2>4. QED
    BY <1>1, <1>2, <1>5, <2>1, <2>3 DEF T!WatchInv, now
<1>7. CASE k.method \in {"pause", "stop"} /\ watch.inProgress
  <2>1. /\ watch'.duration = T!AddTime(e.duration, e.startTime, now)
        /\ ~watch'.inProgress
    <3> HIDE DEF e
    <3>1. watch' = T!Halt(e, now) \/ watch' = [T!Halt(e, now) EXCEPT !.start = FALSE]
      BY <1>4, <1>5, <1>7 DEF T!Changed, e
    <3>2. QED
      BY <1>5, <3>1 DEF T!Halt, T!Row
  <2>2. /\ since.t <= k.at /\ since.zone = k.zone
        /\ (since.t + k.zone) \div T!Day = now \div T!Day
    BY <1>1, <1>7 DEF T!Sound, k, now
  <2>3. T!Parse(T!AddTime(e.duration, e.startTime, now))
          = T!Parse(e.duration) + (now - (since.t + k.zone))
    <3>1. /\ e.duration \in T!HMS /\ T!Parse(e.duration) \in Nat
          /\ e.startTime = T!TimeOfDay(since.t + k.zone)
      BY <1>3, <1>5, <1>7, <2>2 DEF T!Row
    <3>2. since.t + k.zone \in Nat /\ since.t + k.zone <= now
      BY <1>2, <1>3, <2>2 DEF now
    <3>3. QED
      BY <1>2, <2>2, <3>1, <3>2, AddTimeAdds
  <2>4. worked' = base + (k.at - since.t) /\ since' = since
    BY <1>1, <1>7
  <2>5. T!Parse(watch'.duration) = worked' /\ worked' \in Nat
    <3>1. T!Parse(watch'.duration) = base + (now - (since.t + k.zone))
      BY <1>5, <2>1, <2>3
    <3>2. QED
      BY <1>2, <1>3, <1>5, <2>2, <2>4, <3>1 DEF now
  <2>6. QED
    BY <1>1, <1>3, <2>1, <2>4, <2>5 DEF T!WatchInv
<1>8. CASE \/ k.method = "none"
           \/ k.method \in {"pause", "stop"} /\ ~watch.inProgress
  <2>1. watch' = e \/ watch' = [e EXCEPT !.start = FALSE]
    <3> HIDE DEF e
    <3>1. k.method # "pause"
      BY <1>1, <1>8 DEF T!Sound, k
    <3>2. QED
      BY <1>4, <1>5, <1>8, <3>1 DEF T!Changed, e
  <2>2. /\ watch'.duration = e.duration /\ watch'.startTime = e.startTime
        /\ watch'.inProgress = e.inProgress
    <3> HIDE DEF e
    <3>1. QED
      BY <1>5, <2>1 DEF T!Row
  <2>3. worked' = base /\ since' = since
    BY <1>1, <1>8
  <2>4. QED
    BY <1>1, <1>3, <1>5, <2>2, <2>3 DEF T!WatchInv
<1>9. QED
  BY <1>2, <1>6, <1>7, <1>8 DEF T!Methods

LEMMA PutSaveInv == ASSUME NEW h \in Calls PROVE T!IInv /\ T!PutSave(h) => T!IInv'
<1> SUFFICES ASSUME T!IInv, T!PutSave(h) PROVE T!IInv'
  OBVIOUS
<1> USE ClockAssumption
<1>1. /\ T!Going(h) /\ watchPc' = [watchPc EXCEPT ![h] = "done"] /\ T!Forget(h)
      /\ UNCHANGED <<clock, blots>>
  BY DEF T!PutSave
<1>2. T!TypeOK'
  <2>1. h \in DOMAIN watchCall /\ h \in DOMAIN watchCopy
    BY <1>1 DEF T!IInv, T!CallsInv
  <2>2. /\ watchCall[h] \in [method: T!Methods, at: Instants, zone: Zones,
            duration: Nat \cup {T!Unsent}]
        /\ watchCopy[h] \in T!Row
    BY <2>1 DEF T!IInv, T!TypeOK, T!IsTable
  <2>3. watch' \in T!Row /\ watchHeld' \subseteq T!Row
    BY <2>2 DEF T!PutSave, T!IInv, T!TypeOK
  <2>4. since' \in [t: Instants, zone: Zones]
    BY <2>2 DEF T!PutSave, T!IInv, T!TypeOK
  <2>5. worked' \in Int
    <3>1. worked \in Int /\ watchCall[h].duration \in Int
      BY <2>2 DEF T!IInv, T!TypeOK, T!Unsent
    <3>2. watchCall[h].at \in Nat /\ since.t \in Nat
      BY <2>2 DEF T!IInv, T!TypeOK
    <3> DEFINE base == IF watchCall[h].duration = T!Unsent THEN worked ELSE watchCall[h].duration
    <3>3. base \in Int /\ base + (watchCall[h].at - since.t) \in Int
      BY <3>1, <3>2
    <3>4. QED
      BY <3>3 DEF T!PutSave
  <2>6. QED
    BY <1>1, <2>3, <2>4, <2>5, Ended DEF T!IInv, T!TypeOK
<1>3. T!WatchInv'
  <2>1. CASE blots = {}
    BY <2>1, PutSaveWatch
  <2>2. CASE blots # {}
    BY <1>1, <2>2 DEF T!WatchInv
  <2>3. QED
    BY <2>1, <2>2
<1>4. T!CallsInv'
  BY <1>1, Ended DEF T!CallsInv
<1>5. QED
  BY <1>2, <1>3, <1>4 DEF T!IInv

LEMMA StutterInv == T!IInv /\ UNCHANGED T!vars => T!IInv'
<1> SUFFICES ASSUME T!IInv, UNCHANGED T!vars PROVE T!IInv'
  OBVIOUS
<1>1. UNCHANGED stopwatch
  BY DEF stopwatch, T!vars, T!ghosts
<1> USE DEF stopwatch
<1>2. \A h : T!Going(h)' <=> T!Going(h)
  BY <1>1 DEF T!Going
<1>3. \A h : T!Sound(h)' <=> T!Sound(h)
  BY <1>1 DEF T!Sound
<1>4. T!TypeOK' /\ T!WatchInv'
  BY <1>1 DEF T!IInv, T!TypeOK, T!WatchInv
<1>5. T!CallsInv'
  BY <1>1, <1>2, <1>3 DEF T!IInv, T!CallsInv
<1>6. QED
  BY <1>4, <1>5 DEF T!IInv

(* The strengthened invariant holds in every reachable state of the        *)
(* stopwatch, whatever the clock, the zones and the number of calls.       *)
THEOREM TimerInductive == T!Spec => []T!IInv
<1>1. T!IInv /\ [T!Next]_(T!vars) => T!IInv'
  BY TickInv, WriteBackInv, PutReadInv, PutReadRequestInv, PutSaveInv, PutFailsInv, StutterInv
     DEF T!Next, T!Call
<1>2. QED
  BY InitInv, <1>1, PTL DEF T!Spec

(* Rows, calls and copies keep their types: no arithmetic on the strings   *)
(* of a time entry leaves minutes of 60 or more.                           *)
THEOREM TimerTypeCorrect == T!Spec => []T!TypeOK
<1>1. T!IInv => T!TypeOK
  BY DEF T!IInv
<1>2. QED
  BY TimerInductive, <1>1, PTL

(* An entry's duration is the time worked by the clock unless one of the   *)
(* named causes has made it unreliable: the methods of                     *)
(* putProjectsTimeEntries and the saves through a timesheet request lose   *)
(* and invent no second otherwise.                                         *)
THEOREM TimerKeepsTime == T!Spec => []DurationIsWorked
<1>1. T!IInv => DurationIsWorked
  BY DEF T!IInv, T!WatchInv, T!DurationIsWorked, DurationIsWorked
<1>2. QED
  BY TimerInductive, <1>1, PTL

-----------------------------------------------------------------------------
(* Side by side each of the two does what it does alone.                   *)
LEMMA SideBySide == TrackSpec => Spec /\ T!Spec
<1>1. TrackInit => Init /\ T!Init
  BY DEF TrackInit
<1>2. [TrackNext]_<<side, vars, stopwatch>> => [Next]_vars /\ [T!Next]_(T!vars)
  BY DEF TrackNext, stopwatch, T!vars, T!ghosts
<1>3. QED
  BY <1>1, <1>2, PTL DEF TrackSpec, Spec, T!Spec

(* In whatever order the calls on projects, entries and stopwatches come   *)
(* and fail: entries name stored projects and tasks, and the durations are *)
(* the time worked, each with the exceptions that the property names.      *)
THEOREM TrackingIsKept == TrackSpec => []EntriesHaveParents /\ []DurationIsWorked
  BY SideBySide, ProjectsEntriesHaveParents, TimerKeepsTime, PTL
=============================================================================
