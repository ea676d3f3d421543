---------------------------- MODULE TimeProjects ----------------------------
(***************************************************************************)
(* Projects, their tasks and members, and the time entries that refer to   *)
(* them: TimeTrackingService.  A project row holds its tasks and members   *)
(* in JSON columns, so every change to them reads the row and writes it    *)
(* back whole.  Whether a project, a task or a member still has entries is *)
(* looked up in one statement and acted on in a later one.  Each await is  *)
(* a step.                                                                 *)
(*                                                                         *)
(* The id of an entry is the call that posts it.                           *)
(***************************************************************************)
EXTENDS FiniteSets, Rows

CONSTANTS
    Projects,    \* uuids; bounds how many projects are ever posted
    Tasks,       \* uuids of tasks
    Employees,
    Calls        \* HTTP calls; bounds how many are ever made

VARIABLES
    project,     \* hrm_time_projects
    entry,       \* hrm_time_entries
    pc, call,
    copy,        \* copy[h]: the project or entry row call h has read
    entries,     \* entries[h]: the time entries call h has read
    held,        \* held[n]: every row entry n has had; a timesheet request
                 \* or a client may still hold any of them
    posted,      \* history: ids ever given to a project or a task
    outdated,    \* history: entries saved from a row they no longer had, or
                 \* for a task that was not there when the call came
    crossed      \* history: the kinds of calls that were in flight together

vars == <<project, entry, pc, call, copy, entries, held, posted, outdated, crossed>>

ProjectRow == [tasks: SUBSET Tasks, members: SUBSET Employees]
EntryRow   == [project: Projects, task: Tasks, emp: Employees]

(* What putProjectCommon is asked to do.  To edit an employee is, as to    *)
(* add one, to have the employee listed.                                   *)
Methods == {"addTask", "removeTask", "editTask", "addMember", "removeMember"}

Call == [op: {"putProject"}, project: Projects, members: SUBSET Employees]
        \cup [op: {"deleteProject"}, project: Projects]
        \cup [op: Methods, project: Projects, task: Tasks, emp: Employees]
        \cup [op: {"postEntry"}, data: EntryRow]
        \cup [op: {"putEntry"}, id: Calls]

InFlight == {"entry_save", "entry_update", "project_entries", "project_save",
             "common_entries", "common_save", "delete_act"}
Steps == InFlight \cup {"idle", "done", "failed"}

Busy == {h \in DOMAIN call : pc[h] \in InFlight}
Goto(h, from, to) == pc[h] = from /\ pc' = [pc EXCEPT ![h] = to]

Begin(h, c) ==
    /\ call' = Save(call, h, c)
    /\ crossed' = crossed \cup {{c.op, call[x].op} : x \in Busy}

Init ==
    /\ project = NoRows /\ entry = NoRows
    /\ pc = [h \in Calls |-> "idle"]
    /\ call = NoRows /\ copy = NoRows /\ entries = NoRows
    /\ held = [n \in Calls |-> {}]
    /\ posted = {} /\ outdated = {} /\ crossed = {}

SaveEntry(n, r) ==
    /\ entry' = Save(entry, n, r)
    /\ held' = [held EXCEPT ![n] = @ \cup {r}]

Outdated(n, r) == n \notin DOMAIN entry \/ entry[n] # r
-----------------------------------------------------------------------------
(* Slips that a change to the handlers could make; each stands in for the  *)
(* action it is named after.                                               *)

(* A project is deleted whatever entries it has. *)
DeleteReadEntries_Unchecked(h) ==
    /\ \E p \in DOMAIN project :
         /\ Begin(h, [op |-> "deleteProject", project |-> p])
         /\ Goto(h, "idle", "delete_act")
    /\ UNCHANGED <<project, entry, copy, entries, held, posted, outdated>>

-----------------------------------------------------------------------------
(* POST timesheet/projects: postProjectsTime, one statement *)
PostProject(p) ==
    /\ p \notin posted
    /\ \E r \in ProjectRow :
         /\ r.tasks \cap posted = {}
         /\ project' = Save(project, p, r)
         /\ posted' = posted \cup {p} \cup r.tasks
    /\ UNCHANGED <<entry, pc, call, copy, entries, held, outdated, crossed>>

(* PUT timesheet/projects/:id: putProjectsTime.  It may replace the        *)
(* members; the tasks it is sent are given ids and dropped.                *)
PutReadProject(h) ==
    /\ Goto(h, "idle", "project_entries")
    /\ \E p \in DOMAIN project, ms \in SUBSET Employees :
         /\ Begin(h, [op |-> "putProject", project |-> p, members |-> ms])
         /\ copy' = Save(copy, h, [project[p] EXCEPT !.members = ms])
    /\ UNCHANGED <<project, entry, entries, held, posted, outdated>>

PutReadEntries(h) ==
    /\ Goto(h, "project_entries", "project_save")
    /\ UNCHANGED <<project, entry, call, copy, entries, held, posted, outdated,
                   crossed>>

PutSaveProject(h) ==
    /\ Goto(h, "project_save", "done")
    /\ project' = Save(project, call[h].project, copy[h])
    /\ UNCHANGED <<entry, call, copy, entries, held, posted, outdated, crossed>>

(* DELETE timesheet/projects/:id: deleteProjectsTime *)
DeleteReadEntries(h) ==
    /\ \E p \in DOMAIN project :
         /\ Begin(h, [op |-> "deleteProject", project |-> p])
         /\ Goto(h, "idle", IF \E n \in DOMAIN entry : entry[n].project = p
                            THEN "done" ELSE "delete_act")
    /\ UNCHANGED <<project, entry, copy, entries, held, posted, outdated>>

DeleteProject(h) ==
    /\ Goto(h, "delete_act", "done")
    /\ project' = Delete(project, call[h].project)
    /\ UNCHANGED <<entry, call, copy, entries, held, posted, outdated, crossed>>
-----------------------------------------------------------------------------
(* PUT timesheet/project-common: putProjectCommon *)

CommonReadProject(h) ==
    /\ Goto(h, "idle", "common_entries")
    /\ \E p \in DOMAIN project, m \in Methods, t \in Tasks, e \in Employees :
         /\ m = "addTask" => t \notin posted
         /\ m \in {"removeTask", "editTask"} => t \in project[p].tasks
         /\ m = "removeMember" => e \in project[p].members
         /\ Begin(h, [op |-> m, project |-> p, task |-> t, emp |-> e])
         /\ copy' = Save(copy, h, project[p])
         /\ posted' = posted \cup (IF m = "addTask" THEN {t} ELSE {})
    /\ UNCHANGED <<project, entry, entries, held, outdated>>

CommonReadEntries(h) ==
    /\ Goto(h, "common_entries", "common_save")
    /\ entries' = Save(entries, h, {entry[n] : n \in DOMAIN entry})
    /\ UNCHANGED <<project, entry, call, copy, held, posted, outdated, crossed>>

Refused(h) ==
    LET k == call[h] IN
    \/ k.op = "removeTask" /\ \E n \in entries[h] : n.task = k.task
    \/ /\ k.op = "removeMember"
       /\ \E n \in entries[h] : n.emp = k.emp /\ n.project = k.project

Amended(h) ==
    LET k == call[h] r == copy[h] IN
    IF Refused(h) THEN r ELSE
    CASE k.op \in {"addTask", "editTask"}  -> [r EXCEPT !.tasks = @ \cup {k.task}]
      [] k.op = "removeTask"               -> [r EXCEPT !.tasks = @ \ {k.task}]
      [] k.op = "addMember"                -> [r EXCEPT !.members = @ \cup {k.emp}]
      [] k.op = "removeMember"             -> [r EXCEPT !.members = @ \ {k.emp}]

(* The row is saved whether the removal was refused or not. *)
CommonSaveProject(h) ==
    /\ Goto(h, "common_save", "done")
    /\ project' = Save(project, call[h].project, Amended(h))
    /\ UNCHANGED <<entry, call, copy, entries, held, posted, outdated, crossed>>
-----------------------------------------------------------------------------
(* POST timesheet/entry: postProjectsTimeEntries saves what it is sent,    *)
(* after reading the caller's timezone.  The page it is sent from may be   *)
(* older than the removal of a task or the deletion of a project.          *)

Known == {r \in EntryRow : r.project \in posted /\ r.task \in posted}

Current(r) == r.project \in DOMAIN project /\ r.task \in project[r.project].tasks

(* The row asked for is neither the one entry n has nor of a task that is there. *)
Asked(n, r) == outdated' = outdated \cup {x \in {n} : Outdated(x, r) /\ ~Current(r)}

PostReadUser(h) ==
    /\ Goto(h, "idle", "entry_save")
    /\ \E r \in Known :
         /\ Begin(h, [op |-> "postEntry", data |-> r])
         /\ Asked(h, r)
    /\ UNCHANGED <<project, entry, copy, entries, held, posted>>

PostSaveEntry(h) ==
    /\ Goto(h, "entry_save", "done")
    /\ SaveEntry(h, call[h].data)
    /\ UNCHANGED <<project, call, copy, entries, posted, outdated, crossed>>

(* PUT timesheet/entry/:id: putProjectsTimeEntries, which may move the     *)
(* entry to another task, by its project or by its task, or leave it where *)
(* it is.  The projects it reads only name the reply.                      *)
PutReadEntry(h) ==
    /\ Goto(h, "idle", "entry_update")
    /\ \E n \in DOMAIN entry : \E r \in Known \cup {entry[n]} :
         /\ r.emp = entry[n].emp
         /\ Begin(h, [op |-> "putEntry", id |-> n])
         /\ copy' = Save(copy, h, r)
         /\ Asked(n, r)
    /\ UNCHANGED <<project, entry, entries, held, posted>>

(* With a notificationId the entry is not read: the row that the client    *)
(* sends is saved, one it has been shown or the edit of one.               *)
PutReadRequest(h) ==
    /\ Goto(h, "idle", "entry_update")
    /\ \E n \in Calls : \E r \in Known :
         /\ \E x \in held[n] : r.emp = x.emp
         /\ Begin(h, [op |-> "putEntry", id |-> n])
         /\ copy' = Save(copy, h, r)
         /\ Asked(n, r)
    /\ UNCHANGED <<project, entry, entries, held, posted>>

PutSaveEntry(h) ==
    /\ Goto(h, "entry_update", "done")
    /\ SaveEntry(call[h].id, copy[h])
    /\ UNCHANGED <<project, call, copy, entries, posted, outdated, crossed>>

(* DELETE timesheet/entry/:id: deleteProjectsTimeEntries *)
DeleteEntry(n) ==
    /\ n \in DOMAIN entry
    /\ entry' = Delete(entry, n)
    /\ UNCHANGED <<project, pc, call, copy, entries, held, posted, outdated, crossed>>

(* The single statement by which the timesheet requests save the rows they *)
(* hold: postTimesheetRequest and putRequestById of NotificationsService.  *)
WriteBack(n) ==
    /\ \E r \in held[n] :
         /\ SaveEntry(n, r)
         /\ outdated' = outdated \cup {x \in {n} : Outdated(x, r)}
    /\ UNCHANGED <<project, pc, call, copy, entries, posted, crossed>>

(* Any await may throw and the process may stop; what was saved stays.     *)
Abort(h) ==
    /\ pc[h] \in InFlight
    /\ pc' = [pc EXCEPT ![h] = "failed"]
    /\ UNCHANGED <<project, entry, call, copy, entries, held, posted, outdated,
                   crossed>>
-----------------------------------------------------------------------------
Project(h) ==
    \/ PutReadProject(h) \/ PutReadEntries(h) \/ PutSaveProject(h)
    \/ DeleteReadEntries(h) \/ DeleteProject(h)
    \/ CommonReadProject(h) \/ CommonReadEntries(h) \/ CommonSaveProject(h)

Entry(h) ==
    \/ PostReadUser(h) \/ PostSaveEntry(h) \/ PutReadEntry(h) \/ PutReadRequest(h)
    \/ PutSaveEntry(h)

Next ==
    \/ \E h \in Calls : Project(h) \/ Entry(h) \/ Abort(h)
    \/ \E p \in Projects : PostProject(p)
    \/ \E n \in Calls : DeleteEntry(n) \/ WriteBack(n)

Spec == Init /\ [][Next]_vars
-----------------------------------------------------------------------------
TypeOK ==
    /\ IsTable(project, Projects, ProjectRow)
    /\ IsTable(entry, Calls, EntryRow)
    /\ pc \in [Calls -> Steps]
    /\ IsTable(call, Calls, Call)
    /\ IsTable(copy, Calls, ProjectRow \cup EntryRow)
    /\ IsTable(entries, Calls, SUBSET EntryRow)
    /\ held \in [Calls -> SUBSET EntryRow]
    /\ posted \subseteq Projects \cup Tasks
    /\ outdated \subseteq Calls

Crossed(ops, others) == \E x \in ops, y \in others : {x, y} \in crossed

WritesEntry   == {"postEntry", "putEntry"}
WritesProject == {"putProject"} \cup Methods

(* Every entry refers to a stored project and to a task of it: unless the  *)
(* DELETE of a project or the removal of a task crossed with a call that   *)
(* saves an entry; the addition or removal of a task with another call     *)
(* that saves the project and so forgets the task, or brings it back for a *)
(* third to forget; or the entry was saved by a timesheet request from a   *)
(* row it no longer had, or for a task that was gone when the call came.   *)
EntriesHaveParents ==
    \A n \in DOMAIN entry :
      \/ n \in outdated
      \/ /\ entry[n].project \in DOMAIN project \/ Crossed({"deleteProject"}, WritesEntry)
         /\ \/ entry[n].project \notin DOMAIN project
            \/ entry[n].task \in project[entry[n].project].tasks
            \/ Crossed({"removeTask"}, WritesEntry)
            \/ Crossed({"addTask", "removeTask"}, WritesProject)

(* "The project has timesheet entries. so it cannot be deleted"            *)
(* (deleteProjectsTime): a project that has entries is never deleted.      *)
ProjectsWithEntriesStay ==
    [][\A p \in DOMAIN project \ DOMAIN project' :
         \A n \in DOMAIN entry : entry[n].project # p]_vars
-----------------------------------------------------------------------------
(* The inductive strengthening of EntriesHaveParents.  CallsInv puts a     *)
(* call in its place; calls in flight together are recorded as such.       *)
(* TasksInv says that all copies of a project have its tasks, ParentsInv   *)
(* that an entry, stored or about to be, has its parents in the table and  *)
(* in every copy about to be saved, and who is about to remove them.       *)

ProjectSteps == {"project_entries", "project_save", "common_entries", "common_save"}

(* A call in flight is where its operation takes it, with what it has read. *)
Placed(h) ==
    /\ pc[h] \in {"project_entries", "project_save"} => call[h].op = "putProject"
    /\ pc[h] \in {"common_entries", "common_save"} => call[h].op \in Methods
    /\ pc[h] \in ProjectSteps =>
         h \in DOMAIN copy /\ copy[h] \in ProjectRow /\ call[h].project \in posted
    /\ pc[h] = "common_save" => h \in DOMAIN entries
    /\ pc[h] \in ProjectSteps /\ call[h].op = "editTask" => call[h].task \in copy[h].tasks
    /\ pc[h] = "delete_act" => call[h].op = "deleteProject"
    /\ pc[h] = "entry_save" => call[h].op = "postEntry"
    /\ pc[h] = "entry_update" =>
         call[h].op = "putEntry" /\ h \in DOMAIN copy /\ copy[h] \in EntryRow

CallsInv ==
    /\ \A h \in Calls : pc[h] = "idle" <=> h \notin DOMAIN call
    /\ \A h \in DOMAIN call : Placed(h)
    /\ DOMAIN project \subseteq posted
    /\ \A g, h \in Busy : g # h => {call[g].op, call[h].op} \in crossed

DeleteRaced == Crossed({"deleteProject"}, WritesEntry)
RemoveRaced == Crossed({"removeTask"}, WritesEntry)
TasksRaced  == Crossed({"addTask", "removeTask"}, WritesProject)

(* The calls that will save project p. *)
Saving(p) == {h \in DOMAIN call : pc[h] \in ProjectSteps /\ call[h].project = p}

TasksInv == TasksRaced \/
    \A p \in Projects : \A h \in Saving(p) :
      /\ p \in DOMAIN project => copy[h].tasks = project[p].tasks
      /\ \A g \in Saving(p) : copy[g].tasks = copy[h].tasks

(* The rows of entries, as stored and as calls will store them. *)
Stored == {entry[n] : n \in DOMAIN entry \ outdated}
Coming == {call[h].data : h \in {x \in DOMAIN call : /\ pc[x] = "entry_save"
                                                     /\ x \notin outdated}}
            \cup {copy[h] : h \in {x \in DOMAIN call : /\ pc[x] = "entry_update"
                                                    /\ call[x].id \notin outdated}}

Parented(r) ==
    /\ r.project \in posted
    /\ r.project \in DOMAIN project \/ DeleteRaced
    /\ \/ RemoveRaced \/ TasksRaced
       \/ /\ r.project \in DOMAIN project => r.task \in project[r.project].tasks
          /\ \A h \in Saving(r.project) : r.task \in copy[h].tasks

(* Call h takes nothing from the stored entry r that it has not raced with. *)
Spares(h, r) ==
    /\ pc[h] = "delete_act" /\ call[h].project = r.project => DeleteRaced
    /\ pc[h] = "common_save" /\ call[h].op = "removeTask" /\ call[h].task = r.task =>
         Refused(h) \/ RemoveRaced

ParentsInv ==
    /\ \A r \in Stored \cup Coming : Parented(r)
    /\ \A r \in Stored : \A h \in DOMAIN call : Spares(h, r)

IInv == TypeOK /\ CallsInv /\ TasksInv /\ ParentsInv
=============================================================================
