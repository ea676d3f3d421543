------------------------------ MODULE Boarding ------------------------------
(***************************************************************************)
(* Onboarding and offboarding: the tasks and their categories (rows of     *)
(* hrm_configs) and the rows that give a task to an employee (table        *)
(* HrmBoardingTaskEmployees).  OnboardingTaskEmployeesService and its twin *)
(* OffboardingTaskEmployeesService share that table, and do not ask which  *)
(* of the two a row is for.                                                *)
(*                                                                         *)
(* As in Documents, remove(row) clears the id of the row it is given and a *)
(* find by an undefined value finds all.  The deletion of a category looks *)
(* for its task by the cleared id, then for the rows of the cleared task.  *)
(*                                                                         *)
(* The id of a task is the call that posts it, that of a row the call and  *)
(* its task; Tasks and Given are there from the start.                     *)
(***************************************************************************)
EXTENDS Rows

CONSTANTS
    Employees,
    Tasks,       \* tasks there from the start
    Given,       \* rows there from the start
    Category,    \* a category there from the start
    Calls        \* HTTP calls; bounds how many are ever made

VARIABLES
    task,        \* the tasks in hrm_configs
    category,    \* the categories in hrm_configs
    row,         \* HrmBoardingTaskEmployees
    pc, call,
    var,         \* var[h]: the variables of call h
    crossed      \* history: pairs of calls that were in flight together

tables == <<task, category, row>>
vars   == <<tables, pc, call, var, crossed>>

None    == "none"
TaskIds == Tasks \cup Calls
RowIds  == Given \cup (Calls \X (TaskIds \cup {None}))

(* A task without category, or a row without task: one that somebody wrote *)
(* by hand, with preDefined false.                                         *)
TaskRow == [type: {"on", "off"}, category: {Category, None} \cup Calls]
GivenRow == [emp: Employees, task: TaskIds \cup {None}, completed: BOOLEAN]

InFlight == {"check", "put_save", "drop_remove", "sweep", "assign_read", "assign_save",
             "task_save", "strike_remove", "strike_find", "strike_rows",
             "category_save", "category_remove", "category_find", "category_task",
             "wipe_find", "wipe"}
Steps    == InFlight \cup {"idle", "done", "failed"}

Idle == [todo |-> {}, rows |-> NoRows]
Busy == {h \in DOMAIN call : pc[h] \in InFlight}

Goto(h, from, to) == pc[h] = from /\ pc' = [pc EXCEPT ![h] = to]

(* flag: what a removal of all is told of completed, and whether a task is *)
(* to be removed anywhere or to be left where it is completed.             *)
Begin(h, op, ids, flag) ==
    /\ call' = Save(call, h, [op |-> op, ids |-> ids, flag |-> flag])
    /\ crossed' = crossed \cup {{h, x} : x \in Busy}

Set(h, field, value) == var' = [var EXCEPT ![h][field] = value]
Same == UNCHANGED <<call, crossed>>

Init ==
    /\ \E c \in [Tasks -> {Category, None}], type \in [Tasks -> {"on", "off"}] :
         task = [t \in Tasks |-> [type |-> type[t], category |-> c[t]]]
    /\ category = {Category}
    /\ row \in [Given -> [emp: Employees, task: Tasks \cup {None}, completed: BOOLEAN]]
    /\ pc = [h \in Calls |-> "idle"]
    /\ call = NoRows /\ var = [h \in Calls |-> Idle] /\ crossed = {}
-----------------------------------------------------------------------------
(* Slips that a change to the handlers could make; each stands in for the  *)
(* definition it is named after.                                           *)

(* All rows of the employee are found.                                     *)
Matching_All(e, done) == {r \in DOMAIN row : row[r].emp = e}

(* A task is always left where it is completed.                            *)
Struck_Leaves(t, anywhere) == {r \in DOMAIN row : row[r].task = t /\ ~row[r].completed}
-----------------------------------------------------------------------------
(* POST onboarding/task/employees: postOnboardingTaskEmployees.  The row   *)
(* is stored before its task is looked for; the caller may have seen the   *)
(* task before it was deleted.                                             *)
Seen == {None} \cup Tasks \cup {x \in DOMAIN call : call[x].op = "post_task"}

PostRow(h) ==
    /\ Goto(h, "idle", "check")
    /\ \E e \in Employees, t \in Seen, done \in BOOLEAN :
         /\ Begin(h, "post", {<<h, t>>}, FALSE)
         /\ row' = Save(row, <<h, t>>, [emp |-> e, task |-> t, completed |-> done])
         /\ Set(h, "rows", One(<<h, t>>, [emp |-> e, task |-> t, completed |-> done]))
    /\ UNCHANGED <<task, category>>

(* The task a row is predefined by: a TypeError if it is gone.             *)
Check(h) ==
    LET found == \A r \in DOMAIN var[h].rows : var[h].rows[r].task \in DOMAIN task \cup {None} IN
    /\ Goto(h, "check", IF found THEN "done" ELSE "failed")
    /\ Same /\ UNCHANGED <<tables, var>>

(* PUT: putOnboardingTaskEmployeesById                                     *)
PutRow(h) ==
    /\ Goto(h, "idle", "put_save")
    /\ \E r \in DOMAIN row, e \in Employees, done \in BOOLEAN, t \in Seen :
         /\ Begin(h, "put", {r}, FALSE)
         /\ \/ Set(h, "rows", One(r, [row[r] EXCEPT !.emp = e, !.completed = done]))
            \/ Set(h, "rows", One(r, [row[r] EXCEPT !.task = t]))
    /\ UNCHANGED tables

PutSave(h) ==
    /\ Goto(h, "put_save", "check")
    /\ row' = SaveAll(row, var[h].rows)
    /\ Same /\ UNCHANGED <<task, category, var>>

(* DELETE: deleteOnboardingTaskEmployeesById                               *)
DropRow(h) ==
    /\ Goto(h, "idle", "drop_remove")
    /\ \E r \in DOMAIN row : Begin(h, "drop", {r}, FALSE)
    /\ UNCHANGED <<tables, var>>

DropRemove(h) ==
    /\ Goto(h, "drop_remove", "done")
    /\ row' = [r \in DOMAIN row \ call[h].ids |-> row[r]]
    /\ Same /\ UNCHANGED <<task, category, var>>

(* POST .../remove-all: postOnboardingTaskEmployeesRemoveAll, of tasks for *)
(* joining and for leaving.                                                *)
Matching(e, done) == {r \in DOMAIN row : row[r].emp = e /\ row[r].completed = done}

RemoveAll(h) ==
    /\ Goto(h, "idle", "sweep")
    /\ \E e \in Employees, done \in BOOLEAN :
         /\ Begin(h, "remove_all", {e}, done)
         /\ Set(h, "todo", Matching(e, done))
    /\ UNCHANGED tables

(* One row after the other is removed.                                     *)
RemoveEach(h, at) ==
    \/ /\ pc[h] = at
       /\ \E r \in var[h].todo : row' = Delete(row, r) /\ Set(h, "todo", var[h].todo \ {r})
       /\ Same /\ UNCHANGED <<task, category, pc>>
    \/ /\ Goto(h, at, "done")
       /\ var[h].todo = {}
       /\ Same /\ UNCHANGED <<tables, var>>

Sweep(h) == RemoveEach(h, "sweep")

(* POST .../multiple: postOnboardingTaskEmployeesMultiple reads each task, *)
(* a TypeError if it is gone, and stores a row for it.                     *)
Assign(h) ==
    /\ Goto(h, "idle", "assign_read")
    /\ \E e \in Employees, ts \in (SUBSET DOMAIN task) \ {{}} :
         LET new == {<<h, t>> : t \in ts} IN
         /\ Begin(h, "assign", new, FALSE)
         /\ var' = [var EXCEPT ![h].todo = new,
                ![h].rows = [r \in new |-> [emp |-> e, task |-> r[2], completed |-> FALSE]]]
    /\ UNCHANGED tables

AssignRead(h) ==
    /\ Goto(h, "assign_read", "assign_save")
    /\ \E r \in var[h].todo : r[2] \in DOMAIN task /\ Set(h, "todo", var[h].todo \ {r})
    /\ Same /\ UNCHANGED tables

AssignSave(h) ==
    /\ Goto(h, "assign_save", IF var[h].todo = {} THEN "done" ELSE "assign_read")
    /\ \E r \in DOMAIN var[h].rows \ var[h].todo :
         /\ row' = Save(row, r, var[h].rows[r])
         /\ Set(h, "rows", Delete(var[h].rows, r))
    /\ Same /\ UNCHANGED <<task, category>>

(* deleteEmployeeById: the rows go in one DELETE.                          *)
DeleteEmployee(h) ==
    /\ Goto(h, "idle", "done")
    /\ \E e \in Employees :
         /\ Begin(h, "leave", {e}, FALSE)
         /\ row' = [r \in {x \in DOMAIN row : row[x].emp # e} |-> row[r]]
    /\ UNCHANGED <<task, category, var>>
-----------------------------------------------------------------------------
(* POST and PUT offboarding tasks: postOffboardingTask and                 *)
(* putOffboardingTaskById, which takes a task of either type.              *)
PostTask(h) ==
    /\ Goto(h, "idle", "done")
    /\ \E c \in category \cup {None} :
         task' = Save(task, h, [type |-> "off", category |-> c])
    /\ Begin(h, "post_task", {h}, FALSE)
    /\ UNCHANGED <<category, row, var>>

PutTask(h) ==
    /\ Goto(h, "idle", "task_save")
    /\ \E t \in DOMAIN task, c \in category \cup {None} :
         /\ Begin(h, "put_task", {t}, FALSE)
         /\ Set(h, "rows", One(t, [task[t] EXCEPT !.category = c]))
    /\ UNCHANGED tables

SaveTask(h) ==
    /\ Goto(h, "task_save", "done")
    /\ task' = SaveAll(task, var[h].rows)
    /\ Same /\ UNCHANGED <<category, row, var>>

(* DELETE offboarding tasks: deleteOffboardingTaskById, and the rows with  *)
(* it, anywhere or but for the completed.                                  *)
Struck(t, anywhere) ==
    {r \in DOMAIN row : row[r].task = t /\ (anywhere \/ ~row[r].completed)}

DropTask(h) ==
    /\ Goto(h, "idle", "strike_remove")
    /\ \E t \in DOMAIN task, anywhere \in BOOLEAN : Begin(h, "drop_task", {t}, anywhere)
    /\ UNCHANGED <<tables, var>>

StrikeRemove(h) ==
    /\ Goto(h, "strike_remove", "strike_find")
    /\ task' = [t \in DOMAIN task \ call[h].ids |-> task[t]]
    /\ Same /\ UNCHANGED <<category, row, var>>

StrikeFind(h) ==
    /\ Goto(h, "strike_find", "strike_rows")
    /\ \E t \in call[h].ids : Set(h, "todo", Struck(t, call[h].flag))
    /\ Same /\ UNCHANGED tables

StrikeRows(h) ==
    /\ Goto(h, "strike_rows", "done")
    /\ row' = [r \in DOMAIN row \ var[h].todo |-> row[r]]
    /\ Same /\ UNCHANGED <<task, category, var>>
-----------------------------------------------------------------------------
(* POST and PUT categories: postOffboardingCategories and                  *)
(* putOffboardingCategoriesById, which renames.                            *)
PostCategory(h) ==
    /\ Goto(h, "idle", "done")
    /\ Begin(h, "post_category", {h}, FALSE)
    /\ category' = category \cup {h}
    /\ UNCHANGED <<task, row, var>>

PutCategory(h) ==
    /\ Goto(h, "idle", "category_save")
    /\ \E c \in category : Begin(h, "put_category", {c}, FALSE)
    /\ UNCHANGED <<tables, var>>

SaveCategory(h) ==
    /\ Goto(h, "category_save", "done")
    /\ category' = category \cup call[h].ids
    /\ Same /\ UNCHANGED <<task, row, var>>

(* DELETE categories: deleteOffboardingCategoriesById.  Of the tasks for   *)
(* leaving, of whatever company, the first without category is the one     *)
(* that is removed; without one, the loop over its rows throws.            *)
DropCategory(h) ==
    /\ Goto(h, "idle", "category_remove")
    /\ \E c \in category : Begin(h, "drop_category", {c}, FALSE)
    /\ UNCHANGED <<tables, var>>

CategoryRemove(h) ==
    /\ Goto(h, "category_remove", "category_find")
    /\ category' = category \ call[h].ids
    /\ Same /\ UNCHANGED <<task, row, var>>

Uncategorised == {t \in DOMAIN task : task[t].type = "off" /\ task[t].category = None}

CategoryFind(h) ==
    /\ \/ /\ Goto(h, "category_find", "category_task")
          /\ \E t \in Uncategorised : Set(h, "rows", One(t, task[t]))
       \/ /\ Goto(h, "category_find", "failed")
          /\ Uncategorised = {} /\ UNCHANGED var
    /\ Same /\ UNCHANGED tables

(* deleteOnboardingCategoriesById looks for tasks of a type there is not.  *)
OnboardingCategory(h) ==
    /\ Goto(h, "category_find", "failed")
    /\ Same /\ UNCHANGED <<tables, var>>

CategoryTask(h) ==
    /\ Goto(h, "category_task", "wipe_find")
    /\ task' = [t \in DOMAIN task \ DOMAIN var[h].rows |-> task[t]]
    /\ Same /\ UNCHANGED <<category, row, var>>

(* find({where: {taskId: undefined}}): every row there is                  *)
WipeFind(h) ==
    /\ Goto(h, "wipe_find", "wipe")
    /\ Set(h, "todo", DOMAIN row)
    /\ Same /\ UNCHANGED tables

Wipe(h) == RemoveEach(h, "wipe")
-----------------------------------------------------------------------------
(* A row looked for is gone, or any await throws.                          *)
Abort(h) ==
    /\ pc[h] \in InFlight
    /\ pc' = [pc EXCEPT ![h] = "failed"]
    /\ UNCHANGED <<tables, call, var, crossed>>

OfRows(h)       == \/ PostRow(h) \/ Check(h) \/ PutRow(h) \/ PutSave(h)
                   \/ DropRow(h) \/ DropRemove(h) \/ RemoveAll(h) \/ Sweep(h)
                   \/ Assign(h) \/ AssignRead(h) \/ AssignSave(h) \/ DeleteEmployee(h)
OfTasks(h)      == \/ PostTask(h) \/ PutTask(h) \/ SaveTask(h) \/ DropTask(h)
                   \/ StrikeRemove(h) \/ StrikeFind(h) \/ StrikeRows(h)
OfCategories(h) == \/ PostCategory(h) \/ PutCategory(h) \/ SaveCategory(h)
                   \/ DropCategory(h) \/ CategoryRemove(h) \/ CategoryFind(h)
                   \/ OnboardingCategory(h) \/ CategoryTask(h) \/ WipeFind(h) \/ Wipe(h)

Next == \E h \in Calls : OfRows(h) \/ OfTasks(h) \/ OfCategories(h) \/ Abort(h)

Spec == Init /\ [][Next]_vars
-----------------------------------------------------------------------------
TypeOK ==
    /\ IsTable(task, TaskIds, TaskRow) /\ IsTable(row, RowIds, GivenRow)
    /\ category \subseteq {Category} \cup Calls
    /\ pc \in [Calls -> Steps] /\ DOMAIN call \subseteq Calls
    /\ crossed \subseteq {{h, x} : h, x \in Calls}

Made(ops)       == {h \in DOMAIN call : call[h].op \in ops}
Crossed(h, ops) == \E x \in Made(ops) \ {h} : {h, x} \in crossed

(* What is given to an employee stays until it is removed by a call for    *)
(* just that: the row, the employee's rows that are completed or those     *)
(* that are not, its task (and not where it is completed, if it is to be   *)
(* left there), or the employee.  Unless the row was being changed when    *)
(* the rows to remove were read, or a category is deleted while a task for *)
(* leaving has no category: then the rows of all companies go.             *)
GivenStays ==
    [][\A r \in DOMAIN row \ DOMAIN row' : \E h \in DOMAIN call' :
         \/ pc[h] = "drop_remove" /\ r \in call[h].ids
         \/ pc[h] = "sweep" /\ row[r].emp \in call[h].ids /\ row[r].completed = call[h].flag
         \/ pc[h] = "strike_rows" /\ row[r].task \in call[h].ids
              /\ (call[h].flag \/ ~row[r].completed)
         \/ pc[h] \in {"sweep", "strike_rows"} /\ Crossed(h, {"put"})
         \/ pc[h] = "wipe"
         \/ h \notin DOMAIN call /\ call'[h].op = "leave" /\ row[r].emp \in call'[h].ids]_vars

(* A row names a stored task: unless a call that wrote the row then threw  *)
(* for want of the task, or has yet to look for it; or the task was        *)
(* removed by a call that failed, or has yet to remove the rows, or while  *)
(* it was being given to an employee, or to be left where it is completed. *)
GivenTasksAreStored ==
    \A r \in DOMAIN row :
      \/ row[r].task \in DOMAIN task \cup {None}
      \/ \E h \in Made({"post", "put"}) : r \in call[h].ids /\ pc[h] # "done"
      \/ \E h \in Made({"drop_task", "drop_category"}) :
           /\ row[r].task \in call[h].ids \cup DOMAIN var[h].rows
           /\ pc[h] # "done" \/ Crossed(h, {"assign"})
      \/ \E h \in Made({"drop_task"}) :
           row[r].task \in call[h].ids /\ ~call[h].flag /\ row[r].completed
-----------------------------------------------------------------------------
(* What makes these inductive.  A call is at a step of its handler, and    *)
(* two in flight have crossed.                                             *)
Removing == {"sweep", "strike_rows", "wipe"}
Writing  == {"put_save", "check"}
Giving   == {"assign_read", "assign_save"}
Striking == {"strike_remove", "strike_find", "strike_rows"}
Wiping   == {"category_remove", "category_find", "category_task", "wipe_find", "wipe"}

Placed(h) ==
    /\ pc[h] \in Writing => call[h].op \in {"post", "put"}
    /\ pc[h] = "put_save" => call[h].op = "put"
    /\ pc[h] = "sweep" => call[h].op = "remove_all"
    /\ pc[h] \in Giving => call[h].op = "assign"
    /\ pc[h] \in Striking => call[h].op = "drop_task"
    /\ pc[h] \in Wiping => call[h].op = "drop_category"
    /\ call[h].op = "drop_task" => pc[h] \in Striking \cup {"done", "failed"}
    /\ call[h].op = "drop_category" => pc[h] \in Wiping \cup {"done", "failed"}

VarsInv ==
    /\ var = [h \in Calls |-> [todo |-> var[h].todo, rows |-> var[h].rows]]
    /\ \A h \in Calls : var[h].todo \subseteq RowIds

CallsInv ==
    /\ \A h \in Calls : pc[h] = "idle" <=> h \notin DOMAIN call
    /\ \A g, h \in Busy : g = h \/ {g, h} \in crossed
    /\ \A h \in DOMAIN call : Placed(h)

(* What a call has read for the step it is at.                             *)
Holding(h) ==
    /\ pc[h] \in {"idle", "category_remove", "category_find"} \cup Striking =>
         DOMAIN var[h].rows = {}
    /\ pc[h] \in Writing \cup Giving =>
         /\ IsTable(var[h].rows, RowIds, GivenRow)
         /\ \A r \in DOMAIN var[h].rows : var[h].rows[r].task \in Seen
    /\ pc[h] \in Writing => DOMAIN var[h].rows = call[h].ids /\ \E r \in RowIds : call[h].ids = {r}
    /\ pc[h] \in Giving => \A r \in DOMAIN var[h].rows : r = <<h, var[h].rows[r].task>>
    /\ pc[h] = "task_save" =>
         IsTable(var[h].rows, TaskIds, TaskRow) /\ DOMAIN var[h].rows \subseteq Seen
    /\ pc[h] = "category_save" => call[h].ids \subseteq {Category} \cup Calls
    /\ pc[h] \in Striking => \E t \in TaskIds : call[h].ids = {t}

HoldingInv == \A h \in Calls : Holding(h)

(* A row that has been stored, and is not one a call has still to give.    *)
Had(r) ==
    /\ r \in Given \/ \E h \in DOMAIN call, t \in TaskIds \cup {None} : r = <<h, t>>
    /\ \A h \in DOMAIN call : pc[h] \in Giving => r \notin DOMAIN var[h].rows

HadInv ==
    /\ DOMAIN task \subseteq Seen
    /\ \A r \in DOMAIN row : Had(r) /\ row[r].task \in Seen
    /\ \A h \in DOMAIN call :
         /\ pc[h] \in Removing => \A r \in var[h].todo : Had(r)
         /\ pc[h] \in Writing => \A r \in call[h].ids : Had(r)

(* The rows that a call is about to remove are those it was asked for, but *)
(* for what a PUT has made of them since.                                  *)
Meant(h, r) ==
    /\ pc[h] = "sweep" =>
         \/ row[r].emp \in call[h].ids /\ row[r].completed = call[h].flag
         \/ Crossed(h, {"put"})
    /\ pc[h] = "strike_rows" =>
         \/ row[r].task \in call[h].ids /\ (call[h].flag \/ ~row[r].completed)
         \/ Crossed(h, {"put"})

RemovalInv == \A h \in DOMAIN call : \A r \in var[h].todo \cap DOMAIN row : Meant(h, r)

(* A task that was there and is not has been removed by a call that takes  *)
(* the rows that name it, but for those that are written since.            *)
Written(r, t) ==
    \E h \in Made({"post", "put"}) :
      /\ r \in call[h].ids
      /\ pc[h] = "failed" \/ (pc[h] \in Writing /\ var[h].rows[r].task = t)

GivenBy(h, t) == pc[h] \in Giving /\ <<h, t>> \in DOMAIN var[h].rows \ var[h].todo

Left(w, r, t) ==
    \/ pc[w] # "done" /\ r \in var[w].todo
    \/ Written(r, t) \/ Crossed(w, {"assign"})
    \/ call[w].op = "drop_task" /\ t \in call[w].ids /\ ~call[w].flag /\ row[r].completed

Cleans(w, t) ==
    /\ t \in call[w].ids \cup DOMAIN var[w].rows
    /\ \A h \in DOMAIN call : GivenBy(h, t) => {h, w} \in crossed
    /\ pc[w] \in {"strike_rows", "wipe", "done"} =>
         \A r \in DOMAIN row : row[r].task = t => Left(w, r, t)

StoredInv ==
    \A t \in Seen \ (DOMAIN task \cup {None}) :
      \E w \in Made({"drop_task", "drop_category"}) : Cleans(w, t)

IInv == TypeOK /\ VarsInv /\ CallsInv /\ HoldingInv /\ HadInv /\ RemovalInv /\ StoredInv
=============================================================================
