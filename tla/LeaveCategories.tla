--------------------------- MODULE LeaveCategories ---------------------------
(***************************************************************************)
(* Leave categories and the balance rows they open: the category handlers  *)
(* of LeaveManagementService, and the part of EmployeeService.postEmployee *)
(* that enrols a newcomer.  Each await is a step.                          *)
(*                                                                         *)
(* A category lists its assignees and says whether it is for everyone      *)
(* including newcomers.  POST opens a balance for each assignee; PUT opens *)
(* one for the employees it thinks have none when the category becomes     *)
(* everyone's; a hire opens one in each of everyone's categories, adds the *)
(* newcomer to their lists and then saves every category it has read.      *)
(***************************************************************************)
EXTENDS Naturals, FiniteSets, Rows

CONSTANTS
    Employees,
    Categories,   \* uuids; bounds how many categories are ever posted
    Calls,        \* HTTP calls; bounds how many are ever made
    TimeUnits,    \* values of timeUnit
    Nobody        \* savedEmployee before the first hire

ASSUME NobodyAssumption == Nobody \notin Employees
ASSUME UnitsAssumption  == TimeUnits \subseteq {"DAYS", "HOURS"}

VARIABLES
    staff,          \* employees whose row exists with status != 'Non Active'
    category,       \* hrm_leave_categories
    opened,         \* opened[a]: the calls that have inserted a balance for a
    savedEmployee,  \* field of the EmployeeService, which all its calls share
    pc, call,
    todo,           \* todo[h]: what the loop of call h has yet to visit
    seen,           \* seen[h]: the categories a hire has read
    unit,           \* history: the timeUnit a category has or last had
    edited,         \* history: categories whose timeUnit was changed
    crossed,        \* history: the kinds of calls that were in flight together
    unlisted,       \* history: categories saved with a holder missing from the list
    phantom,        \* history: categories saved with a listed employee lacking a row
    returned        \* history: employees whose status was set by hand

memory == <<pc, call, todo, seen>>
ghosts == <<unit, edited, crossed, unlisted, phantom, returned>>
vars   == <<staff, category, opened, savedEmployee, memory, ghosts>>

Accounts == Employees \X Categories
Assignees == [everyone: BOOLEAN, ids: SUBSET Employees, unit: TimeUnits]
Table    == UNION {[cs -> Assignees] : cs \in SUBSET Categories}

Call == [op: {"post"}, cat: Categories, data: Assignees]
        \cup [op: {"put"}, cat: Categories, data: Assignees, old: SUBSET Employees]
        \cup [op: {"hire"}, emp: Employees]

Opening == {"post_open", "put_open"}
Hiring  == {"hire_insert", "hire_save", "hire_read", "hire_open"}
InFlight == Opening \cup Hiring \cup {"put_read", "put_save"}
Steps   == InFlight \cup {"idle", "done", "failed"}

Op(h) == call[h].op
Busy  == {h \in DOMAIN call : pc[h] \in InFlight}
Hired == returned \cup staff

Holders(c) == {e \in Employees : opened[<<e, c>>] # {}}
Posted     == {call[h].cat : h \in {x \in DOMAIN call : Op(x) = "post"}}
Goto(h, from, to) == pc[h] = from /\ pc' = [pc EXCEPT ![h] = to]

Init ==
    /\ staff \in SUBSET Employees
    /\ category = NoRows
    /\ opened = [a \in Accounts |-> {}]
    /\ savedEmployee = Nobody
    /\ pc = [h \in Calls |-> "idle"]
    /\ call = NoRows /\ todo = NoRows /\ seen = NoRows
    /\ unit \in [Categories -> TimeUnits]
    /\ edited = {} /\ crossed = {} /\ unlisted = {} /\ phantom = {}
    /\ returned = {}

Cross(op, others) == crossed' = crossed \cup {{op, Op(x)} : x \in others}

Begin(h, c) ==
    /\ call' = Save(call, h, c)
    /\ Cross(c.op, Busy)

(* Writing rows back, a category comes to be edited or wrongly listed.     *)
SaveCategories(rows) ==
    /\ category' = [c \in DOMAIN category \cup DOMAIN rows |->
                        IF c \in DOMAIN rows THEN rows[c] ELSE category[c]]
    /\ unit' = [c \in Categories |->
                    IF c \in DOMAIN rows THEN rows[c].unit ELSE unit[c]]
    /\ edited' = edited \cup {c \in DOMAIN rows : rows[c].unit # unit[c]}
    /\ unlisted' = unlisted \cup {c \in DOMAIN rows : ~(Holders(c) \subseteq rows[c].ids)}
    /\ phantom' = phantom \cup {c \in DOMAIN rows : ~(rows[c].ids \subseteq Holders(c))}

OneRow(c, r) == Save(NoRows, c, r)
-----------------------------------------------------------------------------
(* Slips that a change to the handlers could make; each stands in for the  *)
(* action it is named after.                                               *)

(* The employees the old category lists are no longer left out. *)
PutReadEmployees_All(h) ==
    /\ Goto(h, "put_read", "put_open")
    /\ todo' = Save(todo, h, staff)
    /\ UNCHANGED <<staff, category, opened, savedEmployee, call, seen, ghosts>>

(* The balances are deleted with their category. *)
DeleteCategory_Cascades(c) ==
    /\ c \in DOMAIN category
    /\ category' = Delete(category, c)
    /\ opened' = [a \in Accounts |-> IF a[2] = c THEN {} ELSE opened[a]]
    /\ Cross("delete", Busy)
    /\ UNCHANGED <<staff, savedEmployee, memory,
                   unit, edited, unlisted, phantom, returned>>

(* The newcomer replaces the assignees instead of joining them. *)
HireOpenBalance_Replaces(h) ==
    /\ pc[h] = "hire_open"
    /\ \E c \in todo[h] :
         /\ opened' = [opened EXCEPT ![<<savedEmployee, c>>] = @ \cup {h}]
         /\ seen' = [seen EXCEPT ![h][c].ids = {savedEmployee}]
         /\ todo' = [todo EXCEPT ![h] = @ \ {c}]
    /\ UNCHANGED <<staff, category, savedEmployee, pc, call, ghosts>>
-----------------------------------------------------------------------------
(* POST leaves/categories: postLeaveCategory *)

PostReadEmployees(h) ==
    /\ Goto(h, "idle", "post_open")
    /\ \E c \in Categories \ Posted, everyone \in BOOLEAN, ids \in SUBSET Hired :
         /\ Begin(h, [op |-> "post", cat |-> c,
                      data |-> [everyone |-> everyone, ids |-> ids, unit |-> unit[c]]])
         /\ todo' = Save(todo, h, IF everyone THEN staff ELSE ids)
    /\ UNCHANGED <<staff, category, opened, savedEmployee, seen,
                   unit, edited, unlisted, phantom, returned>>

(* One turn of the loop of POST or PUT. *)
OpenBalance(h) ==
    /\ pc[h] \in Opening
    /\ \E e \in todo[h] :
         /\ opened' = [opened EXCEPT ![<<e, call[h].cat>>] = @ \cup {h}]
         /\ todo' = [todo EXCEPT ![h] = @ \ {e}]
    /\ UNCHANGED <<staff, category, savedEmployee, pc, call, seen, ghosts>>

PostSaveCategory(h) ==
    /\ Goto(h, "post_open", "done")
    /\ todo[h] = {}
    /\ SaveCategories(OneRow(call[h].cat, call[h].data))
    /\ UNCHANGED <<staff, opened, savedEmployee, call, todo, seen,
                   crossed, returned>>
-----------------------------------------------------------------------------
(* PUT leaves/categories: putLeaveCategory.  A category that is not stored *)
(* makes it throw at oldLeaveCategory.assignees, having changed nothing.   *)

PutReadCategory(h) ==
    /\ pc[h] = "idle"
    /\ \E c \in DOMAIN category, new \in [everyone: BOOLEAN, ids: SUBSET Hired, unit: TimeUnits] :
        /\ Begin(h, [op |-> "put", cat |-> c, data |-> new, old |-> category[c].ids])
        /\ Goto(h, "idle", IF new.everyone /\ ~category[c].everyone
                           THEN "put_read" ELSE "put_save")
    /\ UNCHANGED <<staff, category, opened, savedEmployee, todo, seen,
                   unit, edited, unlisted, phantom, returned>>

PutReadEmployees(h) ==
    /\ Goto(h, "put_read", "put_open")
    /\ todo' = Save(todo, h, staff \ call[h].old)
    /\ UNCHANGED <<staff, category, opened, savedEmployee, call, seen, ghosts>>

PutSaveCategory(h) ==
    /\ \/ Goto(h, "put_save", "done")
       \/ Goto(h, "put_open", "done") /\ todo[h] = {}
    /\ SaveCategories(OneRow(call[h].cat, call[h].data))
    /\ UNCHANGED <<staff, opened, savedEmployee, call, todo, seen,
                   crossed, returned>>

(* DELETE leaves/categories: deleteLeaveCategory.  The balances stay.      *)
DeleteCategory(c) ==
    /\ c \in DOMAIN category
    /\ category' = Delete(category, c)
    /\ Cross("delete", Busy)
    /\ UNCHANGED <<staff, opened, savedEmployee, memory,
                   unit, edited, unlisted, phantom, returned>>
-----------------------------------------------------------------------------
(* POST employees: postEmployee, once it has decided to create one *)

HireInsert(h) ==
    /\ Goto(h, "idle", "hire_insert")
    /\ \E e \in Employees \ Hired :
         /\ Begin(h, [op |-> "hire", emp |-> e])
         /\ staff' = staff \cup {e}
    /\ UNCHANGED <<category, opened, savedEmployee, todo, seen,
                   unit, edited, unlisted, phantom, returned>>

(* this.savedEmployee = await save(newEmployee), on the awaited side *)
HireResume(h) ==
    /\ Goto(h, "hire_insert", "hire_save")
    /\ savedEmployee' = call[h].emp
    /\ UNCHANGED <<staff, category, opened, call, todo, seen, ghosts>>

(* newEmployee is saved again, status and all.                             *)
HireSaveAgain(h) ==
    /\ Goto(h, "hire_save", "hire_read")
    /\ staff' = staff \cup {call[h].emp}
    /\ UNCHANGED <<category, opened, savedEmployee, call, todo, seen, ghosts>>

HireReadCategories(h) ==
    /\ Goto(h, "hire_read", "hire_open")
    /\ seen' = Save(seen, h, category)
    /\ todo' = Save(todo, h, {c \in DOMAIN category : category[c].everyone})
    /\ UNCHANGED <<staff, category, opened, savedEmployee, call, ghosts>>

(* One turn of the loop over everyone's categories. *)
HireOpenBalance(h) ==
    /\ pc[h] = "hire_open"
    /\ \E c \in todo[h] :
         /\ opened' = [opened EXCEPT ![<<savedEmployee, c>>] = @ \cup {h}]
         /\ seen' = [seen EXCEPT ![h][c].ids = @ \cup {savedEmployee}]
         /\ todo' = [todo EXCEPT ![h] = @ \ {c}]
    /\ UNCHANGED <<staff, category, savedEmployee, pc, call, ghosts>>

HireSaveCategories(h) ==
    /\ Goto(h, "hire_open", "done")
    /\ todo[h] = {}
    /\ SaveCategories(seen[h])
    /\ UNCHANGED <<staff, opened, savedEmployee, call, todo, seen,
                   crossed, returned>>
-----------------------------------------------------------------------------
(* POST employees/status: postChangeEmployeeStatus.  Only its save of the  *)
(* status matters here; the value does not depend on what it read.         *)
ChangeEmployeeStatus(e) ==
    /\ e \in Hired
    /\ staff' = IF e \in staff THEN staff \ {e} ELSE staff \cup {e}
    /\ returned' = returned \cup {e}
    /\ UNCHANGED <<category, opened, savedEmployee, memory,
                   unit, edited, crossed, unlisted, phantom>>

(* Any await may throw and the process may stop; what was saved stays.     *)
Abort(h) ==
    /\ pc[h] \in InFlight
    /\ pc' = [pc EXCEPT ![h] = "failed"]
    /\ UNCHANGED <<staff, category, opened, savedEmployee, call, todo, seen, ghosts>>
-----------------------------------------------------------------------------
Post(h) == PostReadEmployees(h) \/ OpenBalance(h) \/ PostSaveCategory(h)

Put(h) == PutReadCategory(h) \/ PutReadEmployees(h) \/ PutSaveCategory(h)

Hire(h) ==
    \/ HireInsert(h) \/ HireResume(h) \/ HireSaveAgain(h)
    \/ HireReadCategories(h) \/ HireOpenBalance(h) \/ HireSaveCategories(h)

Next ==
    \/ \E h \in Calls : Post(h) \/ Put(h) \/ Hire(h) \/ Abort(h)
    \/ \E c \in Categories : DeleteCategory(c)
    \/ \E e \in Employees : ChangeEmployeeStatus(e)

Spec == Init /\ [][Next]_vars
-----------------------------------------------------------------------------
TypeOK ==
    /\ staff \subseteq Employees
    /\ category \in Table
    /\ opened \in [Accounts -> SUBSET Calls]
    /\ savedEmployee \in Employees \cup {Nobody}
    /\ pc \in [Calls -> Steps]
    /\ IsTable(call, Calls, Call)
    /\ IsTable(todo, Calls, SUBSET (Employees \cup Categories))
    /\ IsTable(seen, Calls, Table)
    /\ unit \in [Categories -> TimeUnits]
    /\ returned \subseteq Employees

Crossed(pairs) == crossed \cap pairs # {}
Failed == {h \in Calls : pc[h] = "failed"}

(* An employee has at most one balance row in a category, provided each    *)
(* save of the category listed every holder, no PUT failed (to be retried) *)
(* and no PUT or hire was in flight with another call that opens rows.     *)
(* Deletions, changes of status, other failures, and a POST with another   *)
(* POST or a PUT never open a second row.                                  *)
OneBalanceEach ==
    \A e \in Employees, c \in Categories :
        \/ Cardinality(opened[<<e, c>>]) <= 1
        \/ c \in unlisted
        \/ \E h \in Failed : Op(h) = "put"
        \/ Crossed({{"put"}, {"hire"}, {"put", "hire"}, {"post", "hire"}})

(* Everyone on the staff has a balance row in a category for everyone, a   *)
(* newcomer by the time the hire has ended, unless the hire failed, the    *)
(* employee's status was set by hand, the category once listed an employee *)
(* without a row, or a hire crossed with another hire, a POST or a PUT.    *)
(* POSTs and PUTs that fail, or cross with each other, leave nobody out.   *)
EveryoneCovered ==
    \A c \in DOMAIN category : category[c].everyone =>
        \A e \in staff :
            \/ e \in Holders(c)
            \/ e \in returned
            \/ c \in phantom
            \/ Crossed({{"hire"}, {"put", "hire"}, {"post", "hire"}})
            \/ \E h \in Busy \cup Failed : Op(h) = "hire" /\ call[h].emp = e

(* Whoever a category is for has one balance row in it: not two, whatever  *)
(* their status, and not none, if it is for everyone.                      *)
OneBalanceRow == OneBalanceEach /\ EveryoneCovered

(* What another call did to a category is not undone.  What a hire         *)
(* writes back differs from the stored rows only in the newcomer's name on *)
(* everyone's lists, unless another hire, a PUT, a POST or a DELETE was in *)
(* flight; and a deleted category comes back only if a PUT or a hire was   *)
(* in flight when it was deleted.                                          *)
NothingIsUndone ==
    [][/\ \A h \in Calls :
            pc[h] = "hire_open" /\ pc'[h] = "done" =>
               \/ category' = [c \in DOMAIN category |->
                       [category[c] EXCEPT !.ids =
                           IF category[c].everyone THEN @ \cup {call[h].emp} ELSE @]]
               \/ Crossed({{"hire"}, {"put", "hire"}, {"delete", "hire"},
                           {"post", "hire"}})
       /\ \A c \in DOMAIN category' \ DOMAIN category :
            \/ \E h \in Calls : pc[h] = "post_open" /\ call[h].cat = c
            \/ Crossed({{"delete", "put"}, {"delete", "hire"}})]_vars

(* LeaveRequests lets its environment open balances, save and delete       *)
(* categories and change the staff by single statements: every step of the *)
(* handlers above is one of these.                                         *)
Requests == INSTANCE LeaveRequests WITH
    Calls    <- {},
    Balances <- Calls \X Employees \X Categories,
    active   <- staff,
    category <- DOMAIN category,
    balance  <- [b \in {b \in Calls \X Employees \X Categories :
                          b[1] \in opened[<<b[2], b[3]>>]} |->
                 [emp |-> b[2], cat |-> b[3], total |-> {}, used |-> NoRows]],
    request  <- NoRows, history <- NoRows, notified <- {},
    pc       <- NoRows, call <- NoRows, row <- NoRows,
    blots    <- [a \in Accounts |-> IF a[2] \in edited THEN {"unitEdited"} ELSE {}]

IsEnvironmentOfRequests == Requests!Spec
-----------------------------------------------------------------------------
(* The inductive strengthening.  CallsInv puts a call in its place; calls  *)
(* in flight together are recorded as such.  UndoneInv says what a PUT or  *)
(* a hire that will save categories has of those stored, CoverInv who has  *)
(* a row in a category that is, or is about to be saved as, everyone's,    *)
(* KnownInv that only its POST knows a category before it is first saved,  *)
(* and OneInv who has no row yet where a call may open one.                *)

PutSteps  == {"put_read", "put_open", "put_save"}
HireRaces == {{"hire"}, {"put", "hire"}, {"post", "hire"}}

(* A call in flight is where its operation takes it, with what it needs.   *)
Placed(h) ==
    /\ pc[h] = "post_open" => Op(h) = "post"
    /\ pc[h] \in PutSteps => Op(h) = "put"
    /\ pc[h] \in Hiring => Op(h) = "hire"
    /\ pc[h] \in Opening => h \in DOMAIN todo /\ todo[h] \subseteq Hired
    /\ pc[h] = "hire_open" =>
         /\ h \in DOMAIN todo /\ h \in DOMAIN seen
         /\ todo[h] \subseteq {c \in DOMAIN seen[h] : seen[h][c].everyone}
    /\ Op(h) = "hire" => call[h].emp \in Hired
    /\ pc[h] \in Hiring \ {"hire_insert"} => savedEmployee # Nobody

CallsInv ==
    /\ \A h \in Calls : pc[h] = "idle" <=> h \notin DOMAIN call
    /\ \A h \in DOMAIN call : Placed(h)
    /\ savedEmployee \in Hired \cup {Nobody}
    /\ \A g, h \in Busy : g # h => {Op(g), Op(h)} \in crossed

(* A stored category as hire h has it: with its newcomer, where visited.   *)
Enrolled(h, c) ==
    [category[c] EXCEPT !.ids = IF category[c].everyone /\ c \notin todo[h]
                                THEN @ \cup {call[h].emp} ELSE @]

Unlost(h) ==
    /\ pc[h] \in PutSteps => call[h].cat \in DOMAIN category \/ Crossed({{"delete", "put"}})
    /\ pc[h] \in Hiring \ {"hire_insert"} => savedEmployee = call[h].emp \/ Crossed(HireRaces)
    /\ pc[h] = "hire_open" =>
         /\ DOMAIN seen[h] \subseteq DOMAIN category \/ Crossed({{"delete", "hire"}})
         /\ \/ \A c \in DOMAIN category : c \in DOMAIN seen[h] /\ seen[h][c] = Enrolled(h, c)
            \/ Crossed(HireRaces)

UndoneInv == \A h \in DOMAIN call : Unlost(h)

Covered(e, c) ==
    \/ e \in Holders(c) \/ e \in returned \/ c \in phantom
    \/ Crossed(HireRaces)
    \/ \E h \in Busy \cup Failed : Op(h) = "hire" /\ call[h].emp = e

(* Whom call h has yet to cover in the categories it will save.            *)
Covering(h) ==
    /\ pc[h] = "put_read" =>
         call[h].old \subseteq Holders(call[h].cat) \/ call[h].cat \in phantom
    /\ pc[h] \in Opening /\ call[h].data.everyone =>
         \A e \in staff : e \in todo[h] \/ Covered(e, call[h].cat)
    /\ pc[h] = "put_save" /\ call[h].data.everyone =>
         \A e \in staff : Covered(e, call[h].cat)
    /\ pc[h] = "hire_open" =>
         \A c \in DOMAIN seen[h] : seen[h][c].everyone =>
           /\ \A e \in staff : Covered(e, c)
           /\ c \in todo[h] \/ call[h].emp \in Holders(c) \/ Crossed(HireRaces)

CoverInv ==
    /\ \A c \in DOMAIN category :
         /\ category[c].ids \subseteq Holders(c) \/ c \in phantom
         /\ category[c].everyone => \A e \in staff : Covered(e, c)
    /\ \A h \in DOMAIN call : Covering(h)

Known == DOMAIN category \cup {call[h].cat : h \in {x \in DOMAIN call : Op(x) = "put"}}
                         \cup UNION {DOMAIN seen[h] : h \in DOMAIN seen}

KnownInv ==
    /\ \A c \in Categories \ Posted : c \notin Known /\ Holders(c) = {}
    /\ \A h \in DOMAIN call : Op(h) = "post" =>
         /\ \A g \in DOMAIN call : Op(g) = "post" /\ call[g].cat = call[h].cat => g = h
         /\ pc[h] # "done" => /\ call[h].cat \notin Known
                              /\ \A e \in Employees : opened[<<e, call[h].cat>>] \subseteq {h}

Undisturbed(c) ==
    /\ c \notin unlisted
    /\ ~Crossed(HireRaces \cup {{"put"}})
    /\ \A h \in Failed : Op(h) # "put"

(* Whoever holds a row in c is listed, or is about to be. *)
Listed(c) ==
    c \in DOMAIN category /\ ~category[c].everyone =>
       \/ Holders(c) \subseteq category[c].ids
       \/ \E h \in DOMAIN call : pc[h] = "put_open" /\ call[h].cat = c

(* A PUT leaves the holders of its category c out. *)
Apart(h, c) ==
    /\ pc[h] = "put_read" => Holders(c) \subseteq call[h].old
    /\ pc[h] = "put_open" => todo[h] \cap Holders(c) = {}

OneInv ==
    /\ \A c \in Categories : Holders(c) \subseteq Hired
    /\ \A c \in Categories : Undisturbed(c) =>
         /\ \A e \in Employees : \A x, y \in opened[<<e, c>>] : x = y
         /\ Listed(c)
         /\ \A h \in DOMAIN call : pc[h] \in PutSteps /\ call[h].cat = c => Apart(h, c)
    /\ \A h \in DOMAIN call : pc[h] \in Hiring =>
         \/ \A c \in Categories : opened[<<call[h].emp, c>>] \subseteq {h}
         \/ Crossed(HireRaces)

IInv == TypeOK /\ CallsInv /\ UndoneInv /\ CoverInv /\ KnownInv /\ OneInv
=============================================================================
