------------------------------- MODULE Staff -------------------------------
(***************************************************************************)
(* The rows of a company's employees, hrm_employee_details: who owns the   *)
(* company, who is active on the seats paid for, who has which access and  *)
(* who reports to whom.  The handlers are those of EmployeeService and     *)
(* JobInformationService, with CompanyService.updateItemCount and          *)
(* postAccessLevelsEmployees.                                              *)
(*                                                                         *)
(* A row is read, changed and saved whole, most often after further        *)
(* awaits; the job informations are a JSON column of it.  findOne returns  *)
(* a new object every time, so that a handler which reads a row twice      *)
(* holds two copies, and the one saved last decides.  The dates of job     *)
(* informations are strings there: subtracting them gives NaN and the sort *)
(* that is meant to order them leaves their order alone.                   *)
(*                                                                         *)
(* The id of an employee or a job information is the call that stored it;  *)
(* Known and Early are those there from the start.  The company on trial,  *)
(* and whether Stripe settles a purchase, are answers of other services.   *)
(***************************************************************************)
EXTENDS Integers, Sequences, SequencesExt, FiniteSets, Rows

CONSTANTS
    Calls,          \* HTTP calls; bounds how many are ever made
    Known,          \* ids of the employees there from the start
    Early,          \* ids of the job informations there from the start
    MaxSeats,       \* bound on the seats there from the start
    MaxBought,      \* bound on the number of seats a purchase names, of either sign
    DefaultUsers    \* defaultUserCount of the package

Ids == Known \cup Calls

VARIABLES
    emp,        \* the table hrm_employee_details
    seats,      \* the quantity of the subscription, at Stripe
    pc, call,
    var,        \* var[h]: the variables of call h
    crossed,    \* history: pairs of calls that were in flight together
    wrote,      \* history: the rows that a call has saved or removed
    cut,        \* history: where the calls that failed were, by call
    spare       \* history: deletions that gave up the seat of one who had none

vars == <<emp, seats, pc, call, var, crossed, wrote, cut, spare>>

None == "none"
Statuses == {"Active", "Inactive", "Non Active"}
Levels   == {"FULL_ADMIN", "MANAGER", "EMPLOYEE"}
Job      == [id: Early \cup Calls, to: Ids \cup {None}, active: BOOLEAN]
EmpRow   == [owner: BOOLEAN, status: Statuses, level: Levels, jobs: Seq(Job)]
Task     == {"raise", "lower"} \X Ids

Resting == {"idle", "done", "failed"}
Steps == Resting \cup
    {"edit_read", "edit_save", "edit_again", "status_read", "status_all", "status_save",
     "education", "education_remove", "own_read", "own_owner", "own_take", "own_give", "own_mail",
     "buy_read", "buy_write", "delete_read", "delete_seats", "delete_count", "delete_stripe",
     "delete_notify", "delete_save", "hire_seats", "hire_count", "hire_insert", "hire_status",
     "hire_store", "hire_again", "hire_read", "hire_job", "post_read", "post_old", "post_save", "put_read", "again", "again_save",
     "job_save", "drop_read", "job_drop", "supervisor", "raise", "count", "lower", "shift_read", "shift_save"}

NoJob == [id |-> None, to |-> None, active |-> FALSE]
NoVar == [rows |-> NoRows,      \* the copies held, under the ids of their rows
          again |-> NoRows,     \* a second copy of a row
          job |-> NoJob,        \* the job information the call is about
          todo |-> <<>>,        \* supervisors whose access is to be settled
          then |-> "done",      \* the step after that
          count |-> 0,          \* the seats, as read
          fewer |-> FALSE]      \* whether DELETE is to lower them

Goto(h, from, to) ==
    /\ pc[h] = from
    /\ pc' = [pc EXCEPT ![h] = to]
    /\ cut' = IF to = "failed" THEN Save(cut, h, from) ELSE cut
Set(h, f) == var' = [var EXCEPT ![h] = f @@ @]
Own       == UNCHANGED <<emp, seats, call, crossed, wrote, spare>>
Copy(h)   == var[h].rows[call[h].id]

Begin(h, op, id, body, first) ==
    /\ Goto(h, "idle", first)
    /\ call' = Save(call, h, [op |-> op, id |-> id, body |-> body])
    /\ crossed' = crossed \cup {{h, x} : x \in {y \in Calls : pc[y] \notin Resting}}
    /\ UNCHANGED <<emp, seats, var, wrote, spare>>

(* findOne, with or without status: Not('Non Active'); what is done with   *)
(* the row throws if there is none.                                        *)
Finds(id, any) == id \in DOMAIN emp /\ (any \/ emp[id].status # "Non Active")

Find(h, from, any, to) ==
    LET e == call[h].id IN
    /\ pc[h] = from
    /\ IF Finds(e, any)
       THEN Goto(h, from, to) /\ Set(h, [rows |-> One(e, emp[e])])
       ELSE Goto(h, from, "failed") /\ UNCHANGED var
    /\ Own

Wrote(h, ids) == wrote' = [wrote EXCEPT ![h] = @ \cup ids]

SaveRow(h, from, to, id, row) ==
    /\ Goto(h, from, to)
    /\ emp' = Save(emp, id, row)
    /\ Wrote(h, {id})
    /\ UNCHANGED <<seats, call, crossed, spare>>

Active == {e \in DOMAIN emp : emp[e].status = "Active"}
Owners == {e \in DOMAIN emp : emp[e].owner}

Current(row) ==
    IF \E i \in DOMAIN row.jobs : row.jobs[i].active
    THEN row.jobs[SelectInSeq(row.jobs, LAMBDA j : j.active)] ELSE NoJob
Without(jobs, id) == SelectSeq(jobs, LAMBDA j : j.id # id)
Moved(row, job)   == [row EXCEPT !.jobs = Append(Without(@, job.id), job)]
Reports(s) == {e \in DOMAIN emp : emp[e].status # "Non Active" /\ Current(emp[e]).to = s}

Init ==
    /\ \E o \in Known, work \in [Known -> {<<>>} \cup
             {<<j>> : j \in [id: Early, to: Known \cup {None}, active: BOOLEAN]} \cup
             {<<j, k>> : j \in [id: Early, to: Known \cup {None}, active: BOOLEAN],
                         k \in [id: Early, to: Known \cup {None}, active: BOOLEAN]}] :
         /\ \A e \in Known : \A i, k \in DOMAIN work[e] :
              i < k => work[e][i].id # work[e][k].id /\ ~(work[e][i].active /\ work[e][k].active)
         /\ emp = [e \in Known |->
              [owner |-> e = o, status |-> "Active", jobs |-> work[e],
               level |-> IF e = o THEN "FULL_ADMIN"
                         ELSE IF \E x \in Known : \E i \in DOMAIN work[x] :
                                   work[x][i].active /\ work[x][i].to = e
                              THEN "MANAGER" ELSE "EMPLOYEE"]]
    /\ seats \in 0 .. MaxSeats /\ Cardinality(Known) <= seats + 1
    /\ pc = [h \in Calls |-> "idle"]
    /\ call = NoRows
    /\ var = [h \in Calls |-> NoVar]
    /\ crossed = {} /\ wrote = [h \in Calls |-> {}] /\ cut = NoRows /\ spare = {}
-----------------------------------------------------------------------------
(* PUT employees/:id (putEmployeeById), which saves the row before and     *)
(* after the log of activities; PUT change-user-id, which saves it after   *)
(* another query; POST access-levels/employees.                            *)
Edit(h) ==
    \E e \in DOMAIN emp :
        \/ \E s \in Statuses \cup {None} : Begin(h, "put", e, s, "edit_read")
        \/ Begin(h, "user", e, None, "edit_read")
        \/ \E l \in Levels : Begin(h, "level", e, l, "edit_read")

EditRead(h) == Find(h, "edit_read", call[h].op # "level", "edit_save")

Edited(row, op, value) ==
    CASE op = "put" /\ value # None -> [row EXCEPT !.status = value]
      [] op = "level" -> [row EXCEPT !.level = value]
      [] OTHER -> row

EditSave(h) ==
    /\ pc[h] = "edit_save"
    /\ LET e == call[h].id
           row == Edited(Copy(h), call[h].op, call[h].body)
       IN /\ SaveRow(h, "edit_save", IF call[h].op = "put" THEN "edit_again" ELSE "done", e, row)
          /\ Set(h, [rows |-> One(e, row)])

EditAgain(h) ==
    /\ pc[h] = "edit_again"
    /\ SaveRow(h, "edit_again", "done", call[h].id, Copy(h))
    /\ UNCHANGED var
-----------------------------------------------------------------------------
(* POST employee/status: postChangeEmployeeStatus.  The reports are handed *)
(* to another employee in memory only; an employee without a current job   *)
(* makes that throw, and the handler answers without having saved.         *)
ChangeStatus(h) ==
    \E e \in DOMAIN emp, s \in Statuses, x \in DOMAIN emp \cup {None} :
        Begin(h, "status", e, [status |-> s, transfer |-> x], "status_read")

StatusRead(h) == Find(h, "status_read", TRUE, "status_all")

StatusAll(h) ==
    /\ pc[h] = "status_all"
    /\ LET b == call[h].body
           moved == [Copy(h) EXCEPT !.status = b.status,
                     !.level = IF @ = "MANAGER" /\ b.transfer # call[h].id THEN "EMPLOYEE" ELSE @]
       IN IF b.transfer \in DOMAIN emp /\ \A e \in DOMAIN emp : Current(emp[e]) # NoJob
          THEN Goto(h, "status_all", "status_save") /\ Set(h, [rows |-> One(call[h].id, moved)])
          ELSE Goto(h, "status_all", "done") /\ UNCHANGED var
    /\ Own

StatusSave(h) ==
    /\ pc[h] = "status_save"
    /\ SaveRow(h, "status_save", "done", call[h].id, Copy(h))
    /\ UNCHANGED var
-----------------------------------------------------------------------------
(* DELETE employees/education: deleteEducationById removes the entity it   *)
(* has taken an education out of, which is the employee.                   *)
DeleteEducation(h) ==
    \E e \in DOMAIN emp : Begin(h, "education", e, None, "education")

EducationRead(h) == Find(h, "education", FALSE, "education_remove")

EducationRemove(h) ==
    /\ Goto(h, "education_remove", "done")
    /\ emp' = Delete(emp, call[h].id)
    /\ Wrote(h, {call[h].id})
    /\ UNCHANGED <<seats, call, var, crossed, spare>>
-----------------------------------------------------------------------------
(* POST owner-change: postOwnerChange.  It ends with a search of           *)
(* hrm_configs for an access level, which lives in access_levels: nothing  *)
(* is found, and the call throws after both saves.                         *)
ChangeOwner(h) ==
    \E e \in DOMAIN emp : Begin(h, "owner", e, None, "own_read")

OwnRead(h) == Find(h, "own_read", FALSE, "own_owner")

(* The owner is taken to be whoever has full access. *)
OwnOwner_ByAccess(h) ==
    /\ pc[h] = "own_owner"
    /\ \E o \in {e \in DOMAIN emp : emp[e].level = "FULL_ADMIN"} :
         /\ Goto(h, "own_owner", "own_take")
         /\ Set(h, [again |-> One(o, emp[o])])
    /\ Own

OwnOwner(h) ==
    /\ pc[h] = "own_owner"
    /\ \/ \E o \in Owners :
            /\ Goto(h, "own_owner", "own_take")
            /\ Set(h, [again |-> One(o, emp[o])])
       \/ Owners = {} /\ Goto(h, "own_owner", "failed") /\ UNCHANGED var
    /\ Own

OwnTake(h) ==
    /\ pc[h] = "own_take"
    /\ \E o \in DOMAIN var[h].again :
         SaveRow(h, "own_take", "own_give", o, [var[h].again[o] EXCEPT !.owner = FALSE])
    /\ UNCHANGED var

OwnGive(h) ==
    /\ pc[h] = "own_give"
    /\ SaveRow(h, "own_give", "own_mail", call[h].id, [Copy(h) EXCEPT !.owner = TRUE])
    /\ UNCHANGED var

OwnMail(h) == Goto(h, "own_mail", "failed") /\ UNCHANGED var /\ Own
-----------------------------------------------------------------------------
(* DELETE employees/:id, with execute: deleteEmployeeById.  The quantity   *)
(* sent to Stripe is the one read, less one; those deletions of other rows *)
(* that follow the save swallow their errors and are left out.             *)
DeleteEmployee(h) ==
    \E e \in DOMAIN emp : Begin(h, "delete", e, None, "delete_read")

DeleteRead(h) == Find(h, "delete_read", TRUE, "delete_seats")

ReadSeats(h, from, to) ==
    Goto(h, from, to) /\ Set(h, [count |-> seats]) /\ Own

DeleteSeats(h) == ReadSeats(h, "delete_seats", "delete_count")

DeleteCount(h) ==
    /\ Goto(h, "delete_count", "delete_stripe")
    /\ Set(h, [fewer |-> Cardinality(Active) > DefaultUsers])
    /\ Own

(* Stripe takes no quantity below zero.                                    *)
DeleteStripe(h) ==
    /\ pc[h] = "delete_stripe"
    /\ IF var[h].fewer /\ var[h].count = 0
       THEN Goto(h, "delete_stripe", "failed") /\ UNCHANGED <<seats, spare>>
       ELSE /\ Goto(h, "delete_stripe", "delete_notify")
            /\ seats' = IF var[h].fewer THEN var[h].count - 1 ELSE seats
            /\ spare' = IF var[h].fewer /\ Copy(h).status # "Active" THEN spare \cup {h} ELSE spare
    /\ UNCHANGED <<emp, call, var, crossed, wrote>>

(* The ids taken out of the notifications.                                 *)
DeleteNotify(h) == Goto(h, "delete_notify", "delete_save") /\ UNCHANGED var /\ Own

DeleteSave(h) ==
    /\ pc[h] = "delete_save"
    /\ SaveRow(h, "delete_save", "done", call[h].id, [Copy(h) EXCEPT !.status = "Inactive"])
    /\ UNCHANGED var

(* POST update-employee-count: updateItemCount adds the count of the body, *)
(* whatever its sign.  Stripe takes no quantity below zero, and a purchase *)
(* that it holds pending is voided.                                        *)
BuySeat(h) == \E n \in -MaxBought .. MaxBought : Begin(h, "buy", None, n, "buy_read")

BuyRead(h) == ReadSeats(h, "buy_read", "buy_write")

BuyWrite(h) ==
    LET quantity == var[h].count + call[h].body IN
    /\ Goto(h, "buy_write", IF quantity < 0 THEN "failed" ELSE "done")
    /\ seats' \in {seats} \cup ({quantity} \cap Nat)
    /\ UNCHANGED <<emp, call, var, crossed, wrote, spare>>
-----------------------------------------------------------------------------
(* POST employees and POST hire: postEmployee counts no seats for a        *)
(* company on trial, inserts the row, has postEmployeeStatus read it and   *)
(* save it, and saves its own again.  POST employees takes the owner and   *)
(* the status from the body, and its controller adds the education; POST   *)
(* hire adds a job information and leaves the supervisor's access as it is.*)
Hire(h) ==
    \E trial \in BOOLEAN : \E body \in
         [trial : {trial}, job : {FALSE}, to : {None}, active : {FALSE},
          owner : BOOLEAN, status : Statuses] \cup
         [trial : {trial}, job : {TRUE}, to : DOMAIN emp \cup {None}, active : BOOLEAN,
          owner : {FALSE}, status : {"Active"}] :
        Begin(h, "hire", h, body, IF trial THEN "hire_insert" ELSE "hire_seats")

HireSeats(h) == ReadSeats(h, "hire_seats", "hire_count")

(* One seat too many. *)
HireCount_OneMore(h) ==
    /\ pc[h] = "hire_count"
    /\ Goto(h, "hire_count", IF Cardinality(Active) <= var[h].count + 1 THEN "hire_insert" ELSE "failed")
    /\ UNCHANGED var /\ Own

HireCount(h) ==
    /\ pc[h] = "hire_count"
    /\ Goto(h, "hire_count", IF Cardinality(Active) <= var[h].count THEN "hire_insert" ELSE "failed")
    /\ UNCHANGED var /\ Own

NewEmployee(b) == [owner |-> b.owner, status |-> b.status, level |-> "EMPLOYEE", jobs |-> <<>>]

HireInsert(h) ==
    /\ SaveRow(h, "hire_insert", "hire_status", h, NewEmployee(call[h].body))
    /\ UNCHANGED var

HireStatus(h) == Find(h, "hire_status", FALSE, "hire_store")

HireStore(h) ==
    /\ pc[h] = "hire_store"
    /\ SaveRow(h, "hire_store", "hire_again", h, Copy(h))
    /\ UNCHANGED var

HireAgain(h) ==
    /\ pc[h] = "hire_again"
    /\ SaveRow(h, "hire_again", "hire_read", h, NewEmployee(call[h].body))
    /\ UNCHANGED var

HireRead(h) == Find(h, "hire_read", FALSE, "hire_job")

HireJob(h) ==
    /\ pc[h] = "hire_job"
    /\ LET b == call[h].body IN
       SaveRow(h, "hire_job", "done", h,
               IF b.job THEN [Copy(h) EXCEPT !.jobs = Append(@, [id |-> h, to |-> b.to, active |-> b.active])]
               ELSE Copy(h))
    /\ UNCHANGED var
-----------------------------------------------------------------------------
(* The access of a supervisor: raised to MANAGER before an employee is     *)
(* handed over, lowered to EMPLOYEE after the last one is taken away.      *)
For(task, s) == IF s = None THEN <<>> ELSE <<<<task, s>>>>
Settle(todo, then) == IF todo = <<>> THEN then ELSE "supervisor"

Supervisor(h) ==
    /\ pc[h] = "supervisor"
    /\ LET task == Head(var[h].todo) IN
       IF Finds(task[2], FALSE)
       THEN /\ Set(h, [again |-> One(task[2], emp[task[2]])])
            /\ Goto(h, "supervisor", IF task[1] = "raise" THEN "raise"
                                     ELSE IF emp[task[2]].level = "MANAGER" THEN "count" ELSE "lower")
       ELSE Goto(h, "supervisor", "failed") /\ UNCHANGED var
    /\ Own

SaveSupervisor(h, from, level) ==
    LET s == Head(var[h].todo)[2] IN
    /\ SaveRow(h, from, Settle(Tail(var[h].todo), var[h].then), s, [var[h].again[s] EXCEPT !.level = level])
    /\ Set(h, [todo |-> Tail(var[h].todo)])

Level(h) == var[h].again[Head(var[h].todo)[2]].level

Raise(h) ==
    /\ pc[h] = "raise"
    /\ SaveSupervisor(h, "raise", IF Level(h) = "FULL_ADMIN" THEN "FULL_ADMIN" ELSE "MANAGER")

(* The employee who is taken away is not counted. *)
Count_Others(h) ==
    /\ pc[h] = "count"
    /\ LET s == Head(var[h].todo)[2] IN
       IF Reports(s) \subseteq {call[h].id}
       THEN Set(h, [again |-> One(s, [var[h].again[s] EXCEPT !.level = "EMPLOYEE"])])
       ELSE UNCHANGED var
    /\ Goto(h, "count", "lower") /\ Own

Count(h) ==
    /\ pc[h] = "count"
    /\ LET s == Head(var[h].todo)[2] IN
       IF Reports(s) = {}
       THEN Set(h, [again |-> One(s, [var[h].again[s] EXCEPT !.level = "EMPLOYEE"])])
       ELSE UNCHANGED var
    /\ Goto(h, "count", "lower") /\ Own

Lower(h) == pc[h] = "lower" /\ SaveSupervisor(h, "lower", Level(h))
-----------------------------------------------------------------------------
(* POST job-information: JobInformationService.postJobInformation.  due:   *)
(* the effective date has come in the employee's timezone.                 *)
PostJob(h) ==
    \E e \in DOMAIN emp, to \in DOMAIN emp \cup {None}, due \in BOOLEAN :
        Begin(h, "job_post", e, [to |-> to, due |-> due], "post_read")

PostRead(h) ==
    LET e == call[h].id
        b == call[h].body
        old == Current(emp[e])
        todo == IF b.due THEN For("raise", b.to) ELSE <<>>
        then == IF b.due /\ old # NoJob THEN "post_old" ELSE "post_save"
    IN
    /\ pc[h] = "post_read"
    /\ IF Finds(e, FALSE)
       THEN /\ Goto(h, "post_read", Settle(todo, then))
            /\ Set(h, [rows |-> One(e, emp[e]), job |-> old, todo |-> todo, then |-> then])
       ELSE Goto(h, "post_read", "failed") /\ UNCHANGED var
    /\ Own

(* The one posted last is closed, current or not. *)
PostOld_Last(h) ==
    /\ pc[h] = "post_old"
    /\ LET row == Moved(Copy(h), [Last(Copy(h).jobs) EXCEPT !.active = FALSE]) IN
       /\ SaveRow(h, "post_old", "post_save", call[h].id, row)
       /\ Set(h, [rows |-> One(call[h].id, row)])

PostOld(h) ==
    /\ pc[h] = "post_old"
    /\ LET row == Moved(Copy(h), [var[h].job EXCEPT !.active = FALSE]) IN
       /\ SaveRow(h, "post_old", "post_save", call[h].id, row)
       /\ Set(h, [rows |-> One(call[h].id, row)])

PostSave(h) ==
    LET b == call[h].body
        old == var[h].job.to
        todo == IF old = b.to THEN <<>> ELSE For("lower", old)
    IN
    /\ pc[h] = "post_save"
    /\ SaveRow(h, "post_save", Settle(todo, "done"), call[h].id,
               Moved(Copy(h), [id |-> h, to |-> b.to, active |-> b.due]))
    /\ Set(h, [todo |-> todo, then |-> "done"])
-----------------------------------------------------------------------------
(* PUT and DELETE job-information/:id: putJobInformationById and           *)
(* deleteJobInformationById.  They change a second copy of the row, save   *)
(* it, and in the end save the first.                                      *)
JobsOf(e) == {emp[e].jobs[i].id : i \in DOMAIN emp[e].jobs}

PutJob(h) ==
    \E e \in DOMAIN emp : \E j \in JobsOf(e), to \in DOMAIN emp \cup {None, "kept"}, due \in BOOLEAN :
        Begin(h, "job_put", e, [job |-> j, to |-> to, due |-> due], "put_read")

DropJob(h) ==
    \E e \in DOMAIN emp : \E j \in JobsOf(e) :
        Begin(h, "job_drop", e, [job |-> j], "drop_read")

(* The first copy, and the job information in it.                          *)
ReadJob(h, from, F(_), todo(_), to(_)) ==
    LET e == call[h].id
        j == F(emp[e].jobs[SelectInSeq(emp[e].jobs, LAMBDA x : x.id = call[h].body.job)])
    IN
    /\ pc[h] = from
    /\ IF Finds(e, FALSE) /\ call[h].body.job \in JobsOf(e)
       THEN /\ Goto(h, from, to(j))
            /\ Set(h, [rows |-> One(e, emp[e]), job |-> j, todo |-> todo(j), then |-> "job_drop"])
       ELSE Goto(h, from, "failed") /\ UNCHANGED var
    /\ Own

PutRead(h) ==
    LET b == call[h].body IN
    ReadJob(h, "put_read",
            LAMBDA j : [j EXCEPT !.active = FALSE, !.to = IF b.to = "kept" THEN @ ELSE b.to],
            LAMBDA j : <<>>, LAMBDA j : "again")

DropRead(h) ==
    ReadJob(h, "drop_read", LAMBDA j : j, LAMBDA j : For("lower", j.to),
            LAMBDA j : IF j.active THEN "again" ELSE Settle(For("lower", j.to), "job_drop"))

(* The second copy.  A job that takes effect closes the current one, if    *)
(* that names a supervisor.  Otherwise the second of the list is made      *)
(* current, if it does and its date has come.                              *)
SecondCopy(h, row, todo, then, job) ==
    /\ Goto(h, "again", IF row = emp[call[h].id] THEN Settle(todo, then) ELSE "again_save")
    /\ Set(h, [again |-> One(call[h].id, row), todo |-> todo, then |-> then, job |-> job])

PutDue(h) ==
    LET row  == emp[call[h].id]
        prev == Current(row)
        job  == var[h].job
    IN SecondCopy(h, IF prev.to = None THEN row ELSE Moved(row, [prev EXCEPT !.active = FALSE]),
                  For("lower", prev.to) \o For("raise", job.to), "job_save", [job EXCEPT !.active = TRUE])

MakeSecond(h, todo, then) ==
    LET row == emp[call[h].id]
        has == Len(row.jobs) > 1 /\ row.jobs[2].to # None
    IN \/ SecondCopy(h, row, todo, then, var[h].job)
       \/ has /\ SecondCopy(h, Moved(row, [row.jobs[2] EXCEPT !.active = TRUE]),
                            For("raise", row.jobs[2].to) \o todo, then, var[h].job)

Again(h) ==
    /\ pc[h] = "again"
    /\ \/ ~Finds(call[h].id, FALSE) /\ Goto(h, "again", "failed") /\ UNCHANGED var
       \/ /\ Finds(call[h].id, FALSE)
          /\ IF call[h].op = "job_drop" THEN MakeSecond(h, var[h].todo, "job_drop")
             ELSE IF call[h].body.due THEN PutDue(h) ELSE MakeSecond(h, <<>>, "job_save")
    /\ Own

AgainSave(h) ==
    /\ pc[h] = "again_save"
    /\ SaveRow(h, "again_save", Settle(var[h].todo, var[h].then), call[h].id, var[h].again[call[h].id])
    /\ UNCHANGED var

JobSave(h) ==
    /\ pc[h] = "job_save"
    /\ SaveRow(h, "job_save", "done", call[h].id, Moved(Copy(h), var[h].job))
    /\ UNCHANGED var

JobDrop(h) ==
    /\ pc[h] = "job_drop"
    /\ SaveRow(h, "job_drop", "done", call[h].id,
               [Copy(h) EXCEPT !.jobs = Without(@, call[h].body.job)])
    /\ UNCHANGED var
-----------------------------------------------------------------------------
(* POST change-supervisor: changeSupervisor.  Employees whose current or a *)
(* coming job information names the one are read, every job information of *)
(* theirs that does is made to name the other, and they are saved together.*)
ChangeSupervisor(h) ==
    \E from, to \in DOMAIN emp :
        from # to /\ Begin(h, "shift", from, to, "shift_read")

ShiftRead(h) ==
    LET Names(e, P(_)) == \E i \in DOMAIN emp[e].jobs :
                              emp[e].jobs[i].to = call[h].id /\ P(emp[e].jobs[i].active)
        now == {e \in DOMAIN emp : Names(e, LAMBDA a : a)}
    IN
    /\ Goto(h, "shift_read", "shift_save")
    /\ \E coming \in SUBSET {e \in DOMAIN emp : Names(e, LAMBDA a : ~a)} :
         Set(h, [rows |-> [e \in now \cup coming |-> emp[e]]])
    /\ Own

ShiftSave(h) ==
    LET rows == var[h].rows
        handed(j) == [j EXCEPT !.to = IF @ = call[h].id THEN call[h].body ELSE @]
    IN
    /\ Goto(h, "shift_save", "done")
    /\ emp' = [e \in DOMAIN emp \cup DOMAIN rows |->
                 IF e \in DOMAIN rows
                 THEN [rows[e] EXCEPT !.jobs = [i \in DOMAIN @ |-> handed(@[i])]] ELSE emp[e]]
    /\ Wrote(h, DOMAIN rows)
    /\ UNCHANGED <<seats, call, var, crossed, spare>>

(* An await throws.                                                        *)
Abort(h) == pc[h] \notin Resting /\ Goto(h, pc[h], "failed") /\ UNCHANGED var /\ Own
-----------------------------------------------------------------------------
Owning(h)  == ChangeOwner(h) \/ OwnRead(h) \/ OwnOwner(h) \/ OwnTake(h) \/ OwnGive(h) \/ OwnMail(h)
Editing(h) == \/ Edit(h) \/ EditRead(h) \/ EditSave(h) \/ EditAgain(h)
              \/ ChangeStatus(h) \/ StatusRead(h) \/ StatusAll(h) \/ StatusSave(h)
              \/ DeleteEducation(h) \/ EducationRead(h) \/ EducationRemove(h)
Seating(h) == \/ DeleteEmployee(h) \/ DeleteRead(h) \/ DeleteSeats(h) \/ DeleteCount(h)
              \/ DeleteStripe(h) \/ DeleteNotify(h) \/ DeleteSave(h)
              \/ BuySeat(h) \/ BuyRead(h) \/ BuyWrite(h)
              \/ Hire(h) \/ HireSeats(h) \/ HireCount(h) \/ HireInsert(h) \/ HireStatus(h)
              \/ HireStore(h) \/ HireAgain(h) \/ HireRead(h) \/ HireJob(h)
Jobs(h)    == \/ PostJob(h) \/ PostRead(h) \/ PostOld(h) \/ PostSave(h)
              \/ PutJob(h) \/ PutRead(h) \/ Again(h) \/ AgainSave(h) \/ JobSave(h)
              \/ DropJob(h) \/ DropRead(h) \/ JobDrop(h)
              \/ Supervisor(h) \/ Raise(h) \/ Count(h) \/ Lower(h)
              \/ ChangeSupervisor(h) \/ ShiftRead(h) \/ ShiftSave(h)

Next == \E h \in Calls : Owning(h) \/ Editing(h) \/ Seating(h) \/ Jobs(h) \/ Abort(h)
Spec == Init /\ [][Next]_vars
-----------------------------------------------------------------------------
(* Types of the tables and of where the calls are.                         *)
TypeOK ==
    /\ IsTable(emp, Ids, EmpRow)
    /\ seats \in Nat
    /\ pc \in [Calls -> Steps]
    /\ DOMAIN call \subseteq Calls
    /\ \A h \in Calls :
         /\ IsTable(var[h].rows, Ids, EmpRow) /\ IsTable(var[h].again, Ids, EmpRow)
         /\ var[h].job \in Job \cup {NoJob} /\ var[h].todo \in Seq(Task)
         /\ var[h].then \in Steps /\ var[h].count \in Nat /\ var[h].fewer \in BOOLEAN
    /\ spare \subseteq Calls

Made(ops) == {h \in DOMAIN call : call[h].op \in ops}

(* Two calls that were in flight together, and two that have saved one row.*)
Met(ops)   == \E x \in Made(ops), y \in DOMAIN call : {x, y} \in crossed
Clash(ops) == \E x \in Made(ops), y \in DOMAIN call :
                 {x, y} \in crossed /\ wrote[x] \cap wrote[y] # {}
JobOps == {"job_post", "job_put", "job_drop", "shift"}
Stopped(h, steps) == pc[h] \in steps \/ (h \in DOMAIN cut /\ cut[h] \in steps)

(* A company has one owner, whoever has been made it: unless a change of   *)
(* ownership is between taking it from the old owner and giving it to the  *)
(* new one, or has failed there; one has crossed a call that has saved one *)
(* of its rows, with the flag as it was; an education has been deleted,    *)
(* with the employee; or the body of a hire has made the new one an owner. *)
OneOwner ==
    \/ Cardinality(Owners) = 1
    \/ \E h \in Made({"owner"}) : Stopped(h, {"own_give"})
    \/ Clash({"owner"})
    \/ \E h \in Made({"education"}) : pc[h] = "done"
    \/ \E h \in Made({"hire"}) : call[h].body.owner

(* Not more than one employee above the seats paid for is active (the      *)
(* comparison before a hire is <=): unless one was hired on trial or made  *)
(* active by hand; a deletion has lowered the seats and not stored that    *)
(* the employee is inactive, or has done so for one who was inactive; the  *)
(* body of a purchase has named a negative number, of which nothing in the *)
(* code keeps as many as are active; or a hire or a deletion has crossed   *)
(* another call.                                                           *)
SeatsKept ==
    \/ Cardinality(Active) <= seats + 1
    \/ \E h \in Made({"hire"}) : call[h].body.trial
    \/ \E h \in Made({"put"}) : call[h].body = "Active"
    \/ \E h \in Made({"status"}) : call[h].body.status = "Active"
    \/ \E h \in Made({"delete"}) : Stopped(h, {"delete_notify", "delete_save"})
    \/ spare # {}
    \/ \E h \in Made({"buy"}) : call[h].body < 0
    \/ Met({"hire", "delete"})

(* Whoever a current job information names as supervisor has more than the *)
(* access of an employee: unless a PUT has made a job information current, *)
(* the supervisor was named by a change of supervisor, by a hire or as     *)
(* one's own, the access was set by hand or lowered by a change of status, *)
(* somebody was Non Active and not counted, a PUT or a DELETE is between   *)
(* its two saves or has failed there, or two calls have crossed and saved  *)
(* one row.                                                                *)
SupervisorsManage ==
    \/ \A e \in DOMAIN emp :
         LET s == Current(emp[e]).to IN
         emp[e].status # "Non Active" /\ s \in DOMAIN emp => emp[s].level # "EMPLOYEE"
    \/ \E h \in Made({"job_put"}) : call[h].body.due
    \/ Made({"shift", "level"}) # {}
    \/ \E h \in Made({"hire"}) : call[h].body.to # None
    \/ \E h \in Made({"job_post"}) : call[h].body.to = call[h].id
    \/ \E h \in Made({"put"}) : call[h].body = "Non Active"
    \/ Made({"status"}) # {}
    \/ \E h \in Made({"job_put", "job_drop"}) : Stopped(h, {"supervisor", "raise"})
    \/ Clash(JobOps)

(* An employee has one current job information at most: unless a PUT has   *)
(* made one current, whose last save restores the one it has closed, a PUT *)
(* or a DELETE is between its saves or has failed there, or two calls have *)
(* crossed and saved one row.                                              *)
OneCurrentJob ==
    \/ \A e \in DOMAIN emp : Len(SelectSeq(emp[e].jobs, LAMBDA j : j.active)) <= 1
    \/ \E h \in Made({"job_put"}) : call[h].body.due
    \/ \E h \in Made({"job_put", "job_drop"}) : pc[h] # "done"
    \/ Clash(JobOps)
=============================================================================
