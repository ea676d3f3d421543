--------------------------- MODULE TaskResponses ---------------------------
(***************************************************************************)
(* What employees answer to onboarding tasks (OnboardingTaskService) and   *)
(* trainings (TrainingService).  The answers of all employees are one JSON *)
(* column of the task or training, a form here: an answer is stored by     *)
(* reading the form and saving it whole.  The approval of an answer also   *)
(* enters a licence on the employee's row, whose licences are such a       *)
(* column too, and moves the uploaded documents to the employee; both come *)
(* before the form is saved.                                               *)
(*                                                                         *)
(* The id of a form is the call that posts it, or one of Tasks and         *)
(* Trainings, there from the start.  Answers, and the licence and          *)
(* documents they hold, are known by the call that sent them.              *)
(***************************************************************************)
EXTENDS FiniteSets, TLC, Rows

CONSTANTS
    Employees,
    Tasks,       \* onboarding tasks there from the start
    Trainings,   \* trainings there from the start
    Calls        \* HTTP calls; bounds how many are ever made

(* The id of a new form is not that of a form there from the start.        *)
ASSUME NewIds == Calls \cap (Tasks \cup Trainings) = {}

VARIABLES
    form,        \* onboarding_task and training
    licence,     \* licence[e]: the licences in the row of employee e
    filed,       \* the answers whose documents belong to the employee
    overwritten, \* history: the licences that a later approval has overwritten
    pc, call,
    var,         \* var[h]: the variables of call h
    crossed      \* history: pairs of calls that were in flight together

tables == <<form, licence, filed, overwritten>>
vars   == <<tables, pc, call, var, crossed>>

FormIds  == Tasks \cup Trainings \cup Calls
Statuses == {"submitted", "resubmit", "approved"}

(* from: who sent the answers; by (history): the approval that entered     *)
(* their licence and moved their documents, if one did.                    *)
None     == "none"
Response == [status: Statuses, from: Calls, by: Calls \cup {None}]
FormRow  == [kind: {"task", "training"}, responses: UNION {[E -> Response] : E \in SUBSET Employees}]

InFlight == {"licence_read", "licence_write", "files_save", "form_save",
             "employee_save"}
Steps    == InFlight \cup {"idle", "done", "failed"}

Busy == {h \in DOMAIN call : pc[h] \in InFlight}

Goto(h, from, to) == pc[h] = from /\ pc' = [pc EXCEPT ![h] = to]

(* A call is about a form, employees whose answers it means to change, and *)
(* the status it is to give them, or what it does to their licences.       *)
Begin(h, op, f, emps, s) ==
    /\ call' = Save(call, h, [op |-> op, form |-> f, emps |-> emps, status |-> s])
    /\ crossed' = crossed \cup {{h, x} : x \in Busy}

Set(h, field, value) == var' = [var EXCEPT ![h][field] = value]
Copy(h, f, rs) == Set(h, "copy", [form[f] EXCEPT !.responses = rs])
Same == UNCHANGED <<call, crossed>>

Init ==
    /\ form = [f \in Tasks \cup Trainings |->
                 [kind |-> IF f \in Tasks THEN "task" ELSE "training", responses |-> NoRows]]
    /\ licence = [e \in Employees |-> {}] /\ filed = {} /\ overwritten = {}
    /\ pc = [h \in Calls |-> "idle"]
    /\ call = NoRows /\ crossed = {}
    /\ var = [h \in Calls |-> [copy |-> NoRows, licences |-> {}]]
-----------------------------------------------------------------------------
(* Slips that a change to the handlers could make; each stands in for the  *)
(* definition it is named after.                                           *)

(* A PUT that names no responses clears them.                              *)
Kept_None(rs) == NoRows

(* An approved answer is approved again.                                   *)
Approves_Again(rs, e, s) == s = "approved"
-----------------------------------------------------------------------------
(* POST tasks/submit: submitOnboardingAnswers.  A first answer brings      *)
(* answers; a later one, or a reviewer, may send an empty array, and if    *)
(* that approves, no licence is entered and no document moved.  (To leave  *)
(* the array out is a TypeError.)  The notification of a later one comes   *)
(* before the form is saved.                                               *)
HasAnswered(rs, e) == e \in DOMAIN rs

Approves(rs, e, s) == s = "approved" /\ ~(HasAnswered(rs, e) /\ rs[e].status = "approved")

Answered(rs, e, s, h, new) ==
    [status |-> s,
     from   |-> IF new THEN h ELSE rs[e].from,
     by     |-> IF Approves(rs, e, s) THEN IF new THEN h ELSE None
                ELSE IF s = "approved" THEN rs[e].by ELSE None]

Submit(h) ==
    /\ pc[h] = "idle"
    /\ \E f \in DOMAIN form, e \in Employees, s \in Statuses, new \in BOOLEAN :
         LET rs == form[f].responses IN
         /\ form[f].kind = "task"
         /\ new \/ HasAnswered(rs, e)
         /\ Begin(h, "submit", f, {e}, s)
         /\ Copy(h, f, Save(rs, e, Answered(rs, e, s, h, new)))
         /\ Goto(h, "idle", IF new /\ Approves(rs, e, s) THEN "licence_read" ELSE "form_save")
    /\ UNCHANGED tables

(* handleComplianceQuestions: an entry does not keep the complianceId that *)
(* it would be found by, so there is a new one; but a question that has no *)
(* complianceId itself finds the first entry without one, and overwrites   *)
(* it.  Which entry is the first, the set leaves open.                     *)
Of(h) == CHOOSE e \in call[h].emps : TRUE

LicenceRead(h) ==
    /\ Goto(h, "licence_read", "licence_write")
    /\ Set(h, "licences", licence[Of(h)])
    /\ Same /\ UNCHANGED tables

LicenceWrite(h) ==
    /\ Goto(h, "licence_write", "files_save")
    /\ \E gone \in {{}} \cup {{a} : a \in var[h].licences} :
         /\ licence' = [licence EXCEPT ![Of(h)] = (var[h].licences \ gone) \cup {h}]
         /\ overwritten' = overwritten \cup gone
    /\ Same /\ UNCHANGED <<form, filed, var>>

(* handleUploadedDocuments: a document that is gone is passed over.        *)
FilesSave(h) ==
    /\ Goto(h, "files_save", "form_save")
    /\ filed' = filed \cup {h}
    /\ Same /\ UNCHANGED <<form, licence, overwritten, var>>

(* POST training responses: updateTrainingResponse                         *)
Respond(h) ==
    /\ Goto(h, "idle", "form_save")
    /\ \E f \in DOMAIN form, e \in Employees, s \in Statuses, new \in BOOLEAN :
         LET rs == form[f].responses IN
         /\ form[f].kind = "training"
         /\ new \/ HasAnswered(rs, e)
         /\ Begin(h, "respond", f, {e}, s)
         /\ Copy(h, f, Save(rs, e, [status |-> s, by |-> None,
                                    from |-> IF new THEN h ELSE rs[e].from]))
    /\ UNCHANGED tables
-----------------------------------------------------------------------------
(* POST forms: createOnboardingTask and createTraining                     *)
Create(h) ==
    /\ Goto(h, "idle", "done")
    /\ \E kind \in {"task", "training"} :
         form' = Save(form, h, [kind |-> kind, responses |-> NoRows])
    /\ Begin(h, "create", h, {}, None)
    /\ UNCHANGED <<licence, filed, overwritten, var>>

(* PUT forms: updateOnboardingTask, which may send any responses, those it *)
(* changes or brings back being its own, and updateTraining, which keeps   *)
(* those it has read.                                                      *)
Kept(rs) == rs

Sent(rs, h, out, new) ==
    [e \in (DOMAIN rs \ out) \cup DOMAIN new |->
        IF e \in DOMAIN new THEN [status |-> new[e], from |-> h, by |-> None] ELSE rs[e]]

Update(h) ==
    /\ Goto(h, "idle", "form_save")
    /\ \E f \in DOMAIN form :
         LET rs == form[f].responses IN
         \/ Begin(h, "update", f, {}, None) /\ Copy(h, f, Kept(rs))
         \/ /\ form[f].kind = "task"
            /\ \E out \in SUBSET DOMAIN rs, given \in SUBSET Employees : \E new \in [given -> Statuses] :
                 /\ Begin(h, "update", f, out \cup given, None)
                 /\ Copy(h, f, Sent(rs, h, out, new))
    /\ UNCHANGED tables

FormSave(h) ==
    /\ Goto(h, "form_save", "done")
    /\ form' = Save(form, call[h].form, var[h].copy)
    /\ Same /\ UNCHANGED <<licence, filed, overwritten, var>>

(* DELETE forms: deleteOnboardingTask and deletetraining                   *)
DeleteForm(h) ==
    /\ Goto(h, "idle", "done")
    /\ \E f \in DOMAIN form : Begin(h, "delete", f, {}, None) /\ form' = Delete(form, f)
    /\ UNCHANGED <<licence, filed, overwritten, var>>

(* PUT employee/:id: putEmployeeById saves the whole row that it read, and *)
(* may send the licences, perhaps not all.                                 *)
EditEmployee(h) ==
    /\ Goto(h, "idle", "employee_save")
    /\ \E e \in Employees : \E out \in SUBSET licence[e] :
         /\ Begin(h, "employee", None, {e}, IF out = {} THEN "keeps" ELSE "removes")
         /\ Set(h, "licences", licence[e] \ out)
    /\ UNCHANGED tables

EmployeeSave(h) ==
    /\ Goto(h, "employee_save", "done")
    /\ licence' = [licence EXCEPT ![Of(h)] = var[h].licences]
    /\ Same /\ UNCHANGED <<form, filed, overwritten, var>>

(* A form or an employee looked for is gone, or any await throws.          *)
Abort(h) ==
    /\ pc[h] \in InFlight
    /\ pc' = [pc EXCEPT ![h] = "failed"]
    /\ UNCHANGED <<tables, call, var, crossed>>

Answer(h)  == \/ Submit(h) \/ LicenceRead(h) \/ LicenceWrite(h) \/ FilesSave(h)
              \/ Respond(h) \/ FormSave(h)
Arrange(h) == \/ Create(h) \/ Update(h) \/ DeleteForm(h)
              \/ EditEmployee(h) \/ EmployeeSave(h)

Next == \E h \in Calls : Answer(h) \/ Arrange(h) \/ Abort(h)

Spec == Init /\ [][Next]_vars
-----------------------------------------------------------------------------
TypeOK ==
    /\ IsTable(form, FormIds, FormRow)
    /\ licence \in [Employees -> SUBSET Calls] /\ filed \subseteq Calls /\ overwritten \subseteq Calls
    /\ pc \in [Calls -> Steps] /\ DOMAIN call \subseteq Calls
    /\ crossed \subseteq {{h, x} : h, x \in Calls}

Savers          == {"submit", "respond", "update"}
About(f, e)     == {h \in DOMAIN call : call[h].op \in Savers /\ call[h].form = f /\ e \in call[h].emps}
Crossed(h, ops) == \E x \in DOMAIN call \ {h} : call[x].op \in ops /\ {h, x} \in crossed

(* The answers of an employee change only by a call about them: unless one *)
(* was in flight together with another call that saves the form.           *)
AnswersStay ==
    [][\A f \in DOMAIN form \cap DOMAIN form' : \A e \in DOMAIN form[f].responses :
         \/ e \in DOMAIN form'[f].responses /\ form'[f].responses[e] = form[f].responses[e]
         \/ \E h \in About(f, e) :
              (pc[h] = "form_save" /\ pc'[h] = "done") \/ Crossed(h, Savers)]_vars

(* What the approval of an answer brought is the employee's, the licence   *)
(* unless a save of the licences was in flight together with the approval, *)
(* or took licences out, or another approval has overwritten it.           *)
Licensed(e, r) ==
    /\ r.by \in filed
    /\ \/ r.by \in licence[e] \cup overwritten
       \/ \E h \in DOMAIN call :
            /\ e \in call[h].emps /\ call[h].op \in {"submit", "employee"}
            /\ call[h].status = "removes" \/ {h, r.by} \in crossed

(* An approved answer has its licence and its documents, as Licensed says, *)
(* unless an empty array or a PUT has approved it, which enter none; and   *)
(* it has one licence, unless it lost its approval to a call about it, or  *)
(* to a save of the form that was in flight together with the approval, or *)
(* an approval has failed.                                                 *)
LicencesAgree ==
    /\ \A f \in DOMAIN form : \A e \in DOMAIN form[f].responses :
         LET r == form[f].responses[e] IN
         form[f].kind = "task" /\ r.status = "approved" /\ r.by # None => Licensed(e, r)
    /\ \A e \in Employees : \A g, h \in licence[e] :
         \/ g = h \/ call[g].form # call[h].form
         \/ \E x \in {g, h} : pc[x] = "failed" \/ Crossed(x, Savers)
         \/ \E x \in About(call[h].form, e) : call[x].status # "approved" /\ pc[x] = "done"
-----------------------------------------------------------------------------
(* The inductive invariant that TaskResponsesProofs is about.              *)

Ops     == Savers \cup {"create", "delete", "employee"}
Asked   == [op: Ops, form: FormIds \cup {None}, emps: SUBSET Employees,
            status: Statuses \cup {None, "keeps", "removes"}]

(* The steps of an approval before its form is saved, and all at which a   *)
(* call holds the form that it will save.                                  *)
Approving    == {"licence_read", "licence_write", "files_save"}
Holds(h, f)  == pc[h] \in Approving \cup {"form_save"} /\ call[h].form = f
Keeps(h, e)  == pc[h] \in {"licence_write", "employee_save"} /\ e \in call[h].emps
Posted        == Tasks \cup Trainings \cup {h \in DOMAIN call : call[h].op = "create"}

(* A call is at a step of its handler, two in flight have crossed, and no  *)
(* form is saved that was never posted.                                    *)
CallsInv ==
    /\ IsTable(call, Calls, Asked) /\ DOMAIN form \subseteq Posted
    /\ var \in [Calls -> [copy: {NoRows} \cup FormRow, licences: SUBSET Calls]]
    /\ \A h \in Calls : pc[h] = "idle" <=> h \notin DOMAIN call
    /\ \A g, h \in Busy : g = h \/ {g, h} \in crossed
    /\ \A h \in DOMAIN call :
         /\ pc[h] \in Approving => call[h].op = "submit" /\ call[h].status = "approved"
         /\ pc[h] = "form_save" => call[h].op \in Savers
         /\ pc[h] = "employee_save" => call[h].op = "employee"
         /\ call[h].op \in Savers => call[h].form \in Posted
         /\ call[h].op \in {"submit", "employee"} => \E e \in Employees : call[h].emps = {e}
         /\ pc[h] \in Approving \cup {"form_save"} => var[h].copy \in FormRow

(* What a call is about to save says the same of an employee's answers as  *)
(* what is stored, and as what another call is about to save, but for the  *)
(* calls about them and what is lost when one of those has crossed.        *)
Spoilt(f, e)   == \E h \in About(f, e) : Crossed(h, Savers)
Agree(r, s, e) ==
    /\ e \in DOMAIN r.responses <=> e \in DOMAIN s.responses
    /\ e \in DOMAIN r.responses => r.responses[e] = s.responses[e]

AnswersInv ==
    \A h \in DOMAIN call : \A f \in FormIds : Holds(h, f) =>
      \A e \in Employees : Spoilt(f, e) \/
        /\ f \in DOMAIN form /\ e \notin call[h].emps => Agree(var[h].copy, form[f], e)
        /\ \A g \in DOMAIN call : Holds(g, f) /\ g # h => Agree(var[h].copy, var[g].copy, e)

(* Licences that are stored, or about to be, are those of approvals that   *)
(* have come so far, and one is missing in one place only for a cause.     *)
Excused(e, a) ==
    \/ a \in overwritten
    \/ \E h \in DOMAIN call :
         /\ e \in call[h].emps /\ call[h].op \in {"submit", "employee"}
         /\ call[h].status = "removes" \/ {h, a} \in crossed

Licences(e) == {licence[e]} \cup {var[h].licences : h \in {g \in DOMAIN call : Keeps(g, e)}}

LicencesInv ==
    \A e \in Employees : \A L \in Licences(e) :
      /\ \A h \in L : /\ h \in DOMAIN call /\ call[h].op = "submit" /\ call[h].emps = {e}
                      /\ call[h].status = "approved"
                      /\ pc[h] \notin {"licence_read", "licence_write"}
      /\ \A M \in Licences(e) : \A a \in L \ M : Excused(e, a)

(* An approved answer of a task, stored or about to be, has what its       *)
(* approval brought, but for the approval that is still to give it.        *)
Covered(h, e, r) ==
    \/ Licensed(e, r)
    \/ /\ r.by = h /\ e \in call[h].emps
       /\ \/ pc[h] \in {"licence_read", "licence_write"}
          \/ pc[h] = "files_save" /\ (h \in licence[e] \/ Excused(e, h))

LicensedInv ==
    /\ \A f \in DOMAIN form : \A e \in DOMAIN form[f].responses :
         LET r == form[f].responses[e] IN
         form[f].kind = "task" /\ r.status = "approved" /\ r.by # None => Licensed(e, r)
    /\ \A h \in DOMAIN call : pc[h] \in Approving \cup {"form_save"} =>
         \A e \in DOMAIN var[h].copy.responses :
           LET r == var[h].copy.responses[e] IN
           var[h].copy.kind = "task" /\ r.status = "approved" /\ r.by # None => Covered(h, e, r)

(* An approval that nothing interferes with stays: wherever its form is    *)
(* stored or about to be, its answer is approved.                          *)
Approval(h)   == h \in DOMAIN call /\ call[h].op = "submit" /\ call[h].status = "approved"
Refused(f, e) == \E h \in About(f, e) : call[h].status # "approved" /\ pc[h] = "done"
IsApproved(r, e) == e \in DOMAIN r.responses /\ r.responses[e].status = "approved"

SettledInv ==
    \A h \in DOMAIN call : \A e \in call[h].emps : \A f \in FormIds :
      Approval(h) /\ call[h].form = f =>
        /\ Holds(h, f) => IsApproved(var[h].copy, e)
        /\ pc[h] = "done" /\ ~Crossed(h, Savers) /\ ~Refused(f, e) =>
             /\ f \in DOMAIN form => IsApproved(form[f], e)
             /\ \A g \in DOMAIN call : Holds(g, f) =>
                  \/ IsApproved(var[g].copy, e)
                  \/ e \in call[g].emps /\ call[g].status # "approved"

(* Two licences of one answer have one of the causes of LicencesAgree,     *)
(* which a second approval has already when it begins.                     *)
Doubled(e, g, h) ==
    \/ \E x \in {g, h} : pc[x] = "failed" \/ Crossed(x, Savers)
    \/ Refused(call[h].form, e)

DoubledInv ==
    \A e \in Employees :
      /\ \A h \in DOMAIN call : pc[h] \in {"licence_read", "licence_write"} =>
           \A g \in DOMAIN call : Approval(g) /\ g # h /\ call[g].form = call[h].form
                                  /\ call[g].emps = {e} /\ call[h].emps = {e} => Doubled(e, g, h)
      /\ \A L \in Licences(e) : \A g, h \in L :
           g = h \/ call[g].form # call[h].form \/ Doubled(e, g, h)

IInv ==
    /\ TypeOK /\ CallsInv /\ AnswersInv /\ LicencesInv
    /\ LicensedInv /\ SettledInv /\ DoubledInv
=============================================================================
