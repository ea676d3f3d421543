----------------------------- MODULE Companies -----------------------------
(***************************************************************************)
(* The life of a company: CompanyService.postCompany, which makes a        *)
(* company, its owner and a set of demonstration staff and data in some    *)
(* sixty awaited statements with no transaction; deleteCompanyById, which  *)
(* takes everything away again table by table, or only the demonstration   *)
(* data; getVerifyPhone, which like the latter writes back a whole company *)
(* row; and EmployeeService.postEmployee, which the sign-up calls for each *)
(* member of staff and which keeps the employee it has inserted in a field *)
(* that all calls share.                                                   *)
(*                                                                         *)
(* A row is kept for what it says of whom: its table, the company in its   *)
(* companyId, the employee in its employeeId and the others it names.      *)
(* Each await of a hire or a deletion is a step.  The statements of a      *)
(* sign-up that only insert are taken together in the loops and groups of  *)
(* InsertThen: what a failure half-way leaves is a part of what the group  *)
(* leaves.  The sample of twenty-four employees is cut down to two.        *)
(*                                                                         *)
(* The id of a company is the call that signs it up; that of an employee   *)
(* is the call that hires and the role it hires for.                       *)
(***************************************************************************)
EXTENDS Naturals, FiniteSets, Sequences, TLC, Rows

CONSTANT Calls       \* HTTP calls; bounds how many are ever made

Samples == {"manager", "clerk"}
Roles   == {"owner", "recruit"} \cup Samples
Emps    == Calls \X Roles
Nobody  == <<>>

VARIABLES
    company,         \* the companies of the administration service
    staff,           \* hrm_employee_details
    rows,            \* every other table that a sign-up fills
    assignees,       \* hrm_leave_categories: whom a company's name
    savedEmployee,   \* the field of EmployeeService
    pc, call,
    hire,            \* hire[h]: where call h is within postEmployee
    var,             \* var[h]: the variables of call h
    crossed          \* history: pairs of calls that were in flight together

vars == <<company, staff, rows, assignees, savedEmployee, pc, call, hire, var,
          crossed>>

CompanyRow == [demo: BOOLEAN, verified: BOOLEAN]
StaffRow   == [company: Calls, reportsTo: SUBSET Emps]
Fresh(c)   == [company |-> c, reportsTo |-> {}]

(* The groups of statements of a sign-up that only insert, each with the   *)
(* step that follows it.                                                   *)
InsertThen == [settings |-> "first", links |-> "owner_row",
               samples |-> "promotion", recruitment |-> "boarding",
               boarding |-> "balances", balances |-> "categories",
               work |-> "leave", leave |-> "done"]
Inserting == DOMAIN InsertThen

(* Slips that a change to the code could make stand before the definitions *)
(* they are named after, which each of them stands in for.                 *)

(* The notes are forgotten. *)
CompanyOrder_NoNotes ==
    <<"assets", "claims", "attendance_summary", "information_requests",
      "leave_balances", "leave_categories", "leave_history", "leave_requests",
      "time_entries", "time_projects", "files", "staff", "notifications",
      "configs", "reports", "folders", "announcements", "attendance">>

(* The tables that a deletion goes through, in order.                      *)
CompanyOrder ==
    <<"assets", "claims", "attendance_summary", "information_requests",
      "leave_balances", "leave_categories", "leave_history", "leave_requests",
      "time_entries", "time_projects", "files", "staff", "notifications",
      "configs", "reports", "folders", "notes", "announcements", "attendance">>

DemoOrder ==
    <<"onboarding_config", "offboarding_config", "training_config", "job",
      "candidate", "attendance_summary", "time_projects", "leave_history",
      "leave_requests", "time_entries", "onboarding_task",
      "onboarding_template", "attendance">>

(* Those of which a demonstration employee's rows are deleted one by one.  *)
OfEmployee ==
    {"assets", "claims", "attendance_summary", "information_requests",
     "leave_balances", "leave_history", "leave_requests", "time_entries",
     "files", "notes", "attendance"}

(* The onboarding tasks, offboarding tasks and trainings are configs.      *)
Configs == {"configs", "onboarding_config", "offboarding_config", "training_config"}
Tables  == {CompanyOrder[i] : i \in 1..Len(CompanyOrder)} \cup Configs \cup
           {DemoOrder[i] : i \in 1..Len(DemoOrder)} \cup
           {"email_counts", "features", "access_levels", "payroll", "talent_pool"}

Hiring    == {"owner", "manager", "clerk", "recruit"}
SigningUp == {"company", "first", "job_read", "job_save", "owner_row", "everyone",
              "contacts", "contact_save", "promotion", "promotion_reporter",
              "promotion_save", "categories"} \cup Inserting \cup Hiring
Deleting  == {"clear", "delete_company", "demo_notifications", "demo_employees",
              "demo_clear", "demo_categories", "demo_assignees", "demo_put"}
Steps     == SigningUp \cup Deleting \cup {"idle", "verify_put", "done", "failed"}
HireSteps == {"none", "lookup", "insert", "resume", "status", "save",
              "save_again", "answer", "balance", "categories"}

NoVar == [got      |-> [r \in Roles |-> Nobody],  \* what the hires answered
          owner    |-> Nobody,     \* the owner's row, looked up by that answer
          role     |-> "owner",    \* whose job is being stored
          everyone |-> {},         \* the employees, as read
          todo     |-> {},         \* those of them a loop has still to serve
          copy     |-> NoRows,     \* a row of staff, as read, under its id
          names    |-> {},         \* leave categories, as read
          flags    |-> NoRows,     \* the company row, as read
          n        |-> 1]          \* the place in the order of a deletion

Busy(x) == pc[x] \notin {"idle", "done", "failed"}
Goto(h, from, to) == pc[h] = from /\ pc' = [pc EXCEPT ![h] = to]

Begin(h, op, c) ==
    /\ call' = Save(call, h, [op |-> op, company |-> c])
    /\ crossed' = crossed \cup {{h, x} : x \in {y \in Calls : Busy(y)}}

Set(h, f) == var' = [var EXCEPT ![h] = f @@ @]
Forget(h) == var' = [var EXCEPT ![h] = [NoVar EXCEPT !.got = var[h].got]]
Company(h) == call[h].company
StaffOf(c) == {e \in DOMAIN staff : staff[e].company = c}

Init ==
    /\ company = NoRows /\ staff = NoRows /\ rows = {} /\ assignees = NoRows
    /\ savedEmployee = Nobody
    /\ pc = [h \in Calls |-> "idle"]
    /\ call = NoRows
    /\ hire = [h \in Calls |-> "none"]
    /\ var = [h \in Calls |-> NoVar]
    /\ crossed = {}
-----------------------------------------------------------------------------
(* What the methods of a sign-up insert: their rows for the company h.     *)

Row(t, c, e, others) == [table |-> t, company |-> c, emp |-> e, others |-> others]
Plain(h, ts)       == {Row(t, h, Nobody, {}) : t \in ts}
Naming(h, t, os)   == {Row(t, h, Nobody, os)}
Each(h, t, es, os) == {Row(t, h, e, os) : e \in es}

Got(h, r)   == var[h].got[r]
Others(h)   == var[h].everyone \ {Got(h, "owner")}
(* The row of staff with the owner flag is the one hired as owner.         *)
Owners(h)   == {e \in StaffOf(h) : e[2] = "owner"}

addNotifications(h)         == Naming(h, "notifications", StaffOf(h))

postSapEmailCount(h)        == Plain(h, {"email_counts"})
postAccessLevelsDummy(h)    == Plain(h, {"access_levels"})
postDepartmentDummy(h)      == Plain(h, {"configs"})
postDegreeDummy(h)          == Plain(h, {"configs"})
postDivisionDummy(h)        == Plain(h, {"configs"})
postEmergencyContactRelationshipDummy(h) == Plain(h, {"configs"})
postEmploymentStatusesDummy(h)     == Plain(h, {"configs"})
postJobTitlesDummy(h)       == Plain(h, {"configs"})
postTerminateReason(h)      == Plain(h, {"configs"})
postLocationsDummy(h)       == Plain(h, {"configs"})
postShirtSizeDummy(h)       == Plain(h, {"configs"})
postHiringCandidateStatusesDummy(h) == Plain(h, {"configs"})
postHiringCandidateSourcesDummy(h) == Plain(h, {"configs"})
postHiringEmailTemplatesDummy(h)   == Plain(h, {"configs"})
postDummyPayrollData(h)     == Plain(h, {"payroll"})
postFolders(h)              == Plain(h, {"folders"})
addTrialSubscription(h)     == Plain(h, {"features"})
postReports(h)              == Plain(h, {"reports"})
postCompanyLinksCategories(h) == Plain(h, {"configs"})
postCompanyLinks(h)         == Plain(h, {"configs"})
postClaimsCategories(h)     == Plain(h, {"configs"})

postNotesDummy(h)           == Each(h, "notes", Others(h), {var[h].owner})
postTrainingCategoryDummy(h)     == Plain(h, {"configs"})
postAssetsCategoryDummy(h)  == Plain(h, {"configs"})
postAssetsDummy(h)          == Each(h, "assets", Others(h), {})
postOffboardingCategoriesDummy(h) == Plain(h, {"configs"})
postOnboardingCategoriesDummy(h) == Plain(h, {"configs"})
postTrainingDummy(h)        == Plain(h, {"training_config"})
postOnboardingDummy(h)      == Naming(h, "onboarding_config", {var[h].owner})
postOffboardingDummy(h)     == Naming(h, "offboarding_config", {var[h].owner})
(* The file of a claim names its uploader, not an employee it belongs to.  *)
postClaimsDummy(h) ==
    UNION {Naming(h, "files", {e}) : e \in Others(h)} \cup
    Each(h, "claims", Others(h), {}) \cup addNotifications(h)
postHolidays(h)             == Plain(h, {"configs"})
postPayrollPredefinedData(h) == Plain(h, {"payroll"})

(* The first employee that is not the owner, whichever the query puts      *)
(* first: the row stands for each of them.                                 *)
postStatusChangeRequest(h) ==
    Each(h, "information_requests", Others(h), {Got(h, "owner")}) \cup
    addNotifications(h)
postJobOpeningDummy(h)      == Naming(h, "job", {Got(h, "owner")})
postHiringCandidatesDummy(h) == Plain(h, {"candidate"})
postTalentPoolsDummy(h)     == Naming(h, "talent_pool", {Got(h, "owner")})
postAnnouncementsDummy(h) ==
    Naming(h, "announcements", {Got(h, "owner")}) \cup addNotifications(h)
postDummyOnboardingTask(h)  == Naming(h, "onboarding_task", StaffOf(h))
postDummyOnboardingTemplate(h) == Plain(h, {"onboarding_template"})

(* postLeaves, and what it makes the assignees of the categories           *)
Assigned(h)   == Others(h) \cup {var[h].owner}
postLeaves(h) == Each(h, "leave_balances", Assigned(h), {})

postAttendanceDummy(h) ==
    Each(h, "attendance", var[h].everyone, {}) \cup
    Each(h, "attendance_summary", var[h].everyone, {})
(* The query of the members has lost its company. *)
postDummyProjects_All(h)    == Naming(h, "time_projects", DOMAIN staff)

postDummyProjects(h)        == Naming(h, "time_projects", StaffOf(h))
postDummyProjectsTimeEntries(h) == Each(h, "time_entries", StaffOf(h), {})

(* The dice of postLeavesRequestDummy are taken to name everybody.  The    *)
(* history of a request is stored before the balance is looked for.        *)
createLeaveHistory(h)       == Each(h, "leave_history", StaffOf(h), {})
postLeavesRequestDummy(h) ==
    IF h \in DOMAIN assignees
    THEN createLeaveHistory(h) \cup
         Each(h, "leave_requests",
              {e \in StaffOf(h) : Row("leave_balances", h, e, {}) \in rows}, StaffOf(h))
    ELSE {}

Settings(h) ==
    UNION {postSapEmailCount(h), postAccessLevelsDummy(h), postDepartmentDummy(h),
           postDegreeDummy(h), postDivisionDummy(h),
           postEmergencyContactRelationshipDummy(h), postEmploymentStatusesDummy(h),
           postJobTitlesDummy(h), postTerminateReason(h), postLocationsDummy(h),
           postShirtSizeDummy(h), postHiringCandidateStatusesDummy(h),
           postHiringCandidateSourcesDummy(h), postHiringEmailTemplatesDummy(h),
           postDummyPayrollData(h)}
Links(h) ==
    UNION {postFolders(h), addTrialSubscription(h), postReports(h),
           postCompanyLinksCategories(h), postCompanyLinks(h)}
SampleData(h) ==
    UNION {postNotesDummy(h), postTrainingCategoryDummy(h), postAssetsCategoryDummy(h),
           postAssetsDummy(h), postOffboardingCategoriesDummy(h),
           postOnboardingCategoriesDummy(h), postTrainingDummy(h),
           postOnboardingDummy(h), postOffboardingDummy(h), postClaimsDummy(h),
           postHolidays(h), postPayrollPredefinedData(h)}

Recruitment(h) ==
    UNION {postStatusChangeRequest(h), postJobOpeningDummy(h),
           postHiringCandidatesDummy(h), postTalentPoolsDummy(h),
           postAnnouncementsDummy(h)}
Boarding(h) == postDummyOnboardingTask(h) \cup postDummyOnboardingTemplate(h)
Work(h) ==
    UNION {postAttendanceDummy(h), postDummyProjects(h), postDummyProjectsTimeEntries(h)}

Due(h) ==
    CASE pc[h] = "settings"    -> Settings(h)
      [] pc[h] = "links"       -> Links(h)
      [] pc[h] = "samples"     -> SampleData(h)
      [] pc[h] = "recruitment" -> Recruitment(h)
      [] pc[h] = "boarding"    -> Boarding(h)
      [] pc[h] = "balances"    -> postLeaves(h)
      [] pc[h] = "work"        -> Work(h)
      [] pc[h] = "leave"       -> postLeavesRequestDummy(h)

(* What the group dereferences is not there: the sign-up fails.            *)
Throws(h) ==
    \/ pc[h] \in {"samples", "balances"} /\ var[h].owner = Nobody
    \/ pc[h] = "samples" /\ (Others(h) = {} \/ ~(Others(h) \subseteq DOMAIN staff))
    \/ pc[h] = "samples" /\ ~(Plain(h, {"folders"}) \subseteq rows)
    \/ pc[h] = "recruitment" /\ Others(h) = {}
    \/ pc[h] = "work" /\ Owners(h) = {}
    \/ pc[h] = "leave" /\ (h \notin DOMAIN assignees \/ StaffOf(h) = {})
-----------------------------------------------------------------------------
(* The sign-up of a company: POST company                                  *)
SignUp(h) ==
    /\ Goto(h, "idle", "company")
    /\ Begin(h, "signUp", h)
    /\ UNCHANGED <<company, staff, rows, assignees, savedEmployee, hire, var>>

PostCompany(h) ==
    /\ Goto(h, "company", "settings")
    /\ company' = Save(company, h, [demo |-> TRUE, verified |-> FALSE])
    /\ UNCHANGED <<staff, rows, assignees, savedEmployee, call, hire, var, crossed>>

Insert(h) ==
    /\ pc[h] \in Inserting
    /\ IF Throws(h)
       THEN Goto(h, pc[h], "failed") /\ UNCHANGED rows
       ELSE Goto(h, pc[h], InsertThen[pc[h]]) /\ rows' = rows \cup Due(h)
    /\ UNCHANGED <<company, staff, assignees, savedEmployee, call, hire, var, crossed>>

StartHire(h, from, to) ==
    /\ Goto(h, from, to)
    /\ hire' = [hire EXCEPT ![h] = "lookup"]

postFirstEmployeeDummy(h) ==
    /\ StartHire(h, "first", "owner")
    /\ UNCHANGED <<company, staff, rows, assignees, savedEmployee, call, var, crossed>>

(* postEmployeesDummy stores the job of whomever the hire has answered: a  *)
(* manager reports to the owner, the others to a manager.                  *)
Role(h) == var[h].role
ReportsTo(h) == Got(h, IF Role(h) = "manager" THEN "owner" ELSE "manager")

PostJobRead(h) ==
    /\ LET e == Got(h, Role(h)) IN
       IF e \in DOMAIN staff
       THEN Goto(h, "job_read", "job_save") /\ Set(h, [copy |-> e :> staff[e]])
       ELSE Goto(h, "job_read", "failed") /\ UNCHANGED var
    /\ UNCHANGED <<company, staff, rows, assignees, savedEmployee, call, hire, crossed>>

PostJobSave(h) ==
    /\ pc[h] = "job_save"
    /\ LET e == Got(h, Role(h)) IN
       staff' = Save(staff, e, [var[h].copy[e] EXCEPT !.reportsTo = @ \cup {ReportsTo(h)}])
    /\ IF Role(h) = "manager"
       THEN StartHire(h, "job_save", "clerk")
       ELSE Goto(h, "job_save", "links") /\ UNCHANGED hire
    /\ Set(h, [copy |-> NoRows])
    /\ UNCHANGED <<company, rows, assignees, savedEmployee, call, crossed>>

ReadOwnerRow(h) ==
    /\ Goto(h, "owner_row", "everyone")
    /\ Set(h, [owner |-> IF Got(h, "owner") \in DOMAIN staff THEN Got(h, "owner")
                                                           ELSE Nobody])
    /\ UNCHANGED <<company, staff, rows, assignees, savedEmployee, call, hire, crossed>>

ReadEveryone(h) ==
    /\ Goto(h, "everyone", "contacts")
    /\ Set(h, [everyone |-> StaffOf(h), todo |-> StaffOf(h) \ {Got(h, "owner")}])
    /\ rows' = rows \cup postClaimsCategories(h)
    /\ UNCHANGED <<company, staff, assignees, savedEmployee, call, hire, crossed>>

(* The contacts start over when they are used up. *)
ContactsUsed_Never(h) == FALSE

(* postEmergencyContactDummy: there are as many contacts as samples.  A    *)
(* contact names nobody, but the row is saved whole.                       *)
ContactsUsed(h) == Cardinality(Others(h) \ var[h].todo) = Cardinality(Samples)

ContactRead(h) ==
    /\ IF var[h].todo = {}
       THEN Goto(h, "contacts", "samples") /\ UNCHANGED var
       ELSE \E e \in var[h].todo :
              IF ContactsUsed(h) \/ e \notin DOMAIN staff
              THEN Goto(h, "contacts", "failed") /\ UNCHANGED var
              ELSE /\ Goto(h, "contacts", "contact_save")
                   /\ Set(h, [todo |-> var[h].todo \ {e}, copy |-> e :> staff[e]])
    /\ UNCHANGED <<company, staff, rows, assignees, savedEmployee, call, hire, crossed>>

ContactSave(h) ==
    /\ Goto(h, "contact_save", "contacts")
    /\ staff' = var[h].copy @@ staff
    /\ Set(h, [copy |-> NoRows])
    /\ UNCHANGED <<company, rows, assignees, savedEmployee, call, hire, crossed>>

(* postPromotionRequestDummy, and JobInformationService.postJobInformation *)
(* for the request that is approved: one with a job reports to the owner.  *)
PromotionRead(h) ==
    /\ LET able == {e \in StaffOf(h) : staff[e].reportsTo # {}} IN
       IF able = {}
       THEN Goto(h, "promotion", "failed") /\ UNCHANGED var
       ELSE \E e \in able :
              Goto(h, "promotion", "promotion_reporter") /\ Set(h, [copy |-> e :> staff[e]])
    /\ UNCHANGED <<company, staff, rows, assignees, savedEmployee, call, hire, crossed>>

PromotionReporter(h) ==
    /\ Goto(h, "promotion_reporter",
            IF Got(h, "owner") \in DOMAIN staff THEN "promotion_save" ELSE "failed")
    /\ UNCHANGED <<company, staff, rows, assignees, savedEmployee, call, hire, var,
                   crossed>>

PromotionSave(h) ==
    /\ Goto(h, "promotion_save", "recruitment")
    /\ \E e \in DOMAIN var[h].copy :
         LET saved == [var[h].copy[e] EXCEPT !.reportsTo = @ \cup {Got(h, "owner")}] IN
         /\ staff' = Save(staff, e, saved)
         /\ rows' = rows \cup {Row("information_requests", h, e, {Got(h, "owner")})}
                         \cup addNotifications(h)
    /\ Set(h, [copy |-> NoRows])
    /\ UNCHANGED <<company, assignees, savedEmployee, call, hire, crossed>>

SaveCategories(h) ==
    /\ Goto(h, "categories", "work")
    /\ assignees' = Save(assignees, h, Assigned(h))
    /\ UNCHANGED <<company, staff, rows, savedEmployee, call, hire, var, crossed>>
-----------------------------------------------------------------------------
(* EmployeeService.postEmployee, for the sign-up or for POST employee      *)
Recruit(h) ==
    /\ \E c \in DOMAIN company : Begin(h, "hire", c)
    /\ StartHire(h, "idle", "recruit")
    /\ UNCHANGED <<company, staff, rows, assignees, savedEmployee, var>>

Made(h) == <<h, pc[h]>>
HireGoto(h, from, to) ==
    /\ hire[h] = from
    /\ hire' = [hire EXCEPT ![h] = to]
    /\ UNCHANGED pc
HireFails(h, from) ==
    /\ hire[h] = from
    /\ hire' = [hire EXCEPT ![h] = "none"]
    /\ pc' = [pc EXCEPT ![h] = "failed"]

HireLookup(h) ==
    /\ IF /\ Company(h) \in DOMAIN company
          /\ Plain(Company(h), {"access_levels"}) \subseteq rows
       THEN HireGoto(h, "lookup", "insert")
       ELSE HireFails(h, "lookup")
    /\ UNCHANGED <<company, staff, rows, assignees, savedEmployee, call, var, crossed>>

HireInsert(h) ==
    /\ HireGoto(h, "insert", "resume")
    /\ staff' = Save(staff, Made(h), Fresh(Company(h)))
    /\ UNCHANGED <<company, rows, assignees, savedEmployee, call, var, crossed>>

HireResume(h) ==
    /\ savedEmployee' = Made(h)
    /\ IF Made(h) \in DOMAIN staff
       THEN /\ HireGoto(h, "resume", "status")
            /\ Set(h, [copy |-> Made(h) :> staff[Made(h)]])
       ELSE HireFails(h, "resume") /\ UNCHANGED var
    /\ UNCHANGED <<company, staff, rows, assignees, call, crossed>>

HireStatus(h) ==
    /\ HireGoto(h, "status", "save")
    /\ staff' = var[h].copy @@ staff
    /\ Set(h, [copy |-> NoRows])
    /\ UNCHANGED <<company, rows, assignees, savedEmployee, call, crossed>>

(* The inserted entity is saved whole twice more.                          *)
HireSave(h) ==
    /\ HireGoto(h, "save", "save_again") \/ HireGoto(h, "save_again", "answer")
    /\ staff' = Save(staff, Made(h), Fresh(Company(h)))
    /\ UNCHANGED <<company, rows, assignees, savedEmployee, call, var, crossed>>

AfterHire == [owner |-> "manager", manager |-> "job_read", clerk |-> "job_read",
              recruit |-> "done"]

HireDone(h) ==
    /\ pc' = [pc EXCEPT ![h] = AfterHire[@]]
    /\ hire' = [hire EXCEPT ![h] = IF pc[h] = "owner" THEN "lookup" ELSE "none"]

(* What the hire answers, and whom it enrols, is read from the shared      *)
(* field.                                                                  *)
HireAnswer(h) ==
    /\ hire[h] = "answer"
    /\ LET c == Company(h)
           got == [got |-> [var[h].got EXCEPT ![pc[h]] = savedEmployee],
                   role |-> pc[h]] IN
       IF c \in DOMAIN assignees
       THEN HireGoto(h, "answer", "balance") /\ Set(h, [names |-> assignees[c]] @@ got)
       ELSE HireDone(h) /\ Set(h, got)
    /\ UNCHANGED <<company, staff, rows, assignees, savedEmployee, call, crossed>>

HireBalance(h) ==
    /\ HireGoto(h, "balance", "categories")
    /\ Set(h, [names |-> var[h].names \cup {savedEmployee}])
    /\ rows' = rows \cup {Row("leave_balances", Company(h), savedEmployee, {})}
    /\ UNCHANGED <<company, staff, assignees, savedEmployee, call, crossed>>

HireCategories(h) ==
    /\ hire[h] = "categories"
    /\ HireDone(h)
    /\ assignees' = Save(assignees, Company(h), var[h].names)
    /\ UNCHANGED <<company, staff, rows, savedEmployee, call, var, crossed>>
-----------------------------------------------------------------------------
(* DELETE company: deleteCompanyById for a type of "company" or "dummy".   *)
(* Its catch answers as if nothing had happened.                           *)
DeleteRead(h) ==
    /\ \E c \in DOMAIN company, op \in {"delete", "demo"} :
         /\ Begin(h, op, c)
         /\ Goto(h, "idle", IF op = "delete" THEN "clear" ELSE "demo_notifications")
         /\ Set(h, [flags |-> c :> company[c], everyone |-> StaffOf(c)])
    /\ UNCHANGED <<company, staff, rows, assignees, savedEmployee, hire>>

Cleared(c, ts) == {r \in rows : ~(r.company = c /\ r.table \in ts)}
Deletes(t) == IF t = "configs" THEN Configs ELSE {t}

ClearTable(h) ==
    LET c == Company(h) t == CompanyOrder[var[h].n] IN
    /\ pc[h] = "clear"
    /\ Goto(h, "clear", IF var[h].n = Len(CompanyOrder) THEN "delete_company" ELSE "clear")
    /\ Set(h, [n |-> var[h].n + 1])
    /\ rows' = Cleared(c, Deletes(t))
    /\ staff' = IF t = "staff" THEN [e \in DOMAIN staff \ StaffOf(c) |-> staff[e]] ELSE staff
    /\ assignees' = IF t = "leave_categories" THEN Delete(assignees, c) ELSE assignees
    /\ UNCHANGED <<company, savedEmployee, call, hire, crossed>>

DeleteCompany(h) ==
    /\ Goto(h, "delete_company", "done")
    /\ company' = Delete(company, Company(h))
    /\ Forget(h)
    /\ UNCHANGED <<staff, rows, assignees, savedEmployee, call, hire, crossed>>

(* The owner of the company, among the employees read                      *)
OwnersRead(h) == {e \in var[h].everyone : e[2] = "owner"}

DemoNotifications(h) ==
    /\ Goto(h, "demo_notifications", "demo_employees")
    /\ rows' = Cleared(Company(h), {"notifications"})
    /\ Set(h, [todo |-> var[h].everyone])
    /\ UNCHANGED <<company, staff, assignees, savedEmployee, call, hire, crossed>>

(* All rows of one employee; those of boarding are the whole company's     *)
DemoEmployee(h) ==
    /\ \E e \in var[h].todo :
         IF OwnersRead(h) = {}
         THEN Goto(h, "demo_employees", "failed") /\ UNCHANGED <<staff, rows, var>>
         ELSE /\ Goto(h, "demo_employees", "demo_employees")
              /\ Set(h, [todo |-> var[h].todo \ {e}])
              /\ IF e \in OwnersRead(h)
                 THEN UNCHANGED <<staff, rows>>
                 ELSE /\ staff' = Delete(staff, e)
                      /\ rows' = {r \in Cleared(Company(h), {"onboarding_task", "onboarding_template"}) :
                                    ~(r.emp = e /\ r.table \in OfEmployee)}
    /\ UNCHANGED <<company, assignees, savedEmployee, call, hire, crossed>>

DemoEmployeesOver(h) ==
    /\ Goto(h, "demo_employees", "demo_clear")
    /\ var[h].todo = {}
    /\ UNCHANGED <<company, staff, rows, assignees, savedEmployee, call, hire, var, crossed>>

DemoClear(h) ==
    /\ Goto(h, "demo_clear",
            IF var[h].n = Len(DemoOrder) THEN "demo_categories" ELSE "demo_clear")
    /\ Set(h, [n |-> var[h].n + 1])
    /\ rows' = Cleared(Company(h), {DemoOrder[var[h].n]})
    /\ UNCHANGED <<company, staff, assignees, savedEmployee, call, hire, crossed>>

(* The categories are read and saved whole, for the owner alone.           *)
DemoCategories(h) ==
    /\ pc[h] = "demo_categories"
    /\ IF Company(h) \in DOMAIN assignees
       THEN Goto(h, "demo_categories", IF OwnersRead(h) = {} THEN "failed" ELSE "demo_assignees")
       ELSE Goto(h, "demo_categories", "demo_put")
    /\ UNCHANGED <<company, staff, rows, assignees, savedEmployee, call, hire, var, crossed>>

DemoAssignees(h) ==
    /\ Goto(h, "demo_assignees", "demo_put")
    /\ assignees' = Save(assignees, Company(h), OwnersRead(h))
    /\ UNCHANGED <<company, staff, rows, savedEmployee, call, hire, var, crossed>>

(* The administration service stores the row it is sent, if there is one   *)
(* to be replaced.                                                         *)
PutCompany(c, row) ==
    company' = IF c \in DOMAIN company THEN Save(company, c, row) ELSE company

DemoPut(h) ==
    /\ Goto(h, "demo_put", "done")
    /\ PutCompany(Company(h), [var[h].flags[Company(h)] EXCEPT !.demo = FALSE])
    /\ Forget(h)
    /\ UNCHANGED <<staff, rows, assignees, savedEmployee, call, hire, crossed>>

(* The row sent is made anew. *)
VerifyPut_Anew(h) ==
    /\ Goto(h, "verify_put", "done")
    /\ PutCompany(Company(h), [demo |-> TRUE, verified |-> TRUE])
    /\ Forget(h)
    /\ UNCHANGED <<staff, rows, assignees, savedEmployee, call, hire, crossed>>

(* GET company/verify-phone: getVerifyPhone                                *)
VerifyRead(h) ==
    /\ Goto(h, "idle", "verify_put")
    /\ \E c \in DOMAIN company :
         Begin(h, "verify", c) /\ Set(h, [flags |-> c :> company[c]])
    /\ UNCHANGED <<company, staff, rows, assignees, savedEmployee, hire>>

VerifyPut(h) ==
    /\ Goto(h, "verify_put", "done")
    /\ PutCompany(Company(h), [var[h].flags[Company(h)] EXCEPT !.verified = TRUE])
    /\ Forget(h)
    /\ UNCHANGED <<staff, rows, assignees, savedEmployee, call, hire, crossed>>

(* Any await may throw: what was done stays done.                          *)
Abort(h) ==
    /\ Busy(h)
    /\ pc' = [pc EXCEPT ![h] = "failed"]
    /\ hire' = [hire EXCEPT ![h] = "none"]
    /\ Forget(h)
    /\ UNCHANGED <<company, staff, rows, assignees, savedEmployee, call, crossed>>
-----------------------------------------------------------------------------
Start(h) == SignUp(h) \/ Recruit(h) \/ DeleteRead(h) \/ VerifyRead(h)

Hires(h) ==
    /\ pc[h] \in Hiring
    /\ \/ HireLookup(h) \/ HireInsert(h) \/ HireResume(h) \/ HireStatus(h)
       \/ HireSave(h) \/ HireAnswer(h) \/ HireBalance(h) \/ HireCategories(h)

(* The steps of a call once it has begun                                   *)
Step(h) ==
    \/ Hires(h)
    \/ PostCompany(h) \/ Insert(h) \/ postFirstEmployeeDummy(h)
    \/ PostJobRead(h) \/ PostJobSave(h) \/ ReadOwnerRow(h) \/ ReadEveryone(h)
    \/ ContactRead(h) \/ ContactSave(h) \/ PromotionRead(h)
    \/ PromotionReporter(h) \/ PromotionSave(h) \/ SaveCategories(h)
    \/ ClearTable(h) \/ DeleteCompany(h)
    \/ DemoNotifications(h) \/ DemoEmployee(h) \/ DemoEmployeesOver(h)
    \/ DemoClear(h) \/ DemoCategories(h) \/ DemoAssignees(h) \/ DemoPut(h)
    \/ VerifyPut(h)

Next == \E h \in Calls : Start(h) \/ Step(h) \/ Abort(h)

Spec == Init /\ [][Next]_vars
-----------------------------------------------------------------------------
TypeOK ==
    /\ IsTable(company, Calls, CompanyRow)
    /\ IsTable(staff, Emps, StaffRow)
    /\ rows \subseteq [table : Tables, company : Calls, emp : Emps \cup {Nobody},
                      others : SUBSET Emps]
    /\ IsTable(assignees, Calls, SUBSET Emps)
    /\ savedEmployee \in Emps \cup {Nobody}
    /\ pc \in [Calls -> Steps] /\ hire \in [Calls -> HireSteps]
    /\ \A h \in Calls : hire[h] # "none" => pc[h] \in Hiring
    /\ crossed \subseteq {{h, x} : h, x \in Calls}

Began(c, ops)    == {h \in DOMAIN call : call[h].op \in ops /\ call[h].company = c}
Crossed(h, ops)  == \E x \in DOMAIN call \ {h} : {h, x} \in crossed /\ call[x].op \in ops
(* Two calls that hire have been in flight together.                       *)
HiresCrossed ==
    \E p \in crossed : \A h \in p : call[h].op \in {"signUp", "hire"}
CompanyOf(e)     == call[e[1]].company
Apart(c, es)     == \A e \in es \ {Nobody} : CompanyOf(e) = c
Names(r)         == (r.others \cup {r.emp}) \ {Nobody}

(* Whatever a row of a company names is an employee of that company.  Only *)
(* hires that cross mix companies, and then only in the jobs of the staff, *)
(* in leave balances and in the assignees of leave categories.             *)
TenantsApart ==
    /\ \A r \in rows : Apart(r.company, Names(r)) \/ (r.table = "leave_balances" /\ HiresCrossed)
    /\ \/ HiresCrossed
       \/ /\ \A e \in DOMAIN staff : Apart(staff[e].company, staff[e].reportsTo)
          /\ \A c \in DOMAIN assignees : Apart(c, assignees[c])

(* A sign-up that answers has made the whole company: its owner, its       *)
(* sample staff and something in every table; a job went to a stranger's   *)
(* row only when hires crossed.  It answers with the owner it has hired,   *)
(* although postEmployee takes the id from a field another hire may have   *)
(* overwritten: the stranger's id leaves all of the sample staff and the   *)
(* owner to be given one of the twenty-four emergency contacts, and the    *)
(* sign-up fails.  A deletion of the sample staff meanwhile, or later,     *)
(* excuses what it has deleted, or the number it has made up.              *)
SignUpIsWhole ==
    \A h \in DOMAIN call : call[h].op = "signUp" /\ pc[h] = "done" =>
      /\ Got(h, "owner") = <<h, "owner">> \/ Crossed(h, {"demo"})
      /\ Began(h, {"delete", "demo"}) = {} =>
           /\ Tables \ {"staff", "leave_categories"} \subseteq {r.table : r \in {q \in rows : q.company = h}}
           /\ h \in DOMAIN company \cap DOMAIN assignees
           /\ \A s \in Samples :
                /\ <<h, s>> \in DOMAIN staff
                /\ staff[<<h, s>>].reportsTo # {} \/ HiresCrossed

(* What the deletion of a company leaves behind                            *)
Kept == {"email_counts", "features", "access_levels", "payroll", "talent_pool",
         "job", "candidate", "onboarding_task", "onboarding_template"}

(* Of a company that is gone nothing is left but rows of the tables that   *)
(* deleteCompanyById forgets, unless a call that writes for the company    *)
(* crossed the deletion.                                                   *)
GoneLeavesNothing ==
    \A c \in Calls :
      \/ c \in DOMAIN company
      \/ \E h \in Began(c, {"delete"}) : Crossed(h, {"signUp", "hire", "demo"})
      \/ /\ \A r \in rows : r.company = c => r.table \in Kept
         /\ StaffOf(c) = {} /\ c \notin DOMAIN assignees

(* A deletion of the demonstration data and a verification of the phone    *)
(* each save a whole company row: when both are answered both flags have   *)
(* changed, unless the two crossed.                                        *)
FlagsStick ==
    \A h \in DOMAIN call : pc[h] = "done" /\ Company(h) \in DOMAIN company =>
      /\ call[h].op = "demo" => ~company[Company(h)].demo \/ Crossed(h, {"verify"})
      /\ call[h].op = "verify" => company[Company(h)].verified \/ Crossed(h, {"demo"})

(* Once the demonstration data is deleted, and no call crossed that, the   *)
(* rows of the company name nobody who is gone, but for the files that     *)
(* sample staff uploaded with their claims.                                *)
NothingNamesTheDeleted ==
    \A c \in Calls :
      LET demos == Began(c, {"demo"}) IN
      (demos # {} /\ \A h \in demos : pc[h] = "done" /\ ~\E x \in Calls \ {h} : {h, x} \in crossed) =>
        \/ Began(c, {"delete"}) # {}
        \/ /\ \A r \in rows :
                r.company = c /\ r.table # "files" => Names(r) \subseteq DOMAIN staff
           /\ \A e \in StaffOf(c) : staff[e].reportsTo \subseteq DOMAIN staff
           /\ c \in DOMAIN assignees => assignees[c] \subseteq DOMAIN staff

(* Neither deletion leaves anything of what it deletes: no row of a        *)
(* company that is gone, no name of sample staff who are.                  *)
NothingIsLeft == GoneLeavesNothing /\ NothingNamesTheDeleted
=============================================================================
