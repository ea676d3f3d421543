# RomeoHR backend: TLA+ models and proofs

RomeoHR is the NestJS backend of a human-resources product: some 70 services over one Postgres
database reached through TypeORM. The paths below are relative to the repository root.

This directory models the parts of it in which *state that several requests share* decides whether
the program is right: the books of leave accounts and the rows that enrolment opens, projects, time
entries and the copies a timesheet request keeps of them, the stopwatch, the roster, the attendance
clock and its weekly summaries, the life of a company and of its staff, recruitment, documents, and
the tasks people are given and answer. TLC checks each of them on small instances, and TLAPS proves
safety properties of several of them for every instance.

## 1. What makes this system hard

Five facts about the code shape every module.

1. **No handler opens a transaction, and nothing takes a lock.** Every `await` is a point at which
   any other request may run, and at which the handler may stop for good: an exception, a lost
   connection, a restart. What it saved before stays saved. In the modules *each await that reads
   or writes the database is a step*, and `Abort` ends a handler at any of them.
2. **Handlers save whole rows.** A handler reads a row, changes it in memory over several awaits
   and calls `repository.save(row)`. TypeORM writes every column in which the stored row then
   differs, and *inserts* the row if it is gone. A handler so undoes what others saved in between
   and brings deleted rows back. `Rows.tla` states this once (`Save`, `Delete`) and all modules
   use it.
3. **JSON columns hold lists**: the assignees of a category, the tasks of a project, the entries of
   a timesheet request and of an attendance day, the job informations of an employee, everybody's
   answers to a task. A change of one element is a change of the row, so fact 2 applies to lists.
4. **Handlers seldom look at the status they change.** A request can be decided twice, or in an
   order nobody meant.
5. **State hides in odd places**: a field of a service object that all hires share
   (`savedEmployee`), the id that TypeORM's `remove` clears and a later query then uses, the form a
   browser opened minutes before the call that saves it.

The properties therefore have a common form: *what must hold, unless one of these named things
happened*. The named things are recorded by history variables (`blots`, `crossed`, `overlapped`,
...), which no guard reads. A property of this form says two things. Each exception is a known
weakness, and was needed: without it TLC produces a behaviour. And *there is no further one*: no
other interleaving, failure or sequence of legal calls does the damage.

## 2. Inventory

### Modelled

| component | state | operations | who it interacts with |
|---|---|---|---|
| Leave requests and balances (`src/src/leave-management/leave-management.service.ts`) | `hrm_leave_requests`, `hrm_leave_balances` (`total`, `used` as decimal strings), `hrm_leave_history` | file, decide, adjust a balance, delete | categories and staff through tables; notifications and emails |
| Leave categories and enrolment (same file; `postEmployee` in `src/src/employee/service/employee.service.ts`) | `hrm_leave_categories` with `assignees`, balance rows, the field `savedEmployee` of the service object | post, put, delete a category; hire; change an employee's status | opens the accounts of the component above |
| Projects and entries (`src/src/time-tracking/time-tracking.service.ts`) | `hrm_time_projects` with tasks and members, `hrm_time_entries` | post, put, delete a project; add, edit, remove tasks and members; post, put, delete an entry | timesheet requests write old copies of entries back |
| Timesheet requests (same file; `src/src/notifications/service/notifications.service.ts`) | `hrm_timesheet_requests` with a copy of every entry | file, decide, edit and delete an entry through a request or alone, delete a request | projects and entries |
| Stopwatch (`putProjectsTimeEntries`, `addTime`) | `start`, `inProgress`, `startTime`, `duration` of an entry, as strings | start, pause, resume, stop, edit; the saves of whole rows through a timesheet request | the clock, in the zone of the caller; timesheet requests |
| Shifts and shift requests (`src/src/Roster/roster.service.ts`, `src/src/Roster/shiftRequest.service.ts`) | `hrm_roster_shifts`, `hrm_shift_requests` | add, edit, delete a shift; file, approve, reject, apply | emails; the clock reads the shifts |
| Attendance clock (`src/src/attendance/service/attendance.service.ts`) | a row of `hrm_attendance` with its list of time entries, attendance requests | clock in, clock out, decide logged time | roster and settings, as inputs |
| Attendance rows and weekly summaries (same file) | `hrm_attendance`, `hrm_attendance_summary` with copies of the week's entries | open a day, file a week, decide on it, delete rows | the clock changes the rows a summary has copied |
| Company lifecycle (`src/src/company/service/company.service.ts`, `postEmployee`) | the company row, its staff, and what every other table holds in its name | sign up, delete, delete the demonstration data, `PUT` (of the image), verify a phone, hire | hires of all companies share `savedEmployee` |
| Staff (`src/src/employee/service/employee.service.ts`, `src/src/jobInformation/service/jobInformation.service.ts`) | `hrm_employee_details`: owner, status, access level, job informations; the seats at Stripe | change owner, edit, change status, delete, buy seats, hire, post, put and delete a job information | Stripe, as an external counter |
| Recruitment (`src/src/Hiring/service/`, `hireEmployee`) | candidates, jobs, talent pools, offers | apply, edit, delete, post and put a job, a pool and an offer, answer an offer, hire; the listener that writes a summary | employees |
| Documents and files (`src/src/documents/`, `src/src/files/`, `src/src/companyLogo/`) | two generations of folder and file tables; the objects in the bucket | post, put, move and delete of folders and documents, upload | S3, deletions nobody waits for |
| On- and offboarding (`src/src/onBoarding/`, `src/src/offBoarding/`, their settings) | tasks and categories, rows that give a task to an employee | give, change, remove, complete; delete a task or category; an employee leaves | one table that both sides share |
| Task and training responses (`src/src/onboardingTask/`, `src/src/training-new/`) | everybody's answers as one JSON column, the licences of an employee, the documents filed | post, put, delete a task; answer, approve | employees' rows |

What makes each correct, and what can go wrong, is in section 4; the hazards with their lines are
the list `hazards` of `PROJECT.json`.

### Not modelled

| component | state and operations | why |
|---|---|---|
| Information requests, approvals, claims, assets | who is told of a request, `readIds`, decisions that change one employee | the next modules of the plan |
| Surveys, appraisal, letters, announcements, links, holidays, notes, settings, training templates | rows created, read and saved one at a time | the lost update of one row is the only hazard, and `Rows` already has it; a module each would repeat itself |
| S3, email, sockets, portal and Stripe APIs | external services | what they do is not in the repository; in the modules a call to them is a step that may throw and changes no table, but for the seats and the objects |
| Reports, exports, PDF, bank files, email wording, the leave timeline | pure queries and formatting | no state |
| `settingsOnboardingTask`, `training`, `candidates`, `talentPools` | earlier versions | commented out, or not imported by the application |

## 3. The modules and the code

| module | lines of the code | what a variable or an action stands for |
|---|---|---|
| `Rows` | TypeORM `save`, `DELETE` (external) | a table is a function from ids to rows |
| `LeaveLedger` | - | abstract: what an undisturbed account promises of a request: charged once, released once |
| `LeaveRequests` | leave-management.service.ts 172-377 | `Post*`, `Put*`, `Adj*` are the steps of `postLeaveRequest`, `putLeaveRequest`, `putLeaveBalance`; `row[h]` is the local `leaveBalance`; `used` and `total` are kept as the sums they stand for |
| `LeaveCategories` | leave-management.service.ts 51-125, employee.service.ts 953-1139 | `todo[h]` is what a loop has yet to visit; `savedEmployee` is the field all calls share |
| `TimeProjects` | time-tracking.service.ts 136-230, 391-589, 889-962 | `copy[h]` the project or entry, `entries[h]` the entries a handler has read; a client may ask for any project and task there has been (`Known`) |
| `Timesheets` | time-tracking.service.ts 444-470, 547-589; notifications.service.ts 405-439, 623-681 | one step for every save of the loops; `request[r].rows` is the column `timeEntries` |
| `EntryTimer` | time-tracking.service.ts 444-564, 963-979; notifications.service.ts 651-665 | a string `HH:mm:ss` is the triple of its numbers; `Remainder` is JavaScript's `%`; `held` the rows the entry has had |
| `Shifts` | roster.service.ts 493-532, 882-953; shiftRequest.service.ts 26-121, 152-446 | `mine[h]` and `copy[h]` are the locals `request` and `shift`; `Finish` is the second save at line 438 |
| `TimeClock` | attendance.service.ts 242-428, 1239-1269 | `copy[h]` holds the flag and the row as the call will save them; hours and minutes are numbers of `0 .. Day - 1`, a shift or a policy is an input |
| `AttendanceWeeks` | attendance.service.ts 137-428, 506-619, 1239-1297 | an entry is the call that opened it and the one that ended it; a call that brings what a screen showed begins when the screen was opened |
| `Companies` | company.service.ts 368-2836, 6863-7135, 7412-8077; employee.service.ts 912-1134 | a row is its table, its company and whom it names; the inserts of a sign-up are taken by the groups of `InsertThen`, hires and deletions statement by statement |
| `Staff` | employee.service.ts 923-1106, 1592-2692, 2915-2951, 3039-3083, 3778-3831; jobInformation.service.ts; company.service.ts 7310-7353 | `emp[e].jobs` is the column `jobInformation`; a second `findOne` is a second copy |
| `Recruitment` | the five services of `src/src/Hiring/service/`; employee.service.ts 3517-3660 | `cv[h]` is the listener that a call has woken; `call[h].id` the row it is about |
| `Documents` | documents.service.ts, files.service.ts, companyLogo.service.ts | `object` is the bucket, `doomed` the deletions asked for and not awaited |
| `Boarding` | onBoarding, offBoarding and the settings of their tasks and categories | `row` is the one table of both sides |
| `TaskResponses` | onboardingTask.service.ts, training-new/service | `form[f].responses` is the column of everybody's answers |

The exact lines of every definition are in the `map` of `PROJECT.json`. `MC<module>` instantiates a
module for TLC; `<module>Proofs` holds its theorems. Operators named `X_Something` before a section are slips, plausible mistakes in a handler;
they are not part of any specification and serve only to show that a property notices them.

**Composition.** The modules meet in tables, and each meeting is stated:

- `LeaveCategories` implements the environment that `LeaveRequests` allows itself (`OpenBalance`,
  `SaveCategories`, `DeleteCategory`, `ChangeEmployeeStatus`): `IsEnvironmentOfRequests`
  instantiates `LeaveRequests` with no calls of its own and is checked as a `PROPERTY`. What is
  checked and proved in `LeaveRequests` therefore holds beside the real category and hiring
  handlers, and not only beside a guess of them.
- `LeaveRequests` implements `LeaveLedger` (`Phase` is the refinement mapping, `Disturbed` what the
  ledger calls void); this is proved.
- `TimeProjects` and `EntryTimer` let any row an entry once had be saved again (`WriteBack`), which
  covers every save of the loops of `Timesheets` without their control, and let a `PUT` with a
  `notificationId` save the row its client was shown, edited (`PutReadRequest`).
- `TimeClock` takes the roster and the settings as inputs, read once per call: any of `Rosters`
  and any of `Policies`. That covers all that `Shifts` can do between two calls. `AttendanceWeeks`
  keeps of the clock only that a call changes one row.
- `TimeTracking` (`TimeProjects`, `EntryTimer`), `Attendance` (`AttendanceWeeks`, `TimeClock`) and
  `Office` (`TaskResponses`, `Documents`, `Boarding`) run modules side by side of which none reads
  what another writes: a behaviour is one of either, chosen by `side` at the start. That each does
  there what it does alone is proved (`SideBySide` of each). The runs
  `attendance_weeks` and `time_clock` take one side of `Attendance` each; in `office` boarding has no
  rows while another side runs.

**What is abstracted.** Amounts are symbols (who added what, how often), so that losing or doubling
one is visible; wording, lists of recipients and emails are left out; an email or a look-up of a
company is a step that may throw only where something is saved before it. One `save` is one step,
although TypeORM selects before it updates. What a client sends is what a page could show at some
time: the body of a `POST` carries no id of a stored row.

## 4. Runs

All `pass` runs end without error. `CHECK_DEADLOCK FALSE` is set everywhere because the number of
calls is the bound of every instance: when all have been made, nothing is left to do. Where calls,
rows or employees are interchangeable and no formula names one, a run takes them as symmetry sets.
`recruitment` checks liveness and declares no symmetry; it and `staff` let calls be made in one
order instead, which loses nothing as calls are alike.

| run | instance | what it shows |
|---|---|---|
| `leave_requests` | 1 employee, 1 category, 2 balance rows; 2 calls and all disturbances, 3 calls on accounts nobody disturbs | who may make `used`, `total` and the history drift, and that nothing else does; `LeaveLedger` is implemented |
| `leave_categories` | 2 employees, 1 category; 2 calls of any kind, 3 that leave the unit alone | balance rows and lists; the environment of `LeaveRequests` is implemented |
| `time_tracking` | 1 project, 2 tasks, 1 employee, 3 calls; or 3 calls on a stopwatch, 4 instants about midnight, 2 zones | dangling projects and tasks; time worked against duration |
| `attendance_weeks` | 2 days of an employee with a row for each, next to one without; 3 calls, and 4 of which the last meets none | what a decision on a week overwrites; rows and summaries opened twice |
| `time_projects_race` | 1 project, 1 task, 2 calls | *expected violation*: see Findings |
| `timesheets` | 2 entries, 2 values, 3 calls | copies against entries, flags against status, decisions undone |
| `shifts` | 1 shift, 2 employees, 4 calls | open, offered, assigned, decided |
| `time_clock` | 2 days of 24 hours, 2 instants each, 3 rosters, 2 policies, 1 claim, 4 calls | minutes recorded once, work recorded |
| `companies` | 3 calls: two of any kind that cross, or a company signed up before and two that are about it | what an answered sign-up has stored, whom rows name, what a deletion leaves |
| `staff` | 2 employees, 2 job informations, 2 calls of one of three families that share rows, 2 seats, purchases of -1 to 1 | owner, seats, access of supervisors, current jobs |
| `recruitment` | 2 jobs with a candidate, a pool and an offer each, 1 resume, 2 calls of one of five families, or 3 (one of apply, generate and update each) about the summary of one candidate | what edits undo of a hire, an application, an answer; that the summary arrives and stays |
| `office` | 2 calls on 2 folders and documents; 2 calls on 2 employees, a task and a given row; or 3 calls on a task and a training of 2 employees | what goes with a deletion, whose answers are lost, dangling links, tasks and licences |

**Why the bounds are enough.** An exchange that loses an update needs two calls; one in which a
third row is damaged by their meeting (a request filed, then decided by two) needs three; a shift
opened by one call, applied for by a second and given away by a third while a fourth edits it needs
four, and so does a day on which one clocks in and out twice. A handler touches one account,
request, shift or day, so further rows mostly repeat the first ones: two balance rows suffice to
charge the wrong one, two entries to leave a loop half-done, two employees to take each other's
place, two companies to take each other's staff. The instants are the ones the code distinguishes:
for the stopwatch the first and last seconds of a day, an hour, a minute and a second after midnight
and half a minute of the next day (so that every carry and the negative remainder occur), and no
behaviour of it is followed once a cause has made the duration unreliable, as it then stays so; for the
clock a time in the first shift (7), one in or between the evening's shifts (20), and the same on
the next day (31 and 44). The rosters have no shift, a gap at 20, and breaks; the policies are the
one with everything allowed and the strict one. Where a run restricts which calls meet (`companies`,
`staff`, `recruitment`, `office`), the families are those of calls that touch a common table.
A few exceptions of `staff` (`spare`, Non Active) and of `office` (a `put` in `OnlyTheNamedGo`) need
a third call or employee to be seen; they were seen on such instances, which are too large to keep.
What the bounds cannot show, the theorems of section 5 do for the modules they are about. They had
something to show: first forms of `NothingIsUndone` of `Timesheets` and of `EntriesHaveParents` held for
three calls and not for four, which the proofs found. The latter did not name this case: a `PUT` has
read a project, a task of it is removed, a second `PUT` reads the project without it, the first saves and the task is
back, an entry is posted on it, and the second saves. So did `ApplicantsStay` of `Recruitment`, which
held for two calls: with three, a candidate is deleted and brought back by an edit that was under way,
while the form of the job, opened when the candidate was gone, is saved and detaches the applicant.
And `SummaryAgrees` of `AttendanceWeeks` held for three calls: a week is filed and approved, a row of it
is deleted, and a `PUT` of the summary that brings copies and no status opens the row again, not
approved. `attendance_weeks` now has a fourth call, made when the others are done, and so finds it. A first
`SummaryArrives` held for two calls, without a proof: with three, a candidate applies without a resume and
its listener waits, an edit adds one, its summary is asked for and written, and the first listener
clears it. `recruitment` now has a third call for this, and `SummaryStays` is proved.

**Type invariants.** Every module has one, `TypeOK`. It is proved where a module has proofs, and was
checked with the other runs' instances; the configurations list only properties that tell more.

**The properties**, in the words of the code:

- *Leave*. `BooksBalance`: `used` is the sum of the outstanding requests, unless a save was undone
  by a concurrent one, a handler stopped half-way, a request was decided again or deleted, the unit
  was edited, or two balance rows exist. `TotalIsExplained`: the same for `total` and the manual
  adjustments. `HistoryIsThere`: no exception at all, the history comes first. `HistoryAgrees`:
  history against status. `ChargedOnceRefundedOnce`: the refinement of `LeaveLedger`.
- *Categories*. `OneBalanceRow` names the only ways to two rows and to none, `NothingIsUndone` the
  only ways in which two hires, or a hire and an edit, harm each other.
- *Projects and entries*. `EntriesHaveParents`: an entry's project and task are there, but for the
  races of a deletion or removal with a call that saves an entry, those of a change of tasks with another save of
  the project, what a timesheet request writes back, and what is asked for from a page older than the removal:
  the handlers save the project and the task they are sent unchecked (`outdated`). `DurationIsWorked`: the duration is the time worked,
  unless it ran past midnight, was stopped in another zone, was paused while idle or set going while
  running, two calls overlapped, or a timesheet request has saved a row that the entry no longer had.
- *Timesheets*. `CopiesAgree` (copies, entries and flags), `NothingIsUndone` (a decision or a
  deletion).
- *Shifts*. `OpenMeansUnassigned` (only an approved DROP of an open shift breaks it),
  `OpenIsOffered`, `NothingForgotten` (only two calls that update one request at once lose a
  decision or an application), `AnsweredIsDone`.
- *Clock*. `EntriesDisjoint`: no minute is recorded twice. `WorkIsKept`: a clock-out records all
  since the hour of the clock-in, unless another shift of that day was to come, the clock-in was on
  another day, or two calls overlapped.
- *Weeks*. `TimeStays`: recorded time is lost only to a call in flight with the one that recorded
  it, or to the decision on a week that was filed before. `SummaryAgrees`: an approved summary and
  the rows it copied; only what a later or crossing call does to the rows, or one that changes
  copies without deciding, parts them. `OneOfEach`: one row a day, one summary a week.
- *Companies*. `SignUpIsWhole`: what an answered sign-up has stored. `TenantsApart`: only hires that
  cross mix companies. `NothingIsLeft`: what the two deletions leave. `FlagsStick`: two saves of the
  company row.
- *Staff*. `OneOwner` (among the exceptions: a hire whose body says that the new one is an owner),
  `SeatsKept` (a purchase whose body names a negative count), `SupervisorsManage`, `OneCurrentJob`,
  each with the calls that break it.
- *Recruitment*. `PoolsNameCandidates`, `ApplicantsStay`, `HireIsRecorded`, `AcceptanceStands`: which
  crossings undo what another call stored. `SummaryArrives`: a listener comes to its end, and
  what it has written stays (`SummaryStays`) unless an edit or a hire has read the candidate before and saves it
  after; a second listener, handed the candidate when it had no resume, was at work at the time and
  clears it; or an edit has taken the question off the candidate.
- *Office*. `OnlyTheNamedGo` and `LinksWork`: what a deletion takes, and rows against objects.
  `GivenStays` and `GivenTasksAreStored`: rows against tasks. `AnswersStay`: answers change by a call about them.
  `LicencesAgree`: what an approval has entered, a licence and documents, is the employee's, unless a save
  of licences crossed it or a later approval has overwritten the licence; an empty array of answers
  and a `PUT` approve without entering anything; and one answer has one licence.

**Fairness.** One: `WF_vars(Summarise(h))` in `Recruitment`, for the listener of `send.CVSummary`.
Node runs an emitted handler to its end, every await of it settles or throws, and it swallows its
errors; what it assumes of the code outside is that the call for the summary, which sets no
timeout, comes back. Nothing else is fair: whether a handler goes on is up to Node and the
database, whether a call is made is up to the user, and a handler that throws stops half-way for
good. Weak fairness of the handlers would assume away exactly the failures the models are about, so
they have safety properties and no other liveness.

**Findings.** `time_projects_race`: the reply of `deleteProjectsTime`
(time-tracking.service.ts:226) says that a project with entries cannot be deleted. The query for
entries and the `DELETE` are two statements, and an entry saved in between is left without its project.

**Worth knowing**, met while modelling. None contradicts a document, so none is a finding.

- *Companies*. The deletion of the demonstration data deletes everyone but the owner whom it has read,
  people really hired included; the files of the demonstration stay. `deleteCompanyFolder` deletes
  by the company's *name*. The `catch` of the deletion swallows the error, and these tables are
  never cleared: `email_counts`, `features`, `access_levels`, `payroll`, `talent_pool`, `job`,
  `candidate`, `onboarding_task`, `onboarding_template`.
- *Staff*. `postOwnerChange` looks for the access level in `hrm_configs`, where there is none, and
  throws after both saves: the new owner never gets full access. A `PUT` of a job information that
  takes effect restores the one it closed. `postChangeEmployeeStatus` saves nothing without a
  `transferId`. The sort by date compares strings (`NaN`) and does nothing.
  `deleteEducationById` removes the employee. Deleting an employee twice lowers the seats twice.
  A purchase of seats adds the count it is sent, of either sign.
- *Recruitment*. `createCareer` asks for no summary. `deleteJob` leaves deleted candidates in the
  pools. Opening an offer on the career page clears an answer given before.
- *Weeks*. A decision writes copies back in which a running entry is missing. Filing a week again makes
  the summary pending while its rows stay approved. A `PUT` of an approved summary without a status
  opens a deleted row of it again, not approved.
- *Documents*. Deleting a folder that has a subfolder empties the whole table of documents. Deleting
  a folder of the old tables never deletes objects. `putMove` answers after the first document.
- *Boarding and tasks*. Deleting a category empties the table of given tasks for all companies while
  some offboarding task has no category. `updateOnboardingTask` compares the assignees
  after assigning them, so nobody is ever told. Licence and documents are stored before the answer
  is approved, and a licence is pushed again at each approval, but for a question without a
  `complianceId`: its licence takes the place of the first one stored. An approval with `answers: []`
  enters neither licence nor documents.

## 5. Proofs

| module | theorems | assumed of the constants |
|---|---|---|
| `LeaveRequestsProofs` | `Inductive`, `TypeCorrect`, `HistoryLogged` with `RequestsLogged`, `AdjustmentsLogged`; `BooksInductive`, `BooksAlwaysBalance`, `HistoryAlwaysAgrees`, `TotalAlwaysExplained`, `ImplementsLedger` | nothing |
| `TimesheetsProofs` | `TimesheetsInductive`, `TimesheetsTypeCorrect`, `CopiesAlwaysAgree`, `NothingIsEverUndone` | nothing |
| `LeaveCategoriesProofs` | `CategoriesInductive`, `CategoriesTypeCorrect`, `CategoriesOneBalanceRow`, `CategoriesNothingIsUndone`, `CategoriesAreEnvironment` | `Nobody` is no employee; for `CategoriesAreEnvironment`, balances count in days or hours |
| `TimeTrackingProofs` | `ProjectsInductive`, `ProjectsTypeCorrect`, `ProjectsEntriesHaveParents`; `AddTimeAdds`, `TimerInductive`, `TimerTypeCorrect`, `TimerKeepsTime`; `TrackingIsKept` | instants, zones and durations are natural numbers |
| `ShiftsProofs` | `ShiftsInductive`, `ShiftsTypeCorrect`, `ShiftsOpenMeansUnassigned`, `ShiftsNothingForgotten`, `ShiftsOffersInductive`, `ShiftsOpenIsOffered`, `ShiftsAnsweredIsDone` | the id of zeros is no employee's |
| `AttendanceProofs` | `WeeksInductive`, `WeeksTypeCorrect`, `WeeksOneOfEach`, `WeeksTimeStays`, `WeeksSummaryAgrees`; `ClockInductive`, `ClockTypeCorrect`, `ClockEntriesDisjoint`, `ClockWorkIsKept`; `AttendanceIsKept` | the rows there at the start are one of an employee a day, and no call has their ids; the working day, claims and shifts have hours of the day, and the shifts of a day do not overlap |
| `OfficeProofs` | `ResponsesInductive`, `ResponsesTypeCorrect`, `AnswersAlwaysStay`, `LicencesAlwaysAgree`; `BoardingInductive`, `BoardingTypeCorrect`, `WhatIsGivenStays`, `GivenTasksStored`; `DocumentsInductive`, `DocumentsLinksWork`, `DocumentsOnlyTheNamedGo`; `OfficeIsKept` | the id of a new form, document or row is not that of one there from the start |
| `RecruitmentProofs` | `RecruitmentInductive`, `RecruitmentTypeCorrect`, `PoolsAlwaysNameCandidates`, `ApplicantsAlwaysStay`, `HiresAreRecorded`, `AnswersStand`, `SummariesStay` | an id is new: none of `Known` is a call's, and `None` is no id; no resume has an id that stands for its absence |

Each follows `Init => IInv`, `IInv /\ [Next]_vars => IInv'`, `IInv => Inv`, with one lemma per
action or per conjunct of the invariant. What the strengthenings are for:

- **LeaveRequests.** That a stored request has its history row is not inductive: a call about to
  store a request must be known to have logged it. `CallsInv` ties a call to its place in its
  handler, `LogsInv` says which steps come after the log and that history rows are never removed,
  `RowsInv` that a balance copied by a call is of the call's account, and `TotalsInv` repeats the
  property for the totals *inside the copies*, since a save puts a copy into the table.
- **The books of LeaveRequests.** `BooksBalance` compares a sum with what stored requests and calls in
  flight call for, and no step is about one of the two alone. `BooksInv` adds what relates them: a
  request is stored, and decided, only after its charge (`FiledInv`, `DecidedInv`), a copy counts in the unit
  its category had when it was read (`UnitsInv`), and on an undisturbed account a decision is alone on an
  undecided request. The argument then has three parts. Every step but two *keeps the standing* of
  every request (what it has outstanding, what was released of it) on an account that is not
  disturbed; the charge and the refund move `used` by exactly what they move the standing
  (`UsedStep`); a row that is opened is zero, and a request that is outstanding already had a row. The
  refinement of `LeaveLedger` uses the same facts: one request moves at a time, from one phase to the
  next, and whatever else a step does, it disturbs the account or keeps all phases.
- **LeaveCategories.** A second row is opened where a handler misjudges who has one, so the
  invariant says what each call believes. `UndoneInv`: what a PUT or a hire is about to save is the stored table, but for
  the newcomer, unless the call crossed with another. `KnownInv`: before its first save only its POST knows
  a category, and nobody else has opened rows in it. `CoverInv`: an employee an everyone category is for has a row,
  or the call about to save the category has still to open it. `OneInv`: on an undisturbed category its
  holders are listed or about to be, and whom a call will open a row for has none. One lemma per action (`PostReadDoes`, ...)
  says what it does to all of these; the conjuncts then need the moving call only. For the refinement no invariant but types is
  needed: each step is mapped to the statement of `LeaveRequests` it is.
- **Timesheets.** A copy agrees with its entry only while one request and one call have it. `CallsInv`
  puts a call in its place. `RaceInv`: a call on a request that no second call has raced is alone on it
  and finds the request as it has read it. `SoleInv`: an entry that nothing has disturbed has copies
  in one request, or with the one call that files it. `SnapInv`: such an entry is what the request, or the
  call changing it, has for it. `FlagsInv`: its flags are those of the status. Each part has a lemma
  that reduces any step to what the moving call must show of itself (`RaceStays`, `SoleStays`,
  `SnapStays`, `FlagsStay`), so that an action's proof is about that call only.
- **TimeProjects.** An entry loses its task to a copy of its project that lacks it. `TasksInv`: unless
  the addition or removal of a task has crossed with another save of a project, all copies about to be saved
  and the stored row have the same tasks. `ParentsInv` then speaks of every row that is stored or that a call
  is about to store, and that nobody has asked for when its task was gone (`outdated`): its project is there, its task is in the table and in every such copy (so that a
  project brought back has it still), and a call about to delete or to remove has seen the entry or races
  with whoever is to store it.
- **EntryTimer.** `DurationIsWorked` speaks of a stopped watch; `WatchInv` adds what a running one
  owes: its `startTime` is the time of day of the moment it was set going, in the zone it was set
  going in. `Sound` says that the one call in flight will save a change of the row still stored, which of a save
  through a timesheet request is so only if the client's row is the entry's (`Older` names it else).
  The arithmetic is in three lemmas: formatting is undone by parsing, a time of day is a remainder,
  and on one day the difference of two times of day is the time passed.
- **Shifts.** `RowsInv` carries the agreement of `isOpen` and `employeeId` into the copies.
  `LastInv`, for `NothingForgotten`, says that unless a request has been updated by two calls at
  once, the copy its only updater holds is the stored row, with the update in it from the read of
  the shift on; the second save then changes nothing. `OpenIsOffered` and `AnsweredIsDone` need a
  second layer: `Alone` says that a call on a shift that is not raced is the only one there, has the
  shift as stored until it saves it, and has then done what it approved; `Decided` what it has
  settled so far. A step then keeps what holds of every other call (on the same shift they would be
  raced), and `OfferInv` follows action by action: an approval closes or offers the shift it opens, a
  rejection of an offer and an abandoned approval are blamed, and the last save writes back what is
  stored.
- **TimeClock.** That no minute is recorded twice says too little of an entry still open: it must
  also begin after all others ended, and be the only one. `Orderly` says so of a list, together with
  a bound on what has ended: nothing ended later than the clock. `EntriesInv` asks it of the row and
  of every copy about to be saved that no cause has spoilt, and `CallsInv` adds that, while no two
  calls overlapped, the one in flight is as late as the clock. `WorkInv` is `WorkIsKept` said of a
  copy, from the read of the row on. The three ways a clock call changes the row it reads are then
  one lemma each (`ClockInReads`, `RosteredReads`, `FreeReads`), over lemmas on lists of entries
  (closing, appending and removing an entry), and the steps only carry the result to the save.
- **AttendanceWeeks.** Rows are stored by calls that name them long after they have seen them, so the
  invariant says what a *name* promises: an id under which a row was ever stored is there or asked to be
  deleted (`Had`), and the id alone says whose row it is and of which day (`Whose`, `Fits`). `RowsInv` asks
  this of rows, copies, bodies and locals alike; `CallsInv` adds that a call knows who was done
  before it and has crossed whoever else is in flight. `OneOfEach` is then a matter of who opens: `OpenInv`
  says that a call about to open a row or a summary has the id for itself and has crossed, or seen deleted, any
  other of that day (`Apart` is the property by ids). `TimeStays` is carried into every place
  an entry is copied to: `Stays` says, of a row, of a summary's copy, of a row read or a body brought, that the
  entry is in it, or is lost for a reason that lasts (`Lost`), or the reason is that of the week it came too late
  for (`Missed`). `SummaryAgrees` compares a loop's outcome with what the loop stores last: `Obeyed` says that
  a row a decision has been through is as it decided, unless a call not done before it saves that row,
  and `Settled` that an approved summary is that of a decision before whose end all others on it
  had begun. Every step has one of a few effects on a table (`RowEffect`, `SummaryEffect`), so that
  what holds of the calls at rest is shown once (`OthersKeep`, `OthersHold`, ...) and only the moving
  call is taken action by action (`MineNext`, `MineKeeps`, `MineObeys`).
- **Recruitment.** Every exception is a crossing, so `CallsInv` says first that any two calls in flight have
  crossed; a step that could do damage then either belongs to a call that has crossed, or to one that
  nothing interferes with. `StoredInv`: what was never stored is in no table and asked for by no call, so
  that an insert meets nothing. The four properties follow one by one, each with what the *copies* owe:
  whoever is in a list about to be saved as a pool is accounted for as in a stored pool, and a
  deletion alone with the pools still has those that name its candidate to save (`PoolsInv`); a row about
  to be saved, and the list of a form, name the job applied for (`ApplyInv`); a form opened after an
  answer holds that answer (`AcceptInv`); the field `savedEmployee` is one's own or that of a hire one has
  crossed (`EmployeeInv`), so that on an uncrossed hire nobody else writes its employee's jobs (`JobsInv`)
  and every row about to be saved has its activity (`NotedInv`). For the summary, a listener at work counts
  as in flight (`ListenInv`); once a call is told of a resume the candidate has one wherever it is about to be
  saved (`ResumeInv`), so that no listener woken later clears the summary (`ClearInv`), and what is written is
  in every row about to be saved (`WrittenInv`). The steps are not taken one by one: a
  lemma per table says which steps can change it (`CandidateSteps`, `PoolSteps`, ...) and one says how a
  place is entered (`NextEnters`), so that an invariant meets only the steps that matter to it.
- **TaskResponses.** An answer is lost to a save of the whole form by a call that read it before, so
  the invariant compares *every two* places that hold a form. `AnswersInv`: what a call is about to
  save agrees with the stored form, and with what any other call is about to save, on the answers of
  each employee, but for the calls about that employee and for employees one of whose calls has
  crossed a save. (Agreement with the stored form alone is not inductive: the save of one call
  changes the stored form under the other.) `LicencesInv` says the same of the licences of an
  employee, as sets: what is in one place and not in another is excused by a crossing, an edit that
  takes licences out or an approval that has overwritten it (`Excused`); and a licence is that of an approval that has come so far.
  `LicensedInv` is the first half of `LicencesAgree` asked of the copies too, where the approval that
  holds the copy may still owe what it is about to store (`Covered`). For the second half `SettledInv` says
  that an approval that is done, and that nothing crossed or revoked, is in every place its form is
  in; so a second approval of the answer finds it approved and stores no licence, and `DoubledInv` that one
  which did go on has its excuse from the step at which it began.
- **Boarding.** A row may go long after it was chosen, so `RemovalInv` says of every row that a call is
  about to remove that it still is what the call was asked for, or that a PUT has crossed the call.
  `HoldingInv` says what a call has read for the step it is at, and `HadInv` that every row stored, about
  to be removed or about to be written was stored before, and is none that an assignment has yet to
  store: so only a PUT changes a row that another call has chosen. `GivenTasksAreStored` speaks of rows
  that are there, but a row that names a lost task may be *written* at any later time, so the
  invariant is about tasks: each that was ever there and is gone has a call that answers for it (`StoredInv`).
  That call (`Cleans`) has crossed every assignment with the task still to store, and once it has looked
  for the rows, each row that names the task is among those it removes or has its own excuse (`Left`): it
  was written by a call that has yet to look for the task or did so in vain, an assignment crossed the
  removal, or it was to be left where it is completed.

- **Documents.** A row goes, and its object after it, long after the call has found the row. `HadInv` says that
  only ids once stored are stored or asked for, so that an upload meets nothing; `HoldingInv` what a
  call has read for the step it is at; `FolderInv` that the documents a call is about to remove with a folder are
  still in it, unless a call that moves documents crossed it. `LinksInv` turns `LinksWork` around: it speaks of
  *objects* that are gone or doomed, for each of which there is a call that deleted the row; and what could bring
  the row back, a save of a copy read before, has crossed that call (`Gone`).

These invariants are defined beside the specifications they belong to, so that TLC can check a
conjunct when a model changes; each was checked that way before it was proved.

**Model-checked only.** `Companies`, `Staff`. **Out of the prover's reach**: that a listener comes to its
end (the rest of `SummaryArrives`, beside `SummaryStays`), as liveness under fairness; `ENABLED` and induction over data,
which nothing here needs; recursive operators, of which there are none.

## 6. Plan

Done: the modules of section 3 with their runs, and the proofs of section 5.

Next, in this order:

1. `Approvals`: who is told of a request (leave, timesheet, claim, asset, information), who may read
   and decide it, and what a change of access level does to those lists.
2. `Profiles`: information requests whose approval edits an employee, and the log of edits.
3. Proofs: `OneOwner` of `Staff`.
