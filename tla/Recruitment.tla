---------------------------- MODULE Recruitment ----------------------------
(***************************************************************************)
(* The hiring services: candidates who apply through HR or the career site *)
(* (createCandidate, createCareer), are edited, summarised and deleted;    *)
(* the jobs they apply for; the talent pools that list them; the offers    *)
(* they are sent; and EmployeeService.hireEmployee, which makes one of     *)
(* them an employee.                                                       *)
(*                                                                         *)
(* createCandidate emits 'send.CVSummary' and answers; the listener looks  *)
(* for the resume, asks a service for a summary and writes it into the row *)
(* whenever that comes back: it is a process of its own, cv[h].  A PUT of  *)
(* a job, a pool or an offer brings what the form held that the user has   *)
(* opened before, so that its call begins when the form is opened.         *)
(*                                                                         *)
(* The id of a row is the call that stored it; Known are those there from  *)
(* the start: a job each, with a candidate, in a pool and with an offer.   *)
(* The foreign key of candidate.jobId is as the entity declares it: a row  *)
(* cannot name a job that is gone, and goes with its job.                  *)
(***************************************************************************)
EXTENDS Naturals, Sequences, SequencesExt, Rows

None == "none"

(* What the questions of a candidate hold, besides the id of a resume: a   *)
(* Resume question without an answer, or, None, no such question.  Kept is *)
(* a body that leaves the questions as they are.                           *)
Blank == "blank"
Kept  == "kept"

CONSTANTS
    Calls,      \* HTTP calls; bounds how many are ever made
    Known,      \* ids of the rows there from the start
    Resumes     \* ids of uploaded resumes

(* The ids are uuids.                                                      *)
ASSUME IdsAssumption ==
    /\ Known \cap Calls = {} /\ None \notin Known \cup Calls
    /\ Resumes \cap {None, Blank, Kept} = {}

Ids == Known \cup Calls

VARIABLES
    job,            \* ids stored in job
    candidate,      \* the table candidate
    pool,           \* talent_pool: the candidates column
    offer,          \* offer_letters: whose, and the accept column
    staff,          \* hrm_employee_details: the jobs of a row, by their calls
    savedEmployee,  \* the field of EmployeeService that all its calls share
    pc, call,
    held,           \* held[h]: the rows call h has read, under their ids
    emp,            \* emp[h]: what postEmployee has returned to it
    given,          \* given[h]: the resume in the entity its listener is handed
    cv,             \* cv[h]: where the listener for the event of h is
    crossed,        \* history: pairs of calls that were in flight together
    cascaded        \* history: candidates deleted with their job

tables == <<job, candidate, pool, offer, staff, savedEmployee>>
history == <<crossed, cascaded>>
locals == <<held, emp, given>>
vars   == <<tables, pc, call, locals, cv, history>>

Questions    == Resumes \cup {Blank, None}
Statuses     == {"new", "interview"}
Answers      == {"accepted", "declined", None}
Activity     == [type: {"STATUS", "RATE", "HIRED"}, status: Statuses \cup {""},
                 emp: Calls \cup {None}]
CandidateRow == [job: Ids \cup {None}, status: Statuses, activities: Seq(Activity),
                 resume: Questions, summary: Resumes \cup {None}]
OfferRow     == [cand: Ids, accept: Answers]

NewCandidate(j, r) == [job |-> j, status |-> "new", activities |-> <<>>,
                       resume |-> r, summary |-> None]

Posting == {"post_lookup", "post_save", "post_emit", "post_mail"}
Hiring  == {"hire_insert", "hire_resume", "hire_answer", "hire_read", "hire_save",
            "job_info", "job_info_save"}
Steps   == Posting \cup Hiring \cup
           {"idle", "put_read", "put_save", "delete_read", "delete_pools", "delete",
            "summary", "job_post", "job_read", "job_save", "pool_post", "pool_read", "pool_save",
            "merge_read", "merge_into", "merge_save", "pool_delete", "offer_post",
            "offer_read", "offer_save", "done", "failed"}
Listening == {"link", "ask", "write"}
CvSteps   == Listening \cup {"none", "over", "failed"}

Busy(x) == pc[x] \notin {"idle", "done", "failed"} \/ cv[x] \in Listening
Goto(h, from, to) == pc[h] = from /\ pc' = [pc EXCEPT ![h] = to]
Hold(h, rows) == held' = [held EXCEPT ![h] = rows] /\ UNCHANGED <<emp, given>>
Forget(h)  == Hold(h, NoRows)
Own(h)     == UNCHANGED <<tables, call, cv, history>>

(* A call says what it asks for, which row by its id, and what its body    *)
(* holds.                                                                  *)
Begin(h, asked) ==
    /\ call' = Save(call, h, asked)
    /\ crossed' = crossed \cup {{h, x} : x \in {y \in Calls : Busy(y)}}
    /\ UNCHANGED <<tables, locals, cv, cascaded>>

Init ==
    /\ job = Known
    /\ candidate \in [Known -> {NewCandidate(j, r) : j \in Known, r \in Resumes}]
    /\ \A k \in Known : candidate[k].job = k
    /\ pool = [k \in Known |-> {k}]
    /\ offer = [k \in Known |-> [cand |-> k, accept |-> None]]
    /\ staff = NoRows /\ savedEmployee = None
    /\ pc = [h \in Calls |-> "idle"]
    /\ call = NoRows
    /\ held = [h \in Calls |-> NoRows]
    /\ emp = [h \in Calls |-> None] /\ given = [h \in Calls |-> None]
    /\ cv = [h \in Calls |-> "none"]
    /\ crossed = {} /\ cascaded = {}

(* Saving a candidate fails on the foreign key if the job is gone.         *)
SaveCandidate(h, id, row, from, to) ==
    IF row.job \in job \cup {None}
    THEN Goto(h, from, to) /\ candidate' = Save(candidate, id, row)
    ELSE Goto(h, from, "failed") /\ UNCHANGED candidate

(* A row is looked for by its id; the call fails if it is gone.            *)
Read(h, from, id, table, to, rows) ==
    /\ pc[h] = from
    /\ IF id \in DOMAIN table
       THEN Goto(h, from, to) /\ Hold(h, rows)
       ELSE Goto(h, from, "failed") /\ UNCHANGED locals
    /\ Own(h)
-----------------------------------------------------------------------------
(* POST hiring/candidates: createCandidate, and POST hiring/site/jobs:     *)
(* createCareer, which emits nothing.  Without a job the former looks none *)
(* up, while the latter's query finds any.                                 *)
Post(h) ==
    \E op \in {"apply", "career"}, j \in job \cup {None}, r \in Questions :
        /\ Begin(h, [op |-> op, id |-> h, job |-> j, resume |-> r])
        /\ Goto(h, "idle", IF op = "apply" /\ j = None THEN "post_save" ELSE "post_lookup")

PostLookup(h) ==
    /\ pc[h] = "post_lookup"
    /\ LET j == call[h].job IN
       Goto(h, "post_lookup",
            IF j \in job \/ (j = None /\ job # {}) THEN "post_save" ELSE "failed")
    /\ UNCHANGED locals /\ Own(h)

PostSave(h) ==
    /\ pc[h] = "post_save"
    /\ SaveCandidate(h, h, NewCandidate(call[h].job, call[h].resume), "post_save",
                     IF call[h].op = "apply" THEN "post_emit" ELSE "done")
    /\ UNCHANGED <<job, pool, offer, staff, savedEmployee, call, locals, cv, history>>

(* The listener is handed the saved entity.                                *)
PostEmit(h) ==
    /\ Goto(h, "post_emit", "post_mail")
    /\ given' = [given EXCEPT ![h] = call[h].resume]
    /\ cv' = [cv EXCEPT ![h] = "link"]
    /\ UNCHANGED <<tables, call, held, emp, history>>

(* The queries and look-ups for emails and interviews, which may throw.    *)
PostMail(h) ==
    /\ Goto(h, "post_mail", "done")
    /\ UNCHANGED locals /\ Own(h)
-----------------------------------------------------------------------------
(* The listener of 'send.CVSummary', for the candidate of call h.  It      *)
(* updates two columns, of a row that may be gone, and swallows errors.  A *)
(* candidate without the question has the summary cleared, one who has not *)
(* answered it keeps what there is.                                        *)
Write(h, summary) ==
    LET c == call[h].id IN
    candidate' = IF c \in DOMAIN candidate
                 THEN Save(candidate, c, [candidate[c] EXCEPT !.summary = summary])
                 ELSE candidate

Listen(h, from, to) ==
    /\ cv[h] = from
    /\ cv' = [cv EXCEPT ![h] = to]
    /\ UNCHANGED <<job, pool, offer, staff, savedEmployee, pc, call, locals, history>>

CVLink(h) ==
    \/ given[h] \in Resumes /\ Listen(h, "link", "ask") /\ UNCHANGED candidate
    \/ given[h] = Blank /\ Listen(h, "link", "over") /\ UNCHANGED candidate
    \/ given[h] = None /\ Listen(h, "link", "over") /\ Write(h, None)

(* The reply is thrown away. *)
CVAsk_Forgets(h) == Listen(h, "ask", "over") /\ UNCHANGED candidate

CVAsk(h) == Listen(h, "ask", "write") /\ UNCHANGED candidate
CVWrite(h) == cv[h] = "write" /\ Write(h, given[h]) /\ Listen(h, "write", "over")

(* The file is not found, or an await throws.                              *)
CVFails(h) ==
    /\ cv[h] \in Listening
    /\ Listen(h, cv[h], "failed") /\ UNCHANGED candidate

(* POST hiring/candidate/generate-summary: generateSummary, which runs the *)
(* listener on the candidate it has read and waits for it.                 *)
GenerateSummary(h) ==
    \E c \in Ids : Begin(h, [op |-> "generate", id |-> c]) /\ Goto(h, "idle", "summary")

SummaryRead(h) ==
    /\ pc[h] = "summary" /\ cv[h] = "none"
    /\ IF call[h].id \in DOMAIN candidate
       THEN /\ UNCHANGED pc
            /\ given' = [given EXCEPT ![h] = candidate[call[h].id].resume]
            /\ cv' = [cv EXCEPT ![h] = "link"]
       ELSE Goto(h, "summary", "failed") /\ UNCHANGED <<given, cv>>
    /\ UNCHANGED <<tables, call, held, emp, history>>

SummaryDone(h) ==
    /\ cv[h] \in {"over", "failed"}
    /\ Goto(h, "summary", "done")
    /\ UNCHANGED locals /\ Own(h)
-----------------------------------------------------------------------------
(* PUT hiring/candidatess: updateCandidate.  What the body leaves out      *)
(* stays as read, and the row is saved whole.                              *)
Update(h) ==
    \E c \in DOMAIN candidate, s \in Statuses \cup {None}, rated \in BOOLEAN,
       j \in job \cup {None}, r \in Questions \cup {Kept} :
        /\ Begin(h, [op |-> "update", id |-> c, status |-> s, rated |-> rated, job |-> j,
                     resume |-> r])
        /\ Goto(h, "idle", "put_read")

Or(new, old)      == IF new = None THEN old ELSE new
Replies(new, old) == IF new = Kept THEN old ELSE new

(* The status of the last activity counts, which is empty unless that set  *)
(* one.                                                                    *)
LastStatus(row) ==
    IF row.activities = <<>> THEN row.status ELSE Last(row.activities).status

Act(type, status, e) == [type |-> type, status |-> status, emp |-> e]

Updated(row, b) ==
    LET rating == IF b.rated THEN <<Act("RATE", "", None)>> ELSE <<>>
        rated  == [row EXCEPT !.activities = @ \o rating]
        moving == IF b.status \notin {None, LastStatus(row)}
                  THEN <<Act("STATUS", b.status, None)>> ELSE <<>>
    IN [rated EXCEPT !.activities = @ \o moving, !.status = Or(b.status, @),
                     !.job = Or(b.job, @),
                     !.resume = Replies(b.resume, @)]

PutRead(h) ==
    LET c == call[h].id IN
    Read(h, "put_read", c, candidate, "put_save", One(c, Updated(candidate[c], call[h])))

PutSave(h) ==
    /\ pc[h] = "put_save"
    /\ SaveCandidate(h, call[h].id, held[h][call[h].id], "put_save", "done")
    /\ Forget(h)
    /\ UNCHANGED <<job, pool, offer, staff, savedEmployee, call, cv, history>>
-----------------------------------------------------------------------------
(* DELETE hiring/candidatess: deleteCandidate, with                        *)
(* removeCandidateFromAllPools, which saves every pool as it was read.     *)
DeleteCandidate(h) ==
    \E c \in DOMAIN candidate : Begin(h, [op |-> "delete", id |-> c]) /\ Goto(h, "idle", "delete_read")

DeleteRead(h) ==
    LET c == call[h].id IN
    Read(h, "delete_read", c, candidate, IF pool = NoRows THEN "delete" ELSE "delete_pools",
         [p \in DOMAIN pool |-> pool[p] \ {c}])

(* Only the first pool is served. *)
DeletePools_One(h) ==
    /\ Goto(h, "delete_pools", "delete")
    /\ LET p == CHOOSE p \in DOMAIN held[h] : TRUE IN pool' = Save(pool, p, held[h][p])
    /\ Forget(h)
    /\ UNCHANGED <<job, candidate, offer, staff, savedEmployee, call, cv, history>>

DeletePools(h) ==
    /\ pc[h] = "delete_pools"
    /\ \E p \in DOMAIN held[h] :
         /\ pool' = Save(pool, p, held[h][p])
         /\ Hold(h, Delete(held[h], p))
         /\ Goto(h, "delete_pools", IF DOMAIN held[h] = {p} THEN "delete" ELSE "delete_pools")
    /\ UNCHANGED <<job, candidate, offer, staff, savedEmployee, call, cv, history>>

DeleteRow(h) ==
    /\ Goto(h, "delete", "done")
    /\ candidate' = Delete(candidate, call[h].id)
    /\ UNCHANGED <<job, pool, offer, staff, savedEmployee, call, locals, cv, history>>
-----------------------------------------------------------------------------
(* POST, PUT and DELETE hiring/jobs.  The list of candidates in a PUT is   *)
(* the one the form was opened with; saving the job with it detaches those *)
(* not listed.                                                             *)
CreateJob(h) == Begin(h, [op |-> "job_post", id |-> h]) /\ Goto(h, "idle", "job_post")

JobPost(h) ==
    /\ Goto(h, "job_post", "done")
    /\ job' = job \cup {h}
    /\ UNCHANGED <<candidate, pool, offer, staff, savedEmployee, call, locals, cv, history>>

AppliedFor(j) == {c \in DOMAIN candidate : candidate[c].job = j}

UpdateJob(h) ==
    \E j \in job, listed \in BOOLEAN :
        /\ Begin(h, [op |-> "job_put", id |-> j, listed |-> listed, list |-> AppliedFor(j)])
        /\ Goto(h, "idle", "job_read")

JobRead(h) ==
    /\ pc[h] = "job_read"
    /\ Goto(h, "job_read", IF call[h].id \in job THEN "job_save" ELSE "failed")
    /\ UNCHANGED locals /\ Own(h)

(* The relation is saved for every job. *)
Listed_Clears(j, list) ==
    [c \in DOMAIN candidate |-> [candidate[c] EXCEPT !.job = IF c \in list THEN j ELSE None]]

Listed(j, list) ==
    [c \in DOMAIN candidate |->
        [candidate[c] EXCEPT !.job = IF c \in list THEN j ELSE IF @ = j THEN None ELSE @]]

JobSave(h) ==
    /\ Goto(h, "job_save", "done")
    /\ job' = job \cup {call[h].id}
    /\ candidate' = IF call[h].listed THEN Listed(call[h].id, call[h].list) ELSE candidate
    /\ UNCHANGED <<pool, offer, staff, savedEmployee, call, locals, cv, history>>

(* One statement; the candidates go with the job.                          *)
DeleteJob(j) ==
    /\ j \in job
    /\ job' = job \ {j}
    /\ candidate' = [c \in DOMAIN candidate \ AppliedFor(j) |-> candidate[c]]
    /\ cascaded' = cascaded \cup AppliedFor(j)
    /\ UNCHANGED <<pool, offer, staff, savedEmployee, pc, call, locals, cv, crossed>>
-----------------------------------------------------------------------------
(* POST, PUT and DELETE hiring/talent-pools                                *)
CreateTalentPool(h) ==
    \E list \in SUBSET DOMAIN candidate :
        Begin(h, [op |-> "pool_post", id |-> h, list |-> list]) /\ Goto(h, "idle", "pool_post")

PoolPost(h) ==
    /\ Goto(h, "pool_post", "done")
    /\ pool' = Save(pool, h, call[h].list)
    /\ UNCHANGED <<job, candidate, offer, staff, savedEmployee, call, locals, cv, history>>

UpdateTalentPools(h) ==
    \E p \in DOMAIN pool, listed \in BOOLEAN, list \in SUBSET DOMAIN candidate :
        /\ listed \/ list = {}
        /\ Begin(h, [op |-> "pool_put", id |-> p, listed |-> listed, list |-> list])
        /\ Goto(h, "idle", "pool_read")

PoolRead(h) ==
    LET p == call[h].id IN
    Read(h, "pool_read", p, pool, "pool_save",
         One(p, IF call[h].listed THEN call[h].list ELSE pool[p]))

PoolSave(h) ==
    /\ Goto(h, "pool_save", "done")
    /\ pool' = SaveAll(pool, held[h])
    /\ Forget(h)
    /\ UNCHANGED <<job, candidate, offer, staff, savedEmployee, call, cv, history>>

(* With a pool to move to, that one is read and saved with both lists.     *)
DeleteTalentPool(h) ==
    \E p \in DOMAIN pool, to \in DOMAIN pool \cup {None} :
        Begin(h, [op |-> "pool_delete", id |-> p, to |-> to]) /\ Goto(h, "idle", "merge_read")

MergeRead(h) ==
    LET p == call[h].id IN
    Read(h, "merge_read", p, pool, IF call[h].to = None THEN "pool_delete" ELSE "merge_into",
         One(p, pool[p]))

MergeInto(h) ==
    LET to == call[h].to IN
    Read(h, "merge_into", to, pool, "merge_save",
         One(to, pool[to] \cup held[h][call[h].id]))

MergeSave(h) ==
    /\ Goto(h, "merge_save", "pool_delete")
    /\ pool' = SaveAll(pool, held[h])
    /\ Forget(h)
    /\ UNCHANGED <<job, candidate, offer, staff, savedEmployee, call, cv, history>>

PoolDelete(h) ==
    /\ Goto(h, "pool_delete", "done")
    /\ pool' = Delete(pool, call[h].id)
    /\ Forget(h)
    /\ UNCHANGED <<job, candidate, offer, staff, savedEmployee, call, cv, history>>
-----------------------------------------------------------------------------
(* POST, PUT and DELETE hiring/candidate/offer-letter; PUT                 *)
(* hiring/site/offer-letter, by which the candidate answers                *)
PostOfferLetters(h) ==
    \E c \in DOMAIN candidate : Begin(h, [op |-> "offer_post", id |-> c]) /\ Goto(h, "idle", "offer_post")

OfferPost(h) ==
    /\ Goto(h, "offer_post", "done")
    /\ offer' = Save(offer, h, [cand |-> call[h].id, accept |-> None])
    /\ UNCHANGED <<job, candidate, pool, staff, savedEmployee, call, locals, cv, history>>

(* HR's form holds the answer there was when it was opened.  The candidate *)
(* answers, or only reports to have seen the letter.                       *)
UpdateOffer(h) ==
    \E o \in DOMAIN offer :
        /\ \/ Begin(h, [op |-> "offer_put", id |-> o, accept |-> offer[o].accept])
           \/ \E a \in Answers : Begin(h, [op |-> "answer", id |-> o, accept |-> a])
        /\ Goto(h, "idle", "offer_read")

(* An edit by HR sends the letter out afresh. *)
OfferRead_Anew(h) ==
    LET o == call[h].id IN
    Read(h, "offer_read", o, offer, "offer_save",
         One(o, [offer[o] EXCEPT !.accept = IF call[h].op = "answer" THEN call[h].accept
                                            ELSE None]))

OfferRead(h) ==
    LET o == call[h].id IN
    Read(h, "offer_read", o, offer, "offer_save",
         One(o, [offer[o] EXCEPT !.accept = call[h].accept]))

OfferSave(h) ==
    /\ Goto(h, "offer_save", "done")
    /\ offer' = SaveAll(offer, held[h])
    /\ Forget(h)
    /\ UNCHANGED <<job, candidate, pool, staff, savedEmployee, call, cv, history>>

DeleteOffer(o) ==
    /\ o \in DOMAIN offer
    /\ offer' = Delete(offer, o)
    /\ UNCHANGED <<job, candidate, pool, staff, savedEmployee, pc, call, locals, cv, history>>
-----------------------------------------------------------------------------
(* POST hire: EmployeeService.hireEmployee.  Of postEmployee the insert,   *)
(* the shared field and what it returns.                                   *)
HireEmployee(h) ==
    \E c \in DOMAIN candidate : Begin(h, [op |-> "hire", id |-> c]) /\ Goto(h, "idle", "hire_insert")

HireInsert(h) ==
    /\ Goto(h, "hire_insert", "hire_resume")
    /\ staff' = Save(staff, h, {})
    /\ UNCHANGED <<job, candidate, pool, offer, savedEmployee, call, locals, cv, history>>

HireResume(h) ==
    /\ Goto(h, "hire_resume", "hire_answer")
    /\ savedEmployee' = h
    /\ UNCHANGED <<job, candidate, pool, offer, staff, call, locals, cv, history>>

HireAnswer(h) ==
    /\ Goto(h, "hire_answer", "hire_read")
    /\ emp' = [emp EXCEPT ![h] = savedEmployee]
    /\ UNCHANGED <<held, given>> /\ Own(h)

(* The activity is pushed to the copy of the list, which is not saved. *)
HireRead_Copy(h) ==
    LET c == call[h].id IN
    Read(h, "hire_read", c, candidate, "hire_save", One(c, candidate[c]))

Hired(row, e) == [row EXCEPT !.activities = Append(@, Act("HIRED", "", e))]

HireRead(h) ==
    LET c == call[h].id IN
    Read(h, "hire_read", c, candidate, "hire_save",
         One(c, Hired(candidate[c], emp[h])))

HireSave(h) ==
    /\ pc[h] = "hire_save"
    /\ SaveCandidate(h, call[h].id, held[h][call[h].id], "hire_save", "job_info")
    /\ Forget(h)
    /\ UNCHANGED <<job, pool, offer, staff, savedEmployee, call, cv, history>>

(* postJobInformation                                                      *)
JobInfo(h) ==
    /\ Goto(h, "job_info", "job_info_save")
    /\ Hold(h, One(emp[h], staff[emp[h]] \cup {h}))
    /\ Own(h)

JobInfoSave(h) ==
    /\ Goto(h, "job_info_save", "done")
    /\ staff' = SaveAll(staff, held[h])
    /\ Forget(h)
    /\ UNCHANGED <<job, candidate, pool, offer, savedEmployee, call, cv, history>>

(* Any await may throw: what was done stays done.                          *)
Abort(h) ==
    /\ pc[h] \notin {"idle", "done", "failed"}
    /\ pc' = [pc EXCEPT ![h] = "failed"]
    /\ Forget(h) /\ Own(h)
-----------------------------------------------------------------------------
Start(h) ==
    /\ pc[h] = "idle"
    /\ \/ Post(h) \/ GenerateSummary(h) \/ Update(h) \/ DeleteCandidate(h)
       \/ CreateJob(h) \/ UpdateJob(h) \/ CreateTalentPool(h) \/ UpdateTalentPools(h)
       \/ DeleteTalentPool(h) \/ PostOfferLetters(h) \/ UpdateOffer(h) \/ HireEmployee(h)

(* The steps of a call once it has begun                                   *)
Step(h) ==
    \/ PostLookup(h) \/ PostSave(h) \/ PostEmit(h) \/ PostMail(h)
    \/ SummaryRead(h) \/ SummaryDone(h) \/ PutRead(h) \/ PutSave(h)
    \/ DeleteRead(h) \/ DeletePools(h) \/ DeleteRow(h)
    \/ JobPost(h) \/ JobRead(h) \/ JobSave(h)
    \/ PoolPost(h) \/ PoolRead(h) \/ PoolSave(h)
    \/ MergeRead(h) \/ MergeInto(h) \/ MergeSave(h) \/ PoolDelete(h)
    \/ OfferPost(h) \/ OfferRead(h) \/ OfferSave(h)
    \/ HireInsert(h) \/ HireResume(h) \/ HireAnswer(h) \/ HireRead(h) \/ HireSave(h)
    \/ JobInfo(h) \/ JobInfoSave(h)

Summarise(h) == CVLink(h) \/ CVAsk(h) \/ CVWrite(h) \/ CVFails(h)

Next ==
    \/ \E h \in Calls : Start(h) \/ Step(h) \/ Abort(h) \/ Summarise(h)
    \/ \E k \in Ids : DeleteJob(k) \/ DeleteOffer(k)

(* Every await settles sooner or later, and Node then goes on with what    *)
(* waited for it: a listener that has begun comes to an end.               *)
Fairness == \A h \in Calls : WF_vars(Summarise(h))

Spec == Init /\ [][Next]_vars /\ Fairness
-----------------------------------------------------------------------------
Asked == [op: {"apply", "career"}, id: Calls, job: Ids \cup {None},
          resume: Questions]
    \cup [op: {"generate", "delete", "job_post", "offer_post", "hire"}, id: Ids]
    \cup [op: {"update"}, id: Ids, status: Statuses \cup {None}, rated: BOOLEAN,
          job: Ids \cup {None}, resume: Questions \cup {Kept}]
    \cup [op: {"job_put", "pool_put"}, id: Ids, listed: BOOLEAN, list: SUBSET Ids]
    \cup [op: {"pool_post"}, id: Calls, list: SUBSET Ids]
    \cup [op: {"pool_delete"}, id: Ids, to: Ids \cup {None}]
    \cup [op: {"offer_put", "answer"}, id: Ids, accept: Answers]

TypeOK ==
    /\ job \subseteq Ids /\ IsTable(candidate, Ids, CandidateRow)
    /\ IsTable(pool, Ids, SUBSET Ids) /\ IsTable(offer, Ids, OfferRow)
    /\ IsTable(staff, Calls, SUBSET Calls) /\ savedEmployee \in Calls \cup {None}
    /\ pc \in [Calls -> Steps] /\ IsTable(call, Calls, Asked)
    /\ held = [h \in Calls |-> held[h]]
    /\ emp \in [Calls -> Calls \cup {None}] /\ given \in [Calls -> Questions]
    /\ cv \in [Calls -> CvSteps]
    /\ \A h \in Calls : cv[h] \in {"ask", "write"} => given[h] \in Resumes
    /\ crossed \subseteq {{h, x} : h, x \in Calls} /\ cascaded \subseteq Ids

Op(h)           == call[h].op
Answered(ops)   == {h \in DOMAIN call : Op(h) \in ops /\ pc[h] = "done"}
Crossed(h, ops) == \E x \in DOMAIN call \ {h} : {h, x} \in crossed /\ Op(x) \in ops
About(ops, id)  == {h \in DOMAIN call : Op(h) \in ops /\ call[h].id = id}

(* A talent pool names no candidate who is gone, unless the candidate went *)
(* with a deleted job, which no pool is told of, or the deletion crossed   *)
(* another, or a call that saves a pool it had read or was given before.   *)
PoolsNameCandidates ==
    \A p \in DOMAIN pool : \A c \in pool[p] :
      \/ c \in DOMAIN candidate \cup cascaded
      \/ \E d \in About({"delete"}, c) :
           Crossed(d, {"delete", "pool_post", "pool_put", "pool_delete"})

(* The job a candidate has applied for, and what may move one aside.       *)
AppliedTo(c) == IF c \in Known THEN c ELSE call[c].job

Moved(c) ==
    \/ \E u \in About({"update"}, c) : call[u].job # None
    \/ c \in Calls /\ Crossed(c, {"job_put"})
    \/ /\ c \in cascaded \/ About({"delete"}, c) # {}
       /\ \E x \in About({"update", "hire"}, c) : Crossed(x, {"job_put"})

(* Applicants stay with the job they applied for until an edit moves them. *)
(* Saving a job with the list its form was opened with detaches whom the   *)
(* list lacks: only who applied while the form was open, or who was gone   *)
(* by then and is brought back by an edit or a hire that crossed it.       *)
ApplicantsStay ==
    \A c \in DOMAIN candidate : candidate[c].job = AppliedTo(c) \/ Moved(c)

(* A hire that is answered has given its own employee a job, and named     *)
(* that employee in the activities of the candidate; that stays so.  The   *)
(* field that hires share, and rows saved as they were read, make two      *)
(* exceptions: another hire, and an edit of the candidate, that crossed.   *)
HireIsRecorded ==
    \A h \in Answered({"hire"}) :
      \/ Crossed(h, {"hire"})
      \/ /\ staff[h] = {h}
         /\ \/ call[h].id \notin DOMAIN candidate
            \/ Act("HIRED", "", h) \in ToSet(candidate[call[h].id].activities)
            \/ Crossed(h, {"update"})

(* What a candidate answers to an offer stands until the candidate         *)
(* answers, or as much as opens the letter, again: an edit by HR does not  *)
(* undo it unless its form was open at the time.                           *)
AcceptanceStands ==
    \A a \in Answered({"answer"}) :
      LET o == call[a].id IN
      \/ o \notin DOMAIN offer \/ offer[o].accept = call[a].accept
      \/ About({"answer"}, o) # {a}
      \/ Crossed(a, {"offer_put"})

(* An edit has taken the question off the candidate.                       *)
Withdrawn(c) == \E u \in About({"update"}, c) : call[u].resume = None

(* A listener was at work meanwhile, for a candidate it knew without the   *)
(* question.                                                               *)
Cleared(h) ==
    \E x \in About({"apply", "generate"}, call[h].id) :
      x # h /\ {h, x} \in crossed /\ cv[x] # "none" /\ given[x] = None

(* The summary a listener has written of a resume is there for good.       *)
(* Lost is what was written between the read and the save of an edit or a  *)
(* hire, what a listener handed the candidate of before the resume clears, *)
(* and what is cleared after an edit that takes the question away.         *)
Excused(h) == Crossed(h, {"update", "hire"}) \/ Cleared(h) \/ Withdrawn(call[h].id)

SummaryStays ==
    \A h \in DOMAIN call :
      cv[h] = "over" /\ given[h] \in Resumes /\ call[h].id \in DOMAIN candidate =>
        candidate[call[h].id].summary # None \/ Excused(h)

(* Every listener comes to an end, and what they have written is then      *)
(* there for good but for what SummaryStays allows (which holds all along, *)
(* as is proved).                                                          *)
SummaryArrives ==
    <>[](SummaryStays /\ \A h \in Calls : cv[h] \notin Listening)
-----------------------------------------------------------------------------
(* What makes the five invariants inductive.  A call is where its kind of  *)
(* call can be, and has crossed all that are in flight with it.            *)
InFlight(h) == pc[h] \notin {"idle", "done", "failed"}

Places(op) ==
    CASE op = "apply"                     -> Posting
      [] op = "career"                    -> {"post_lookup", "post_save"}
      [] op = "generate"                  -> {"summary"}
      [] op = "update"                    -> {"put_read", "put_save"}
      [] op = "delete"                    -> {"delete_read", "delete_pools", "delete"}
      [] op = "job_post"                  -> {"job_post"}
      [] op = "job_put"                   -> {"job_read", "job_save"}
      [] op = "pool_post"                 -> {"pool_post"}
      [] op = "pool_put"                  -> {"pool_read", "pool_save"}
      [] op = "pool_delete"               -> {"merge_read", "merge_into", "merge_save",
                                              "pool_delete"}
      [] op = "offer_post"                -> {"offer_post"}
      [] op \in {"offer_put", "answer"}   -> {"offer_read", "offer_save"}
      [] op = "hire"                      -> Hiring

CallsInv ==
    /\ \A h \in Calls : h \in DOMAIN call <=> pc[h] # "idle"
    /\ \A h \in DOMAIN call :
         /\ InFlight(h) => pc[h] \in Places(Op(h))
         /\ Op(h) \in {"apply", "career"} => call[h].id = h
    /\ \A h \in Calls : cv[h] # "none" => h \in DOMAIN call
    /\ \A h, x \in Calls : h # x /\ InFlight(h) /\ InFlight(x) => {h, x} \in crossed

(* The rows a call is about to save.                                       *)
HeldInv ==
    \A h \in DOMAIN call :
      /\ pc[h] \in {"put_save", "hire_save"} =>
           DOMAIN held[h] = {call[h].id} /\ held[h][call[h].id] \in CandidateRow
      /\ pc[h] \in {"delete_pools", "pool_save", "merge_into", "merge_save"} =>
           IsTable(held[h], Ids, SUBSET Ids)
      /\ pc[h] = "merge_into" => call[h].id \in DOMAIN held[h]
      /\ pc[h] = "offer_save" =>
           /\ DOMAIN held[h] = {call[h].id} /\ held[h][call[h].id] \in OfferRow
           /\ held[h][call[h].id].accept = call[h].accept
      /\ pc[h] = "job_info_save" =>
           DOMAIN held[h] = {emp[h]} /\ held[h][emp[h]] \subseteq Calls

(* Only what has been stored once can be read, saved or stored again.      *)
Posted(c) ==
    \/ c \in Known
    \/ c \in DOMAIN call /\ Op(c) \in {"apply", "career"} /\ pc[c] \notin {"post_lookup", "post_save"}

Offered(o) ==
    \/ o \in Known
    \/ o \in DOMAIN call /\ Op(o) = "offer_post" /\ pc[o] # "offer_post"

StoredInv ==
    /\ \A c \in DOMAIN candidate : Posted(c)
    /\ \A o \in DOMAIN offer : Offered(o)
    /\ \A h \in DOMAIN call :
         /\ Op(h) \in {"update", "delete", "hire"} => Posted(call[h].id)
         /\ Op(h) = "job_put" => \A c \in call[h].list : Posted(c)
         /\ Op(h) \in {"offer_put", "answer"} => Offered(call[h].id)

(* Whoever is in a list that a call holds is accounted for as in a pool;   *)
(* and a deletion alone with the pools leaves the candidate in none.       *)
PoolSavers == {"delete", "pool_post", "pool_put", "pool_delete"}

Accounted(c) ==
    \/ c \in DOMAIN candidate \cup cascaded
    \/ \E d \in About({"delete"}, c) : Crossed(d, PoolSavers)

PoolsInv ==
    \A h \in DOMAIN call :
      /\ InFlight(h) /\ Op(h) \in {"pool_post", "pool_put"} =>
           \A c \in call[h].list : Accounted(c)
      /\ pc[h] \in {"delete_pools", "pool_save", "merge_into", "merge_save"} =>
           \A p \in DOMAIN held[h] : \A c \in held[h][p] : Accounted(c)
      /\ pc[h] = "delete_pools" =>
           /\ \A p \in DOMAIN held[h] : call[h].id \notin held[h][p]
           /\ \/ Crossed(h, PoolSavers)
              \/ \A p \in DOMAIN pool : call[h].id \in pool[p] => p \in DOMAIN held[h]
      /\ pc[h] = "delete" =>
           Crossed(h, PoolSavers) \/ \A p \in DOMAIN pool : call[h].id \notin pool[p]

(* A form opened after an answer holds that answer.                        *)
AcceptInv ==
    \A a \in Answered({"answer"}), h \in DOMAIN call :
      InFlight(h) /\ Op(h) = "offer_put" /\ call[h].id = call[a].id =>
        \/ call[h].accept = call[a].accept
        \/ About({"answer"}, call[a].id) # {a}
        \/ Crossed(a, {"offer_put"})

(* The form of a job lists those who applied for it, and a row that is to  *)
(* be saved names the job its candidate applied for, moves aside.          *)
ApplyInv ==
    \A h \in DOMAIN call :
      /\ pc[h] \in {"put_save", "hire_save"} =>
           held[h][call[h].id].job = AppliedTo(call[h].id) \/ Moved(call[h].id)
      /\ Op(h) \in {"update", "hire"} =>
           \/ call[h].id \in DOMAIN candidate \cup cascaded
           \/ About({"delete"}, call[h].id) # {}
      /\ InFlight(h) /\ Op(h) = "job_put" =>
           \A c \in DOMAIN candidate \cup call[h].list :
             (c \in call[h].list <=> AppliedTo(c) = call[h].id) \/ Moved(c)

(* A hire works on its own employee, unless it crossed the one it has      *)
(* taken for it.                                                           *)
EmployeeInv ==
    /\ savedEmployee # None =>
         savedEmployee \in DOMAIN staff /\ savedEmployee \in DOMAIN call /\ Op(savedEmployee) = "hire"
    /\ \A h \in DOMAIN call :
         /\ pc[h] = "hire_resume" => h \in DOMAIN staff
         /\ pc[h] = "hire_answer" =>
              savedEmployee # None /\ (savedEmployee = h \/ {h, savedEmployee} \in crossed)
         /\ pc[h] \in {"hire_read", "hire_save", "job_info", "job_info_save"} =>
              /\ emp[h] \in DOMAIN staff /\ emp[h] \in DOMAIN call /\ Op(emp[h]) = "hire"
              /\ emp[h] = h \/ {h, emp[h]} \in crossed
         /\ pc[h] = "hire_save" =>
              Act("HIRED", "", emp[h]) \in ToSet(held[h][call[h].id].activities)

JobsInv ==
    \A h \in DOMAIN call : Op(h) = "hire" /\ ~Crossed(h, {"hire"}) =>
      /\ InFlight(h) /\ pc[h] # "hire_insert" => h \in DOMAIN staff /\ staff[h] = {}
      /\ pc[h] = "job_info_save" => held[h][h] = {h}
      /\ pc[h] = "done" => h \in DOMAIN staff /\ staff[h] = {h}

(* Who saves the candidate after a hire did keeps the activity.            *)
NotedInv ==
    \A h \in DOMAIN call :
      /\ Op(h) = "hire" /\ ~Crossed(h, {"hire"}) /\ ~Crossed(h, {"update"})
      /\ pc[h] \in {"job_info", "job_info_save", "done"}
      => LET c == call[h].id
             noted == Act("HIRED", "", h)
         IN /\ c \in DOMAIN candidate => noted \in ToSet(candidate[c].activities)
            /\ \A x \in DOMAIN call : pc[x] \in {"put_save", "hire_save"} /\ call[x].id = c =>
                 noted \in ToSet(held[x][c].activities)

(* Listeners work for the calls that emit the event, about a candidate     *)
(* stored, and cross what they are at work with.                           *)
ListenInv ==
    /\ \A h, x \in Calls : h # x /\ Busy(h) /\ Busy(x) => {h, x} \in crossed
    /\ \A h \in Calls : cv[h] = "none" => given[h] = None
    /\ \A h \in DOMAIN call : cv[h] # "none" =>
         /\ Op(h) \in {"apply", "generate"} /\ Posted(call[h].id)
         /\ pc[h] \notin {"post_lookup", "post_save", "post_emit"}

(* Once a call knows of a resume, the candidate has one, in the row and in *)
(* every row about to be saved, no listener is about to clear the summary, *)
(* and, once it is written, those rows have it too.                        *)
Told(h) == given[h] \in Resumes \/ (pc[h] = "post_emit" /\ call[h].resume \in Resumes)

Saves(u, c) == pc[u] \in {"put_save", "hire_save"} /\ call[u].id = c

ResumeInv ==
    \A h \in DOMAIN call : Told(h) =>
      LET c == call[h].id IN
      /\ c \in DOMAIN candidate => candidate[c].resume # None \/ Excused(h)
      /\ \A u \in DOMAIN call : Saves(u, c) => held[u][c].resume # None \/ Excused(h)

ClearInv ==
    \A h, x \in DOMAIN call : Told(h) /\ h # x /\ call[x].id = call[h].id =>
      /\ cv[x] = "link" /\ given[x] = None => Excused(h)
      /\ pc[x] = "post_emit" => {h, x} \in crossed

WrittenInv ==
    \A h, u \in DOMAIN call :
      cv[h] = "over" /\ given[h] \in Resumes /\ Saves(u, call[h].id) =>
        held[u][call[h].id].summary # None \/ Excused(h)

SummaryInv == ListenInv /\ ResumeInv /\ ClearInv /\ WrittenInv

HireInv == EmployeeInv /\ JobsInv /\ NotedInv

IInv ==
    /\ TypeOK /\ CallsInv /\ HeldInv /\ StoredInv
    /\ PoolsInv /\ PoolsNameCandidates
    /\ AcceptInv /\ AcceptanceStands
    /\ ApplyInv /\ ApplicantsStay
    /\ HireInv /\ HireIsRecorded
    /\ SummaryInv /\ SummaryStays
=============================================================================
