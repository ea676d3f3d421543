-------------------------- MODULE RecruitmentProofs --------------------------
(***************************************************************************)
(* Proofs about Recruitment, for every number of calls, of rows there from *)
(* the start and of resumes: its types, that talent pools name candidates, *)
(* that applicants stay, that hires are recorded and that answers to       *)
(* offers stand.                                                           *)
(***************************************************************************)
EXTENDS Recruitment, TLAPS

(* Sequences: what is appended is there, and what was there stays.         *)
LEMMA AppendedSet ==
    ASSUME NEW S, NEW s \in Seq(S), NEW e \in S
    PROVE  /\ Append(s, e) \in Seq(S)
           /\ e \in ToSet(Append(s, e))
           /\ ToSet(s) \subseteq ToSet(Append(s, e))
<1>1. Append(s, e) \in Seq(S) /\ Len(Append(s, e)) = Len(s) + 1 /\ Len(s) \in Nat
  OBVIOUS
<1>2. Append(s, e)[Len(s) + 1] = e
  OBVIOUS
<1>3. \A i \in 1 .. Len(s) : Append(s, e)[i] = s[i]
  OBVIOUS
<1>4. DOMAIN s = 1 .. Len(s) /\ DOMAIN Append(s, e) = 1 .. Len(s) + 1
  BY <1>1
<1>5. Len(s) + 1 \in DOMAIN Append(s, e) /\ \A i \in DOMAIN s : i \in DOMAIN Append(s, e)
  BY <1>1, <1>4
<1>6. QED
  BY <1>1, <1>2, <1>3, <1>4, <1>5 DEF ToSet

LEMMA JoinedSet ==
    ASSUME NEW S, NEW s \in Seq(S), NEW t \in Seq(S)
    PROVE  s \o t \in Seq(S) /\ ToSet(s) \subseteq ToSet(s \o t)
<1>1. s \o t \in Seq(S)
  OBVIOUS
<1>2. \A i \in DOMAIN s : i \in DOMAIN (s \o t) /\ (s \o t)[i] = s[i]
  OBVIOUS
<1>3. QED
  BY <1>1, <1>2 DEF ToSet

LEMMA LastOf ==
    ASSUME NEW S, NEW s \in Seq(S), s # <<>>
    PROVE  Last(s) \in S
  BY DEF Last

-----------------------------------------------------------------------------
(* What calls ask for.                                                     *)
LEMMA AskedFields ==
    ASSUME NEW c \in Asked
    PROVE  /\ c.id \in Ids
           /\ c.op \in {"apply", "career"} =>
                c.id \in Calls /\ c.job \in Ids \cup {None} /\ c.resume \in Questions
           /\ c.op = "update" =>
                /\ c.status \in Statuses \cup {None} /\ c.rated \in BOOLEAN
                /\ c.job \in Ids \cup {None} /\ c.resume \in Questions \cup {Kept}
           /\ c.op \in {"job_put", "pool_put"} => c.listed \in BOOLEAN /\ c.list \subseteq Ids
           /\ c.op = "pool_post" => c.id \in Calls /\ c.list \subseteq Ids
           /\ c.op = "pool_delete" => c.to \in Ids \cup {None}
           /\ c.op \in {"offer_put", "answer"} => c.accept \in Answers
  BY DEF Asked, Ids

(* What kind of call is at a step.                                         *)
PlaceKind(h) ==
    /\ pc[h] \in Posting => Op(h) \in {"apply", "career"}
    /\ pc[h] \in {"post_emit", "post_mail"} => Op(h) = "apply"
    /\ pc[h] = "summary" => Op(h) = "generate"
    /\ pc[h] \in {"put_read", "put_save"} => Op(h) = "update"
    /\ pc[h] \in {"delete_read", "delete_pools", "delete"} => Op(h) = "delete"
    /\ pc[h] = "job_post" => Op(h) = "job_post"
    /\ pc[h] \in {"job_read", "job_save"} => Op(h) = "job_put"
    /\ pc[h] = "pool_post" => Op(h) = "pool_post"
    /\ pc[h] \in {"pool_read", "pool_save"} => Op(h) = "pool_put"
    /\ pc[h] \in {"merge_read", "merge_into", "merge_save", "pool_delete"} => Op(h) = "pool_delete"
    /\ pc[h] = "offer_post" => Op(h) = "offer_post"
    /\ pc[h] \in {"offer_read", "offer_save"} => Op(h) \in {"offer_put", "answer"}
    /\ pc[h] \in Hiring => Op(h) = "hire"

Operations == {"apply", "career", "generate", "update", "delete", "job_post", "job_put",
               "pool_post", "pool_put", "pool_delete", "offer_post", "offer_put", "answer", "hire"}

LEMMA AskedOps == \A c \in Asked : c.op \in Operations
  BY DEF Asked, Operations

LEMMA KindOfPlace ==
    ASSUME TypeOK, CallsInv, NEW h \in DOMAIN call
    PROVE  h \in Calls /\ call[h] \in Asked /\ PlaceKind(h)
<1>1. h \in Calls /\ call[h] \in Asked
  BY DEF TypeOK, IsTable
<1>2. Op(h) \in Operations
  BY <1>1, AskedOps DEF Op
<1>3. InFlight(h) => pc[h] \in Places(Op(h))
  BY DEF CallsInv
<1>4. PlaceKind(h)
  BY <1>2, <1>3 DEF InFlight, Places, PlaceKind, Posting, Hiring, Operations
<1>5. QED
  BY <1>1, <1>4

-----------------------------------------------------------------------------
(* What every step keeps of the calls: a call begun says what it said, is  *)
(* the only one to move, and is not in flight again once it has ended.     *)
Others(h) ==
    \A x \in Calls : x # h => pc'[x] = pc[x] /\ held'[x] = held[x] /\ emp'[x] = emp[x]

Moves(h) ==
    /\ h \in DOMAIN call /\ pc'[h] # "idle" /\ Others(h)
    /\ InFlight(h)' => InFlight(h)
    /\ call' = call /\ history' = history

LEMMA ReadKeeps ==
    ASSUME NEW h, NEW from, NEW id, NEW table, NEW to, NEW rows,
           Read(h, from, id, table, to, rows)
    PROVE  cv' = cv /\ tables' = tables /\ emp' = emp /\ given' = given
  BY DEF Read, Own, Hold, locals

LEMMA ReadHolds ==
    ASSUME NEW h, NEW from, NEW id, NEW table, NEW to, NEW rows,
           Read(h, from, id, table, to, rows)
    PROVE  /\ held' = held \/ \E r : held' = [held EXCEPT ![h] = r]
           /\ emp' = emp
  BY DEF Read, Hold, locals

LEMMA ReadMoves ==
    ASSUME TypeOK, CallsInv, NEW h \in Calls, NEW from, NEW id, NEW table, NEW to, NEW rows,
           Read(h, from, id, table, to, rows), from \notin {"idle", "done", "failed"}, to # "idle"
    PROVE  Moves(h) /\ InFlight(h)
  BY DEF Read, Moves, Others, InFlight, CallsInv, TypeOK, Goto, Hold, Own, locals, history

LEMMA StepMoves ==
    ASSUME TypeOK, CallsInv, NEW h \in Calls, Step(h)
    PROVE  Moves(h) /\ InFlight(h)
<1> USE DEF Moves, Others, InFlight, CallsInv, TypeOK, Goto, Hold, Forget, Own, locals, history
<1>1. CASE PostLookup(h) \/ PostSave(h) \/ PostEmit(h) \/ PostMail(h)
  BY <1>1 DEF PostLookup, PostSave, PostEmit, PostMail, SaveCandidate
<1>2. CASE SummaryRead(h) \/ SummaryDone(h) \/ PutRead(h) \/ PutSave(h)
  BY <1>2 DEF SummaryRead, SummaryDone, PutRead, PutSave, Read, SaveCandidate
<1>3. CASE DeleteRead(h) \/ DeletePools(h) \/ DeleteRow(h)
  BY <1>3 DEF DeleteRead, DeletePools, DeleteRow, Read
<1>4. CASE JobPost(h) \/ JobRead(h) \/ JobSave(h)
  BY <1>4 DEF JobPost, JobRead, JobSave
<1>5. CASE PoolPost(h) \/ PoolRead(h) \/ PoolSave(h)
  BY <1>5 DEF PoolPost, PoolRead, PoolSave, Read
<1>6. CASE MergeRead(h) \/ MergeInto(h) \/ MergeSave(h) \/ PoolDelete(h)
  BY <1>6 DEF MergeRead, MergeInto, MergeSave, PoolDelete, Read
<1>7. CASE OfferPost(h) \/ OfferRead(h) \/ OfferSave(h)
  BY <1>7 DEF OfferPost, OfferRead, OfferSave, Read
<1>8. CASE HireInsert(h) \/ HireResume(h) \/ HireAnswer(h) \/ HireRead(h) \/ HireSave(h)
  <2>1. CASE HireInsert(h) \/ HireResume(h) \/ HireAnswer(h)
    BY <2>1 DEF HireInsert, HireResume, HireAnswer
  <2>2. CASE HireRead(h)
    BY <2>2, ReadMoves DEF HireRead
  <2>3. CASE HireSave(h)
    BY <2>3 DEF HireSave, SaveCandidate
  <2>4. QED
    BY <1>8, <2>1, <2>2, <2>3
<1>9. CASE JobInfo(h) \/ JobInfoSave(h)
  BY <1>9 DEF JobInfo, JobInfoSave
<1>10. QED
  BY <1>1, <1>2, <1>3, <1>4, <1>5, <1>6, <1>7, <1>8, <1>9 DEF Step

LEMMA AbortMoves ==
    ASSUME TypeOK, CallsInv, NEW h \in Calls, Abort(h)
    PROVE  Moves(h) /\ pc'[h] = "failed" /\ tables' = tables
  BY DEF Moves, Others, InFlight, CallsInv, TypeOK, Abort, Forget, Hold, Own, history

LEMMA SummariseMoves ==
    ASSUME TypeOK, CallsInv, NEW h \in Calls, Summarise(h)
    PROVE  Moves(h) /\ pc' = pc /\ held' = held /\ emp' = emp
  BY DEF Moves, Others, InFlight, CallsInv, TypeOK, Summarise, CVLink, CVAsk, CVWrite, CVFails,
     Listen, Listening, locals, history

(* The same of a call that begins.                                         *)
Begins(h) ==
    /\ h \in Calls \ DOMAIN call /\ pc[h] = "idle" /\ pc'[h] # "idle" /\ Others(h)
    /\ call' = Save(call, h, call'[h]) /\ h \in DOMAIN call'
    /\ crossed' = crossed \cup {{h, x} : x \in {y \in Calls : Busy(y)}}
    /\ UNCHANGED <<tables, locals, cv, cascaded>>

(* The first step of a call.                                               *)
FirstSteps(asked, to) ==
    \/ asked.op = "apply" /\ asked.job = None /\ to = "post_save"
    \/ asked.op \in {"apply", "career"} /\ to = "post_lookup"
    \/ asked.op = "generate" /\ to = "summary"
    \/ asked.op = "update" /\ to = "put_read"
    \/ asked.op = "delete" /\ to = "delete_read"
    \/ asked.op = "job_post" /\ to = "job_post"
    \/ asked.op = "job_put" /\ to = "job_read"
    \/ asked.op = "pool_post" /\ to = "pool_post"
    \/ asked.op = "pool_put" /\ to = "pool_read"
    \/ asked.op = "pool_delete" /\ to = "merge_read"
    \/ asked.op = "offer_post" /\ to = "offer_post"
    \/ asked.op \in {"offer_put", "answer"} /\ to = "offer_read"
    \/ asked.op = "hire" /\ to = "hire_insert"

(* What a call asks for when it begins.                                    *)
AskedWell(h, asked) ==
    /\ asked \in Asked
    /\ asked.op \in {"apply", "career"} => asked.id = h
    /\ asked.op \in {"update", "delete", "hire"} => asked.id \in DOMAIN candidate
    /\ asked.op = "job_put" => asked.list = AppliedFor(asked.id)
    /\ asked.op \in {"pool_post", "pool_put"} => asked.list \subseteq DOMAIN candidate
    /\ asked.op \in {"offer_put", "answer"} => asked.id \in DOMAIN offer
    /\ asked.op = "offer_put" => asked.accept = offer[asked.id].accept

LEMMA BeginBegins ==
    ASSUME TypeOK, CallsInv, NEW h \in Calls, NEW asked, NEW to, to # "idle", Begin(h, asked),
           Goto(h, "idle", to)
    PROVE  Begins(h) /\ call'[h] = asked /\ pc'[h] = to
<1>1. h \notin DOMAIN call
  BY DEF Goto, CallsInv
<1>2. h \in DOMAIN call' /\ call'[h] = asked
  BY DEF Begin, Save
<1>3. pc[h] = "idle" /\ pc'[h] = to /\ Others(h)
  BY DEF Goto, Others, Begin, locals, TypeOK
<1>4. QED
  BY <1>1, <1>2, <1>3 DEF Begin, Begins

LEMMA StartBegins ==
    ASSUME TypeOK, CallsInv, NEW h \in Calls, Start(h)
    PROVE  Begins(h) /\ AskedWell(h, call'[h]) /\ FirstSteps(call'[h], pc'[h])
<1> DEFINE Begun == Begins(h) /\ AskedWell(h, call'[h]) /\ FirstSteps(call'[h], pc'[h])
<1> USE DEF AskedWell, FirstSteps
<1>1. CASE Post(h)
  <2>1. PICK op \in {"apply", "career"}, j \in job \cup {None}, r \in Questions :
          /\ Begin(h, [op |-> op, id |-> h, job |-> j, resume |-> r])
          /\ Goto(h, "idle", IF op = "apply" /\ j = None THEN "post_save" ELSE "post_lookup")
    BY <1>1 DEF Post
  <2> DEFINE a == [op |-> op, id |-> h, job |-> j, resume |-> r]
             to == IF op = "apply" /\ j = None THEN "post_save" ELSE "post_lookup"
  <2>2. a \in Asked
    BY DEF Asked, TypeOK
  <2>3. Begins(h) /\ call'[h] = a /\ pc'[h] = to
    <3> to # "idle"
      OBVIOUS
    <3> HIDE DEF a, to
    <3> QED
      BY <2>1, BeginBegins DEF a, to
  <2>4. QED
    BY <2>2, <2>3
<1>2. CASE GenerateSummary(h) \/ DeleteCandidate(h) \/ CreateJob(h) \/ PostOfferLetters(h) \/ HireEmployee(h)
  <2>1. PICK op \in {"generate", "delete", "job_post", "offer_post", "hire"}, c \in Ids, to \in Steps :
          /\ Begin(h, [op |-> op, id |-> c]) /\ Goto(h, "idle", to)
          /\ op \in {"delete", "hire"} => c \in DOMAIN candidate
          /\ FirstSteps([op |-> op, id |-> c], to)
    <3>1. CASE GenerateSummary(h)
      BY <3>1 DEF GenerateSummary, Steps
    <3>2. CASE DeleteCandidate(h)
      BY <3>2 DEF DeleteCandidate, Steps, TypeOK, IsTable
    <3>3. CASE CreateJob(h)
      BY <3>3 DEF CreateJob, Steps, Ids
    <3>4. CASE PostOfferLetters(h)
      BY <3>4 DEF PostOfferLetters, Steps, TypeOK, IsTable
    <3>5. CASE HireEmployee(h)
      BY <3>5 DEF HireEmployee, Steps, Hiring, TypeOK, IsTable
    <3>6. QED
      BY <1>2, <3>1, <3>2, <3>3, <3>4, <3>5
  <2> DEFINE a == [op |-> op, id |-> c]
  <2>2. a \in Asked
    BY DEF Asked
  <2>3. Begins(h) /\ call'[h] = a /\ pc'[h] = to
    <3> HIDE DEF a
    <3> to # "idle"
      BY <2>1
    <3> QED
      BY <2>1, BeginBegins DEF a
  <2>4. QED
    BY <2>1, <2>2, <2>3
<1>3. CASE Update(h)
  <2>1. PICK c \in DOMAIN candidate, s \in Statuses \cup {None}, rated \in BOOLEAN,
             j \in job \cup {None}, r \in Questions \cup {Kept} :
          /\ Begin(h, [op |-> "update", id |-> c, status |-> s, rated |-> rated, job |-> j,
                       resume |-> r])
          /\ Goto(h, "idle", "put_read")
    BY <1>3 DEF Update
  <2> DEFINE a == [op |-> "update", id |-> c, status |-> s, rated |-> rated, job |-> j, resume |-> r]
  <2>2. a \in Asked
    BY DEF Asked, TypeOK, IsTable
  <2>3. Begins(h) /\ call'[h] = a /\ pc'[h] = "put_read"
    <3> HIDE DEF a
    <3> QED
      BY <2>1, BeginBegins DEF a
  <2>4. QED
    BY <2>2, <2>3
<1>4. CASE UpdateJob(h)
  <2>1. PICK j \in job, listed \in BOOLEAN :
          /\ Begin(h, [op |-> "job_put", id |-> j, listed |-> listed, list |-> AppliedFor(j)])
          /\ Goto(h, "idle", "job_read")
    BY <1>4 DEF UpdateJob
  <2> DEFINE a == [op |-> "job_put", id |-> j, listed |-> listed, list |-> AppliedFor(j)]
  <2>2. a \in Asked
    <3> AppliedFor(j) \in SUBSET Ids
      BY DEF AppliedFor, TypeOK, IsTable
    <3> QED
      BY DEF Asked, TypeOK
  <2>3. Begins(h) /\ call'[h] = a /\ pc'[h] = "job_read"
    <3> HIDE DEF a
    <3> QED
      BY <2>1, BeginBegins DEF a
  <2>4. QED
    BY <2>2, <2>3
<1>5. CASE CreateTalentPool(h)
  <2>1. PICK list \in SUBSET DOMAIN candidate :
          Begin(h, [op |-> "pool_post", id |-> h, list |-> list]) /\ Goto(h, "idle", "pool_post")
    BY <1>5 DEF CreateTalentPool
  <2> DEFINE a == [op |-> "pool_post", id |-> h, list |-> list]
  <2>2. a \in Asked
    BY DEF Asked, TypeOK, IsTable
  <2>3. Begins(h) /\ call'[h] = a /\ pc'[h] = "pool_post"
    <3> HIDE DEF a
    <3> QED
      BY <2>1, BeginBegins DEF a
  <2>4. QED
    BY <2>2, <2>3
<1>6. CASE UpdateTalentPools(h)
  <2>1. PICK p \in DOMAIN pool, listed \in BOOLEAN, list \in SUBSET DOMAIN candidate :
          /\ Begin(h, [op |-> "pool_put", id |-> p, listed |-> listed, list |-> list])
          /\ Goto(h, "idle", "pool_read")
    BY <1>6 DEF UpdateTalentPools
  <2> DEFINE a == [op |-> "pool_put", id |-> p, listed |-> listed, list |-> list]
  <2>2. a \in Asked
    BY DEF Asked, TypeOK, IsTable
  <2>3. Begins(h) /\ call'[h] = a /\ pc'[h] = "pool_read"
    <3> HIDE DEF a
    <3> QED
      BY <2>1, BeginBegins DEF a
  <2>4. QED
    BY <2>2, <2>3
<1>7. CASE DeleteTalentPool(h)
  <2>1. PICK p \in DOMAIN pool, to \in DOMAIN pool \cup {None} :
          Begin(h, [op |-> "pool_delete", id |-> p, to |-> to]) /\ Goto(h, "idle", "merge_read")
    BY <1>7 DEF DeleteTalentPool
  <2> DEFINE a == [op |-> "pool_delete", id |-> p, to |-> to]
  <2>2. a \in Asked
    BY DEF Asked, TypeOK, IsTable
  <2>3. Begins(h) /\ call'[h] = a /\ pc'[h] = "merge_read"
    <3> HIDE DEF a
    <3> QED
      BY <2>1, BeginBegins DEF a
  <2>4. QED
    BY <2>2, <2>3
<1>8. CASE UpdateOffer(h)
  <2>1. PICK o \in DOMAIN offer, op \in {"offer_put", "answer"}, a \in Answers :
          /\ Begin(h, [op |-> op, id |-> o, accept |-> a]) /\ Goto(h, "idle", "offer_read")
          /\ op = "offer_put" => a = offer[o].accept
    <3>1. PICK o \in DOMAIN offer :
            /\ \/ Begin(h, [op |-> "offer_put", id |-> o, accept |-> offer[o].accept])
               \/ \E a \in Answers : Begin(h, [op |-> "answer", id |-> o, accept |-> a])
            /\ Goto(h, "idle", "offer_read")
      BY <1>8 DEF UpdateOffer
    <3>2. offer[o].accept \in Answers
      BY DEF TypeOK, IsTable, OfferRow
    <3>3. QED
      BY <3>1, <3>2
  <2> DEFINE b == [op |-> op, id |-> o, accept |-> a]
  <2>2. b \in Asked
    BY DEF Asked, TypeOK, IsTable
  <2>3. Begins(h) /\ call'[h] = b /\ pc'[h] = "offer_read"
    <3> HIDE DEF b
    <3> QED
      BY <2>1, BeginBegins DEF b
  <2>4. QED
    BY <2>1, <2>2, <2>3
<1>9. QED
  BY <1>1, <1>2, <1>3, <1>4, <1>5, <1>6, <1>7, <1>8 DEF Start

-----------------------------------------------------------------------------
(* What the services make of a candidate is a candidate.                   *)
LEMMA PostedRow ==
    ASSUME NEW j \in Ids \cup {None}, NEW r \in Questions
    PROVE  NewCandidate(j, r) \in CandidateRow /\ NewCandidate(j, r).job = j
<1>1. <<>> \in Seq(Activity)
  OBVIOUS
<1>2. QED
  BY <1>1 DEF NewCandidate, CandidateRow, Statuses

LEMMA RowExcept ==
    ASSUME NEW row \in CandidateRow, NEW acts
    PROVE  [row EXCEPT !.activities = acts] =
             [job |-> row.job, status |-> row.status, activities |-> acts,
              resume |-> row.resume, summary |-> row.summary]
  BY DEF CandidateRow

LEMMA UpdatedRow ==
    ASSUME NEW row \in CandidateRow, NEW b \in Asked, b.op = "update"
    PROVE  /\ Updated(row, b) \in CandidateRow
           /\ Updated(row, b).job = IF b.job = None THEN row.job ELSE b.job
           /\ Updated(row, b).resume = Replies(b.resume, row.resume)
           /\ Updated(row, b).summary = row.summary
           /\ ToSet(row.activities) \subseteq ToSet(Updated(row, b).activities)
<1> DEFINE rate   == Act("RATE", "", None)
           rating == IF b.rated THEN <<rate>> ELSE <<>>
           rated  == [row EXCEPT !.activities = row.activities \o rating]
           move   == Act("STATUS", b.status, None)
           moving == IF b.status \notin {None, LastStatus(row)} THEN <<move>> ELSE <<>>
           acts   == (row.activities \o rating) \o moving
<1>1. /\ b.status \in Statuses \cup {None} /\ b.job \in Ids \cup {None}
      /\ b.resume \in Questions \cup {Kept}
  BY AskedFields
<1>2. /\ row.job \in Ids \cup {None} /\ row.status \in Statuses /\ row.activities \in Seq(Activity)
      /\ row.resume \in Questions /\ row.summary \in Resumes \cup {None}
  BY DEF CandidateRow
<1>3. rating \in Seq(Activity)
  <2>1. rate \in Activity
    BY DEF Act, Activity
  <2> HIDE DEF rate
  <2>2. QED
    BY <2>1
<1>4. moving \in Seq(Activity)
  <2>1. b.status # None => move \in Activity
    BY <1>1 DEF Act, Activity
  <2> HIDE DEF move
  <2>2. QED
    BY <2>1
<1>5. acts \in Seq(Activity) /\ ToSet(row.activities) \subseteq ToSet(acts)
  <2> HIDE DEF rating, moving
  <2>1. /\ row.activities \o rating \in Seq(Activity)
        /\ ToSet(row.activities) \subseteq ToSet(row.activities \o rating)
    BY <1>2, <1>3, JoinedSet
  <2>2. acts \in Seq(Activity) /\ ToSet(row.activities \o rating) \subseteq ToSet(acts)
    BY <2>1, <1>4, JoinedSet
  <2>3. QED
    BY <2>1, <2>2
<1>6. Updated(row, b) = [job |-> Or(b.job, row.job), status |-> Or(b.status, row.status),
                         activities |-> acts, resume |-> Replies(b.resume, row.resume),
                         summary |-> row.summary]
  <2> HIDE DEF rating, moving
  <2>1. row = [job |-> row.job, status |-> row.status, activities |-> row.activities,
               resume |-> row.resume, summary |-> row.summary]
    BY DEF CandidateRow
  <2>2. Updated(row, b) = [rated EXCEPT !.activities = rated.activities \o moving,
                             !.status = Or(b.status, rated.status),
                             !.job = Or(b.job, rated.job), !.resume = Replies(b.resume, rated.resume)]
    BY DEF Updated, rating, moving
  <2>3. rated = [job |-> row.job, status |-> row.status, activities |-> row.activities \o rating,
                 resume |-> row.resume, summary |-> row.summary]
    BY RowExcept
  <2> HIDE DEF rated
  <2>4. QED
    BY <2>2, <2>3
<1>7. /\ Or(b.job, row.job) \in Ids \cup {None} /\ Or(b.status, row.status) \in Statuses
      /\ Replies(b.resume, row.resume) \in Questions
  BY <1>1, <1>2 DEF Or, Replies
<1> HIDE DEF acts
<1>8. QED
  BY <1>2, <1>5, <1>6, <1>7 DEF CandidateRow, Or

LEMMA HiredRow ==
    ASSUME NEW row \in CandidateRow, NEW e \in Calls \cup {None}
    PROVE  /\ Hired(row, e) \in CandidateRow /\ Hired(row, e).job = row.job
           /\ ToSet(row.activities) \subseteq ToSet(Hired(row, e).activities)
           /\ Act("HIRED", "", e) \in ToSet(Hired(row, e).activities)
           /\ Hired(row, e).resume = row.resume /\ Hired(row, e).summary = row.summary
<1> DEFINE a == Act("HIRED", "", e)
           acts == Append(row.activities, a)
<1>1. row.activities \in Seq(Activity) /\ a \in Activity
  BY DEF CandidateRow, Act, Activity
<1>2. /\ acts \in Seq(Activity) /\ a \in ToSet(acts)
      /\ ToSet(row.activities) \subseteq ToSet(acts)
  <2> HIDE DEF a
  <2> QED
    BY <1>1, AppendedSet
<1>3. Hired(row, e) = [row EXCEPT !.activities = acts]
  BY DEF Hired
<1> HIDE DEF a, acts
<1>4. /\ Hired(row, e) \in CandidateRow /\ Hired(row, e).job = row.job
      /\ Hired(row, e).activities = acts
      /\ Hired(row, e).resume = row.resume /\ Hired(row, e).summary = row.summary
  BY <1>2, <1>3 DEF CandidateRow
<1>5. QED
  BY <1>2, <1>4 DEF a

(* The listener writes two columns of a row there is.                      *)
LEMMA WrittenRow ==
    ASSUME TypeOK, NEW h \in Calls, NEW summary \in Resumes \cup {None}, Write(h, summary)
    PROVE  /\ IsTable(candidate', Ids, CandidateRow)
           /\ DOMAIN candidate' = DOMAIN candidate
           /\ \A c \in DOMAIN candidate :
                candidate'[c].job = candidate[c].job /\ candidate'[c].activities = candidate[c].activities
<1>1. IsTable(candidate, Ids, CandidateRow)
  BY DEF TypeOK
<1>2. \A c \in DOMAIN candidate :
        /\ c \in Ids /\ candidate[c] \in CandidateRow
        /\ [candidate[c] EXCEPT !.summary = summary] \in CandidateRow
        /\ [candidate[c] EXCEPT !.summary = summary].job = candidate[c].job
        /\ [candidate[c] EXCEPT !.summary = summary].activities = candidate[c].activities
  BY <1>1 DEF IsTable, CandidateRow
<1>3. QED
  BY <1>1, <1>2 DEF Write, Save, IsTable

(* Saving a job with a list changes the jobs of candidates, nothing else.  *)
LEMMA ListedRows ==
    ASSUME TypeOK, NEW j \in Ids, NEW list
    PROVE  /\ IsTable(Listed(j, list), Ids, CandidateRow)
           /\ DOMAIN Listed(j, list) = DOMAIN candidate
           /\ \A c \in DOMAIN candidate :
                /\ Listed(j, list)[c].job = IF c \in list THEN j
                                            ELSE IF candidate[c].job = j THEN None ELSE candidate[c].job
                /\ Listed(j, list)[c].activities = candidate[c].activities
<1>1. DOMAIN candidate \subseteq Ids /\ \A c \in DOMAIN candidate : candidate[c] \in CandidateRow
  BY DEF TypeOK, IsTable
<1>2. \A row \in CandidateRow : \A k \in Ids \cup {None} :
        /\ [row EXCEPT !.job = k] \in CandidateRow /\ [row EXCEPT !.job = k].job = k
        /\ [row EXCEPT !.job = k].activities = row.activities
  BY DEF CandidateRow
<1>3. \A c \in DOMAIN candidate : candidate[c].job \in Ids \cup {None}
  BY <1>1 DEF CandidateRow
<1> DEFINE to(c) == IF c \in list THEN j ELSE IF candidate[c].job = j THEN None ELSE candidate[c].job
<1>4. \A c \in DOMAIN candidate : to(c) \in Ids \cup {None}
  BY <1>3
<1> DEFINE sent(row, k) == [row EXCEPT !.job = k]
<1>5. Listed(j, list) = [c \in DOMAIN candidate |-> sent(candidate[c], to(c))]
  BY DEF Listed
<1>8. \A row \in CandidateRow : \A k \in Ids \cup {None} :
        /\ sent(row, k) \in CandidateRow /\ sent(row, k).job = k
        /\ sent(row, k).activities = row.activities
  BY <1>2
<1> HIDE DEF to, sent
<1>6. /\ DOMAIN Listed(j, list) = DOMAIN candidate
      /\ \A c \in DOMAIN candidate :
           /\ Listed(j, list)[c] \in CandidateRow /\ Listed(j, list)[c].job = to(c)
           /\ Listed(j, list)[c].activities = candidate[c].activities
  BY <1>1, <1>4, <1>5, <1>8
<1>7. QED
  BY <1>1, <1>5, <1>6 DEF IsTable, to

-----------------------------------------------------------------------------
(* CallsInv is inductive. *)
LEMMA StartGoes ==
    ASSUME NEW h \in Calls, Start(h)
    PROVE  \E to : pc' = [pc EXCEPT ![h] = to]
  BY DEF Start, Post, GenerateSummary, Update, DeleteCandidate, CreateJob, UpdateJob,
     CreateTalentPool, UpdateTalentPools, DeleteTalentPool, PostOfferLetters, UpdateOffer,
     HireEmployee, Goto

LEMMA StepListens ==
    ASSUME NEW h \in Calls, Step(h)
    PROVE  cv' = cv \/ \E s : cv' = [cv EXCEPT ![h] = s]
<1> USE DEF Own, Read
<1>1. CASE PostLookup(h) \/ PostSave(h) \/ PostEmit(h) \/ PostMail(h) \/ SummaryRead(h)
           \/ SummaryDone(h) \/ PutSave(h)
  BY <1>1 DEF PostLookup, PostSave, PostEmit, PostMail, SummaryRead, SummaryDone, PutSave
<1>2. CASE PutRead(h) \/ HireRead(h)
  BY <1>2, ReadKeeps DEF PutRead, HireRead
<1>3. CASE DeleteRead(h) \/ DeletePools(h) \/ DeleteRow(h) \/ JobPost(h) \/ JobRead(h) \/ JobSave(h)
  BY <1>3 DEF DeleteRead, DeletePools, DeleteRow, JobPost, JobRead, JobSave
<1>4. CASE PoolPost(h) \/ PoolRead(h) \/ PoolSave(h) \/ MergeRead(h) \/ MergeInto(h) \/ MergeSave(h)
           \/ PoolDelete(h)
  BY <1>4 DEF PoolPost, PoolRead, PoolSave, MergeRead, MergeInto, MergeSave, PoolDelete
<1>5. CASE OfferPost(h) \/ OfferRead(h) \/ OfferSave(h) \/ HireInsert(h) \/ HireResume(h) \/ HireAnswer(h)
  BY <1>5 DEF OfferPost, OfferRead, OfferSave, HireInsert, HireResume, HireAnswer
<1>6. CASE HireSave(h) \/ JobInfo(h) \/ JobInfoSave(h)
  BY <1>6 DEF HireSave, JobInfo, JobInfoSave
<1>7. QED
  BY <1>1, <1>2, <1>3, <1>4, <1>5, <1>6 DEF Step

LEMMA ReadPlace ==
    ASSUME TypeOK, CallsInv, NEW h \in Calls, NEW from, NEW id, NEW table, NEW to, NEW rows,
           Read(h, from, id, table, to, rows)
    PROVE  pc[h] = from /\ (pc' = [pc EXCEPT ![h] = to] \/ pc' = [pc EXCEPT ![h] = "failed"])
  BY DEF Read, Goto

LEMMA StepPlace ==
    ASSUME TypeOK, CallsInv, NEW h \in Calls, Step(h)
    PROVE  pc' \in [Calls -> Steps] /\ (InFlight(h)' => pc'[h] \in Places(Op(h)))
<1>1. h \in DOMAIN call /\ PlaceKind(h) /\ pc \in [Calls -> Steps]
  BY StepMoves, KindOfPlace DEF Moves, TypeOK
<1> USE <1>1 DEF PlaceKind, Places, Steps, Posting, Hiring, InFlight, Goto
<1>2. CASE PostLookup(h) \/ PostSave(h) \/ PostEmit(h) \/ PostMail(h)
  BY <1>2 DEF PostLookup, PostSave, PostEmit, PostMail, SaveCandidate, Op
<1>3. CASE SummaryRead(h) \/ SummaryDone(h) \/ PutSave(h)
  BY <1>3 DEF SummaryRead, SummaryDone, PutSave, SaveCandidate
<1>4. CASE PutRead(h) \/ HireRead(h) \/ OfferRead(h)
  <2>1. CASE PutRead(h)
    BY <2>1, ReadPlace DEF PutRead
  <2>2. CASE HireRead(h)
    BY <2>2, ReadPlace DEF HireRead
  <2>3. CASE OfferRead(h)
    BY <2>3 DEF OfferRead, Read
  <2>4. QED
    BY <1>4, <2>1, <2>2, <2>3
<1>5. CASE DeleteRead(h) \/ DeletePools(h) \/ DeleteRow(h)
  BY <1>5 DEF DeleteRead, DeletePools, DeleteRow, Read
<1>6. CASE JobPost(h) \/ JobRead(h) \/ JobSave(h)
  BY <1>6 DEF JobPost, JobRead, JobSave
<1>7. CASE PoolPost(h) \/ PoolRead(h) \/ PoolSave(h)
  BY <1>7 DEF PoolPost, PoolRead, PoolSave, Read
<1>8. CASE MergeRead(h) \/ MergeInto(h) \/ MergeSave(h) \/ PoolDelete(h)
  BY <1>8 DEF MergeRead, MergeInto, MergeSave, PoolDelete, Read
<1>9. CASE OfferPost(h) \/ OfferSave(h)
  BY <1>9 DEF OfferPost, OfferSave
<1>10. CASE HireInsert(h) \/ HireResume(h) \/ HireAnswer(h) \/ HireSave(h) \/ JobInfo(h) \/ JobInfoSave(h)
  BY <1>10 DEF HireInsert, HireResume, HireAnswer, HireSave, SaveCandidate, JobInfo, JobInfoSave
<1>11. QED
  BY <1>2, <1>3, <1>4, <1>5, <1>6, <1>7, <1>8, <1>9, <1>10 DEF Step

LEMMA MovesCallsInv ==
    ASSUME TypeOK, CallsInv, NEW h \in Calls, Moves(h),
           InFlight(h)' => pc'[h] \in Places(Op(h)),
           \A x \in Calls : cv'[x] # "none" => x \in DOMAIN call
    PROVE  CallsInv'
<1>1. \A x \in Calls : InFlight(x)' => InFlight(x)
  BY DEF Moves, Others, InFlight
<1>2. \A x \in DOMAIN call : InFlight(x)' => pc'[x] \in Places(Op(x))
  BY DEF Moves, Others, InFlight, CallsInv, TypeOK, IsTable
<1>3. \A x \in Calls : x \in DOMAIN call' <=> pc'[x] # "idle"
  BY DEF Moves, Others, CallsInv
<1>4. \A x \in DOMAIN call' : Places(Op(x)') = Places(Op(x))
  BY DEF Moves, Op
<1>5. crossed' = crossed /\ call' = call
  BY DEF Moves, history
<1>6. \A x \in DOMAIN call' : (InFlight(x) => pc[x] \in Places(Op(x)))'
  BY <1>2, <1>4, <1>5 DEF Op
<1>7. QED
  BY <1>1, <1>3, <1>5, <1>6 DEF CallsInv, Op

LEMMA BeginsCallsInv ==
    ASSUME TypeOK, CallsInv, NEW h \in Calls, Start(h)
    PROVE  CallsInv' /\ pc' \in [Calls -> Steps] /\ IsTable(call', Calls, Asked)
<1>1. Begins(h) /\ AskedWell(h, call'[h]) /\ FirstSteps(call'[h], pc'[h])
  BY StartBegins
<1>2. /\ DOMAIN call' = DOMAIN call \cup {h}
      /\ \A x \in DOMAIN call : x # h /\ call'[x] = call[x]
  BY <1>1 DEF Begins, Save
<1>3. \A x \in DOMAIN call : x \in Calls /\ Op(x)' = Op(x) /\ pc'[x] = pc[x]
  BY <1>1, <1>2 DEF Begins, Others, Op, TypeOK, IsTable
<1>4. InFlight(h)' => pc'[h] \in Places(Op(h)')
  BY <1>1 DEF FirstSteps, Places, Posting, Hiring, InFlight, Op
<1>5. \A x \in Calls : x # h /\ InFlight(x)' => InFlight(x) /\ Busy(x)
  BY <1>1 DEF Begins, Others, InFlight, Busy
<1>6. \A x \in Calls : x # h /\ InFlight(x)' => {h, x} \in crossed' /\ {x, h} \in crossed'
  BY <1>1, <1>5 DEF Begins
<1>7. \A x, y \in Calls : x # y /\ InFlight(x)' /\ InFlight(y)' => {x, y} \in crossed'
  <2>1. \A x, y \in Calls : x # y /\ x # h /\ y # h /\ InFlight(x)' /\ InFlight(y)' => {x, y} \in crossed
    BY <1>5 DEF CallsInv
  <2>2. crossed \subseteq crossed'
    BY <1>1 DEF Begins
  <2>3. QED
    BY <1>6, <2>1, <2>2
<1>8. \A x \in Calls : x \in DOMAIN call' <=> pc'[x] # "idle"
  BY <1>1, <1>2 DEF Begins, Others, CallsInv
<1>9. \A x \in DOMAIN call' :
        /\ InFlight(x)' => pc'[x] \in Places(Op(x)')
        /\ Op(x)' \in {"apply", "career"} => call'[x].id = x
  <2>1. \A x \in DOMAIN call :
          /\ InFlight(x)' => pc'[x] \in Places(Op(x))
          /\ Op(x) \in {"apply", "career"} => call'[x].id = x
    BY <1>2, <1>3 DEF CallsInv, InFlight
  <2>2. Op(h)' \in {"apply", "career"} => call'[h].id = h
    BY <1>1 DEF AskedWell, Op
  <2>3. \A x \in DOMAIN call : Places(Op(x)') = Places(Op(x))
    BY <1>3
  <2>4. QED
    BY <1>2, <1>3, <1>4, <2>1, <2>2, <2>3
<1>10. \A x \in Calls : cv'[x] # "none" => x \in DOMAIN call'
  BY <1>1, <1>2 DEF Begins, CallsInv
<1>11. CallsInv'
  BY <1>7, <1>8, <1>9, <1>10 DEF CallsInv, Op
<1>12. IsTable(call', Calls, Asked)
  <2>1. call' = Save(call, h, call'[h]) /\ call'[h] \in Asked
    BY <1>1 DEF AskedWell, Begins
  <2>2. IsTable(Save(call, h, call'[h]), Calls, Asked)
    BY <2>1 DEF TypeOK, Save, IsTable
  <2>3. QED
    BY <2>1, <2>2
<1>13. pc'[h] \in Steps
  BY <1>1 DEF FirstSteps, Steps, Posting, Hiring
<1>14. pc' \in [Calls -> Steps]
  <2>1. PICK to : pc' = [pc EXCEPT ![h] = to]
    BY StartGoes
  <2>2. QED
    BY <1>13, <2>1 DEF TypeOK
<1>15. QED
  BY <1>11, <1>12, <1>14

LEMMA CallsInvNext ==
    ASSUME TypeOK, CallsInv, [Next]_vars
    PROVE  CallsInv' /\ pc' \in [Calls -> Steps] /\ IsTable(call', Calls, Asked)
<1>1. ASSUME NEW h \in Calls, Start(h)
      PROVE  CallsInv' /\ pc' \in [Calls -> Steps] /\ IsTable(call', Calls, Asked)
  BY <1>1, BeginsCallsInv
<1>2. ASSUME NEW h \in Calls, Step(h)
      PROVE  CallsInv' /\ pc' \in [Calls -> Steps] /\ IsTable(call', Calls, Asked)
  <2>1. Moves(h)
    BY <1>2, StepMoves
  <2>2. \A x \in Calls : cv'[x] # "none" => x \in DOMAIN call
    <3>1. cv' = cv \/ \E s : cv' = [cv EXCEPT ![h] = s]
      BY <1>2, StepListens
    <3>2. QED
      BY <2>1, <3>1 DEF Moves, CallsInv, TypeOK
  <2>3. QED
    BY <1>2, <2>1, <2>2, StepPlace, MovesCallsInv DEF Moves, TypeOK
<1>3. ASSUME NEW h \in Calls, Abort(h)
      PROVE  CallsInv' /\ pc' \in [Calls -> Steps] /\ IsTable(call', Calls, Asked)
  <2>1. Moves(h) /\ ~InFlight(h)' /\ cv' = cv /\ pc' \in [Calls -> Steps]
    <3>1. pc' \in [Calls -> Steps]
      BY <1>3 DEF Abort, TypeOK, Steps
    <3>2. cv' = cv
      BY <1>3 DEF Abort, Own
    <3>3. QED
      BY <1>3, <3>1, <3>2, AbortMoves DEF InFlight
  <2>2. QED
    BY <2>1, MovesCallsInv DEF Moves, TypeOK, CallsInv
<1>4. ASSUME NEW h \in Calls, Summarise(h)
      PROVE  CallsInv' /\ pc' \in [Calls -> Steps] /\ IsTable(call', Calls, Asked)
  <2>1. Moves(h) /\ pc' = pc
    BY <1>4, SummariseMoves
  <2>2. \A x \in Calls : cv'[x] # "none" => x \in DOMAIN call
    <3>1. \E s : cv' = [cv EXCEPT ![h] = s]
      BY <1>4 DEF Summarise, CVLink, CVAsk, CVWrite, CVFails, Listen
    <3>2. QED
      BY <2>1, <3>1 DEF Moves, CallsInv, TypeOK
  <2>3. InFlight(h)' => pc'[h] \in Places(Op(h))
    BY <2>1 DEF InFlight, CallsInv, Moves
  <2>4. QED
    BY <2>1, <2>2, <2>3, MovesCallsInv DEF Moves, TypeOK
<1>5. CASE (\E k \in Ids : DeleteJob(k) \/ DeleteOffer(k)) \/ UNCHANGED vars
  <2>1. call' = call /\ pc' = pc /\ crossed' = crossed /\ cv' = cv
    BY <1>5 DEF DeleteJob, DeleteOffer, vars, history
  <2>2. \A x \in DOMAIN call : Op(x)' = Op(x) /\ (InFlight(x)' <=> InFlight(x))
    BY <2>1 DEF Op, InFlight
  <2>3. QED
    BY <2>1, <2>2 DEF CallsInv, TypeOK, InFlight, Op
<1>6. QED
  BY <1>1, <1>2, <1>3, <1>4, <1>5 DEF Next

-----------------------------------------------------------------------------
(* TypeOK is inductive.  First the tables, action by action.               *)
TablesOK ==
    /\ job \subseteq Ids /\ IsTable(candidate, Ids, CandidateRow)
    /\ IsTable(pool, Ids, SUBSET Ids) /\ IsTable(offer, Ids, OfferRow)
    /\ IsTable(staff, Calls, SUBSET Calls) /\ savedEmployee \in Calls \cup {None}

LocalsOK ==
    /\ held = [h \in Calls |-> held[h]]
    /\ emp \in [Calls -> Calls \cup {None}] /\ given \in [Calls -> Questions]
    /\ cv \in [Calls -> CvSteps]
    /\ \A h \in Calls : cv[h] \in {"ask", "write"} => given[h] \in Resumes

LEMMA SameTables ==
    ASSUME TypeOK, tables' = tables
    PROVE  TablesOK'
  BY DEF TypeOK, tables, TablesOK

LEMMA CandidateSaved ==
    ASSUME TypeOK, NEW h, NEW id \in Ids, NEW row \in CandidateRow, NEW from, NEW to,
           SaveCandidate(h, id, row, from, to)
    PROVE  IsTable(candidate', Ids, CandidateRow)
<1>1. IsTable(candidate, Ids, CandidateRow)
  BY DEF TypeOK
<1>2. IsTable(Save(candidate, id, row), Ids, CandidateRow)
  BY <1>1 DEF Save, IsTable
<1>3. candidate' = candidate \/ candidate' = Save(candidate, id, row)
  BY DEF SaveCandidate
<1>4. QED
  BY <1>1, <1>2, <1>3

LEMMA CandidateTables ==
    ASSUME TypeOK, CallsInv, HeldInv, NEW h \in Calls, PostSave(h) \/ PutSave(h) \/ DeleteRow(h) \/ HireSave(h)
    PROVE  TablesOK'
<1>1. h \in DOMAIN call /\ PlaceKind(h) /\ call[h] \in Asked
  <2>1. pc[h] # "idle"
    BY DEF PostSave, PutSave, DeleteRow, HireSave, Goto
  <2>2. QED
    BY <2>1, KindOfPlace DEF CallsInv
<1>2. call[h].id \in Ids
  BY <1>1, AskedFields
<1>3. IsTable(candidate', Ids, CandidateRow)
  <2>1. CASE PostSave(h)
    <3>1. /\ call[h].job \in Ids \cup {None} /\ call[h].resume \in Questions
      BY <1>1, <2>1, AskedFields DEF PostSave, PlaceKind, Posting, Op
    <3>2. NewCandidate(call[h].job, call[h].resume) \in CandidateRow
      BY <3>1, PostedRow
    <3>3. QED
      BY <2>1, <3>2, CandidateSaved DEF PostSave, Ids
  <2>2. CASE PutSave(h) \/ HireSave(h)
    <3>1. held[h][call[h].id] \in CandidateRow
      BY <1>1, <2>2 DEF HeldInv, PutSave, HireSave
    <3>2. QED
      BY <1>2, <2>2, <3>1, CandidateSaved DEF PutSave, HireSave
  <2>3. CASE DeleteRow(h)
    BY <2>3 DEF DeleteRow, TypeOK, Delete, IsTable
  <2>4. QED
    BY <2>1, <2>2, <2>3
<1>4. UNCHANGED <<job, pool, offer, staff, savedEmployee>>
  BY DEF PostSave, PutSave, DeleteRow, HireSave
<1>5. QED
  BY <1>3, <1>4 DEF TablesOK, TypeOK

LEMMA PoolTables ==
    ASSUME TypeOK, CallsInv, HeldInv, NEW h \in Calls,
           DeletePools(h) \/ PoolPost(h) \/ PoolSave(h) \/ MergeSave(h) \/ PoolDelete(h)
    PROVE  TablesOK'
<1>1. h \in DOMAIN call /\ PlaceKind(h) /\ call[h] \in Asked
  <2>1. pc[h] # "idle"
    BY DEF DeletePools, PoolPost, PoolSave, MergeSave, PoolDelete, Goto
  <2>2. QED
    BY <2>1, KindOfPlace DEF CallsInv
<1>2. IsTable(pool, Ids, SUBSET Ids)
  BY DEF TypeOK
<1>3. IsTable(pool', Ids, SUBSET Ids)
  <2>1. CASE DeletePools(h)
    <3>1. IsTable(held[h], Ids, SUBSET Ids)
      BY <1>1, <2>1 DEF DeletePools, HeldInv
    <3>2. PICK p \in DOMAIN held[h] : pool' = Save(pool, p, held[h][p])
      BY <2>1 DEF DeletePools
    <3>3. p \in Ids /\ held[h][p] \in SUBSET Ids
      BY <3>1, <3>2 DEF IsTable
    <3>4. QED
      BY <1>2, <3>2, <3>3 DEF Save, IsTable
  <2>2. CASE PoolPost(h)
    <3>1. h \in Ids /\ call[h].list \in SUBSET Ids
      BY <1>1, <2>2, AskedFields DEF PoolPost, Goto, PlaceKind, Op, Ids
    <3>2. QED
      BY <1>2, <2>2, <3>1 DEF PoolPost, Save, IsTable
  <2>3. CASE PoolSave(h) \/ MergeSave(h)
    <3>1. IsTable(held[h], Ids, SUBSET Ids)
      BY <1>1, <2>3 DEF PoolSave, MergeSave, Goto, HeldInv
    <3>2. QED
      BY <1>2, <2>3, <3>1 DEF PoolSave, MergeSave, SaveAll, IsTable
  <2>4. CASE PoolDelete(h)
    BY <1>2, <2>4 DEF PoolDelete, Delete, IsTable
  <2>5. QED
    BY <2>1, <2>2, <2>3, <2>4
<1>4. UNCHANGED <<job, candidate, offer, staff, savedEmployee>>
  BY DEF DeletePools, PoolPost, PoolSave, MergeSave, PoolDelete
<1>5. QED
  BY <1>3, <1>4 DEF TablesOK, TypeOK

LEMMA OtherTables ==
    ASSUME TypeOK, CallsInv, HeldInv, HireInv, NEW h \in Calls,
           JobPost(h) \/ JobSave(h) \/ OfferPost(h) \/ OfferSave(h) \/ HireInsert(h) \/ HireResume(h)
           \/ JobInfoSave(h)
    PROVE  TablesOK'
<1>1. h \in DOMAIN call /\ PlaceKind(h) /\ call[h] \in Asked /\ call[h].id \in Ids
  <2>1. pc[h] # "idle"
    BY DEF JobPost, JobSave, OfferPost, OfferSave, HireInsert, HireResume, JobInfoSave, Goto
  <2>2. QED
    BY <2>1, KindOfPlace, AskedFields DEF CallsInv
<1>2. CASE JobPost(h)
  BY <1>2 DEF JobPost, TablesOK, TypeOK, Ids
<1>3. CASE JobSave(h)
  <2>1. IsTable(candidate', Ids, CandidateRow) /\ job' \subseteq Ids
    BY <1>1, <1>3, ListedRows DEF JobSave, TypeOK
  <2>2. QED
    BY <1>3, <2>1 DEF JobSave, TablesOK, TypeOK
<1>4. CASE OfferPost(h)
  <2> DEFINE o == [cand |-> call[h].id, accept |-> None]
  <2>1. o \in OfferRow /\ offer' = Save(offer, h, o)
    BY <1>1, <1>4 DEF OfferPost, OfferRow, Answers
  <2> HIDE DEF o
  <2>2. IsTable(offer', Ids, OfferRow)
    BY <2>1 DEF TypeOK, Ids, Save, IsTable
  <2>3. QED
    BY <1>4, <2>2 DEF OfferPost, TablesOK, TypeOK
<1>5. CASE OfferSave(h)
  <2>1. DOMAIN held[h] = {call[h].id} /\ held[h][call[h].id] \in OfferRow
    BY <1>1, <1>5 DEF OfferSave, Goto, HeldInv
  <2>2. IsTable(offer', Ids, OfferRow)
    BY <1>1, <1>5, <2>1 DEF OfferSave, SaveAll, TypeOK, IsTable
  <2>3. QED
    BY <1>5, <2>2 DEF OfferSave, TablesOK, TypeOK
<1>6. CASE HireInsert(h)
  <2>1. IsTable(staff', Calls, SUBSET Calls)
    BY <1>6 DEF HireInsert, TypeOK, Save, IsTable
  <2>2. QED
    BY <1>6, <2>1 DEF HireInsert, TablesOK, TypeOK
<1>7. CASE HireResume(h)
  BY <1>7 DEF HireResume, TablesOK, TypeOK
<1>8. CASE JobInfoSave(h)
  <2>1. DOMAIN held[h] = {emp[h]} /\ held[h][emp[h]] \in SUBSET Calls /\ emp[h] \in Calls
    <3>1. pc[h] = "job_info_save"
      BY <1>8 DEF JobInfoSave, Goto
    <3>2. DOMAIN held[h] = {emp[h]} /\ held[h][emp[h]] \in SUBSET Calls
      BY <1>1, <3>1 DEF HeldInv
    <3>3. emp[h] \in DOMAIN staff
      BY <1>1, <3>1 DEF HireInv, EmployeeInv
    <3>4. QED
      BY <3>2, <3>3 DEF TypeOK, IsTable
  <2>2. IsTable(SaveAll(staff, held[h]), Calls, SUBSET Calls)
    BY <2>1 DEF SaveAll, TypeOK, IsTable
  <2>3. QED
    BY <1>8, <2>2 DEF JobInfoSave, TablesOK, TypeOK
<1>9. QED
  BY <1>2, <1>3, <1>4, <1>5, <1>6, <1>7, <1>8

(* Which steps change a table, and which table.                            *)
Changes(h) ==
    \/ PostSave(h) \/ PutSave(h) \/ DeleteRow(h) \/ HireSave(h)
    \/ DeletePools(h) \/ PoolPost(h) \/ PoolSave(h) \/ MergeSave(h) \/ PoolDelete(h)
    \/ JobPost(h) \/ JobSave(h) \/ OfferPost(h) \/ OfferSave(h)
    \/ HireInsert(h) \/ HireResume(h) \/ JobInfoSave(h)

LEMMA StepChanges ==
    ASSUME NEW h \in Calls, Step(h)
    PROVE  tables' = tables \/ Changes(h)
<1>1. CASE PostLookup(h) \/ PostEmit(h) \/ PostMail(h) \/ SummaryRead(h) \/ SummaryDone(h)
           \/ JobRead(h) \/ HireAnswer(h) \/ JobInfo(h)
  BY <1>1 DEF PostLookup, PostEmit, PostMail, SummaryRead, SummaryDone, JobRead, HireAnswer, JobInfo, Own
<1>2. CASE PutRead(h) \/ HireRead(h)
  BY <1>2, ReadKeeps DEF PutRead, HireRead
<1>3. CASE DeleteRead(h) \/ PoolRead(h) \/ MergeRead(h) \/ MergeInto(h) \/ OfferRead(h)
  BY <1>3 DEF DeleteRead, PoolRead, MergeRead, MergeInto, OfferRead, Read, Own
<1>4. QED
  BY <1>1, <1>2, <1>3 DEF Step, Changes

LEMMA StepTables ==
    ASSUME TypeOK, CallsInv, HeldInv, HireInv, NEW h \in Calls, Step(h)
    PROVE  TablesOK'
  BY StepChanges, SameTables, CandidateTables, PoolTables, OtherTables DEF Changes

(* What a step does to the rows a call holds and the employee it was told. *)
LEMMA StepHolds ==
    ASSUME NEW h \in Calls, Step(h)
    PROVE  /\ held' = held \/ \E rows : held' = [held EXCEPT ![h] = rows]
           /\ emp' = emp \/ emp' = [emp EXCEPT ![h] = savedEmployee]
<1> USE DEF Read, Hold, Forget, Own, locals
<1>1. CASE PostLookup(h) \/ PostSave(h) \/ PostEmit(h) \/ PostMail(h) \/ SummaryRead(h)
           \/ SummaryDone(h) \/ PutSave(h)
  BY <1>1 DEF PostLookup, PostSave, PostEmit, PostMail, SummaryRead, SummaryDone, PutSave
<1>2. CASE PutRead(h) \/ HireRead(h)
  BY <1>2, ReadHolds DEF PutRead, HireRead
<1>3. CASE DeleteRead(h) \/ DeletePools(h) \/ DeleteRow(h) \/ JobPost(h) \/ JobRead(h) \/ JobSave(h)
  BY <1>3 DEF DeleteRead, DeletePools, DeleteRow, JobPost, JobRead, JobSave
<1>4. CASE PoolPost(h) \/ PoolRead(h) \/ PoolSave(h) \/ MergeRead(h) \/ MergeInto(h) \/ MergeSave(h)
           \/ PoolDelete(h)
  BY <1>4 DEF PoolPost, PoolRead, PoolSave, MergeRead, MergeInto, MergeSave, PoolDelete
<1>5. CASE OfferPost(h) \/ OfferRead(h) \/ OfferSave(h) \/ HireInsert(h) \/ HireResume(h) \/ HireAnswer(h)
  BY <1>5 DEF OfferPost, OfferRead, OfferSave, HireInsert, HireResume, HireAnswer
<1>6. CASE HireSave(h) \/ JobInfo(h) \/ JobInfoSave(h)
  BY <1>6 DEF HireSave, JobInfo, JobInfoSave
<1>7. QED
  BY <1>1, <1>2, <1>3, <1>4, <1>5, <1>6 DEF Step

LEMMA SummariseTypes ==
    ASSUME TypeOK, NEW h \in Calls, Summarise(h)
    PROVE  TablesOK' /\ LocalsOK'
<1>1. IsTable(candidate', Ids, CandidateRow)
  <2>1. candidate' = candidate \/ \E summary \in Resumes \cup {None} : Write(h, summary)
    BY DEF Summarise, CVLink, CVAsk, CVWrite, CVFails, TypeOK
  <2>2. QED
    BY <2>1, WrittenRow DEF TypeOK
<1>2. /\ cv' \in [Calls -> CvSteps]
      /\ \A x \in Calls : cv'[x] \in {"ask", "write"} => given[x] \in Resumes
  BY DEF Summarise, CVLink, CVAsk, CVWrite, CVFails, Listen, TypeOK, CvSteps, Listening
<1>3. UNCHANGED <<job, pool, offer, staff, savedEmployee, locals>>
  BY DEF Summarise, CVLink, CVAsk, CVWrite, CVFails, Listen
<1>4. QED
  BY <1>1, <1>2, <1>3 DEF locals, TypeOK, TablesOK, LocalsOK

LEMMA StepHears ==
    ASSUME NEW h \in Calls, Step(h), ~PostEmit(h), ~SummaryRead(h)
    PROVE  given' = given /\ cv' = cv
<1> USE DEF Own, Read, locals, Forget, Hold
<1>1. CASE PostLookup(h) \/ PostSave(h) \/ PostMail(h) \/ SummaryDone(h) \/ PutSave(h)
           \/ DeleteRead(h) \/ DeletePools(h) \/ DeleteRow(h)
  BY <1>1 DEF PostLookup, PostSave, PostMail, SummaryDone, PutSave, DeleteRead, DeletePools, DeleteRow
<1>2. CASE JobPost(h) \/ JobRead(h) \/ JobSave(h) \/ PoolPost(h) \/ PoolRead(h) \/ PoolSave(h)
           \/ MergeRead(h) \/ MergeInto(h) \/ MergeSave(h) \/ PoolDelete(h)
  BY <1>2 DEF JobPost, JobRead, JobSave, PoolPost, PoolRead, PoolSave, MergeRead, MergeInto,
     MergeSave, PoolDelete
<1>3. CASE OfferPost(h) \/ OfferRead(h) \/ OfferSave(h) \/ HireInsert(h) \/ HireResume(h)
           \/ HireAnswer(h) \/ HireSave(h) \/ JobInfo(h) \/ JobInfoSave(h)
  BY <1>3 DEF OfferPost, OfferRead, OfferSave, HireInsert, HireResume, HireAnswer, HireSave,
     JobInfo, JobInfoSave
<1>4. CASE PutRead(h) \/ HireRead(h)
  BY <1>4, ReadKeeps DEF PutRead, HireRead
<1>5. QED
  BY <1>1, <1>2, <1>3, <1>4 DEF Step

LEMMA StepLocals ==
    ASSUME TypeOK, CallsInv, NEW h \in Calls, Step(h)
    PROVE  LocalsOK'
<1>0. h \in DOMAIN call /\ call[h] \in Asked /\ PlaceKind(h)
  BY StepMoves, KindOfPlace DEF Moves
<1>1. /\ given' \in [Calls -> Questions] /\ cv' \in [Calls -> CvSteps]
      /\ \A x \in Calls : cv'[x] \in {"ask", "write"} => given'[x] \in Resumes
  <2>1. CASE PostEmit(h)
    <3>1. call[h].resume \in Questions
      BY <1>0, <2>1, AskedFields DEF PostEmit, Goto, PlaceKind, Op
    <3>2. QED
      BY <2>1, <3>1 DEF PostEmit, TypeOK, CvSteps, Listening
  <2>2. CASE SummaryRead(h)
    <3>1. call[h].id \in DOMAIN candidate => candidate[call[h].id].resume \in Questions
      BY DEF TypeOK, IsTable, CandidateRow
    <3>2. QED
      BY <2>2, <3>1 DEF SummaryRead, TypeOK, CvSteps, Listening
  <2>3. CASE ~(PostEmit(h) \/ SummaryRead(h))
    <3>1. given' = given /\ cv' = cv
      BY <2>3, StepHears
    <3>2. QED
      BY <3>1 DEF TypeOK
  <2>4. QED
    BY <2>1, <2>2, <2>3
<1>2. emp' \in [Calls -> Calls \cup {None}]
  <2>1. emp' = emp \/ emp' = [emp EXCEPT ![h] = savedEmployee]
    BY StepHolds
  <2>2. QED
    BY <2>1 DEF TypeOK
<1>3. held' = [x \in Calls |-> held'[x]]
  <2>1. held' = held \/ \E rows : held' = [held EXCEPT ![h] = rows]
    BY StepHolds
  <2>2. QED
    BY <2>1 DEF TypeOK
<1>4. QED
  BY <1>1, <1>2, <1>3 DEF LocalsOK

LEMMA TypeNext ==
    ASSUME TypeOK, CallsInv, HeldInv, HireInv, [Next]_vars
    PROVE  TypeOK'
<1>1. pc' \in [Calls -> Steps] /\ IsTable(call', Calls, Asked)
  BY CallsInvNext
<1> DEFINE HistoryOK == crossed \subseteq {{h, x} : h, x \in Calls} /\ cascaded \subseteq Ids
<1>2. HistoryOK'
  <2>1. ASSUME NEW h \in Calls, Start(h) PROVE HistoryOK'
    BY <2>1, StartBegins DEF Begins, TypeOK
  <2>2. ASSUME NEW h \in Calls, Step(h) \/ Abort(h) \/ Summarise(h) PROVE HistoryOK'
    BY <2>2, StepMoves, AbortMoves, SummariseMoves DEF Moves, history, TypeOK
  <2>3. ASSUME NEW k \in Ids, DeleteJob(k) PROVE HistoryOK'
    BY <2>3 DEF DeleteJob, AppliedFor, TypeOK, IsTable
  <2>4. CASE (\E k \in Ids : DeleteOffer(k)) \/ UNCHANGED vars
    BY <2>4 DEF DeleteOffer, vars, history, TypeOK
  <2>5. QED
    BY <2>1, <2>2, <2>3, <2>4 DEF Next
<1>3. TablesOK' /\ LocalsOK'
  <2>1. ASSUME NEW h \in Calls, Start(h) PROVE TablesOK' /\ LocalsOK'
    <3>1. UNCHANGED <<tables, locals, cv>>
      BY <2>1, StartBegins DEF Begins
    <3>2. QED
      BY <3>1 DEF TypeOK, tables, locals, TablesOK, LocalsOK
  <2>2. ASSUME NEW h \in Calls, Step(h) PROVE TablesOK' /\ LocalsOK'
    BY <2>2, StepTables, StepLocals
  <2>3. ASSUME NEW h \in Calls, Abort(h) PROVE TablesOK' /\ LocalsOK'
    <3>1. TablesOK'
      BY <2>3, AbortMoves, SameTables
    <3>2. LocalsOK'
      <4>1. held' = [held EXCEPT ![h] = NoRows] /\ emp' = emp /\ given' = given /\ cv' = cv
        BY <2>3 DEF Abort, Forget, Hold, Own
      <4>2. QED
        BY <4>1 DEF TypeOK, LocalsOK
    <3>3. QED
      BY <3>1, <3>2
  <2>4. ASSUME NEW h \in Calls, Summarise(h) PROVE TablesOK' /\ LocalsOK'
    BY <2>4, SummariseTypes
  <2>5. ASSUME NEW k \in Ids, DeleteJob(k) PROVE TablesOK' /\ LocalsOK'
    <3>1. IsTable(candidate', Ids, CandidateRow) /\ job' \subseteq Ids
      BY <2>5 DEF DeleteJob, TypeOK, IsTable
    <3>2. QED
      BY <2>5, <3>1 DEF DeleteJob, TypeOK, locals, TablesOK, LocalsOK
  <2>6. ASSUME NEW k \in Ids, DeleteOffer(k) PROVE TablesOK' /\ LocalsOK'
    <3>1. IsTable(offer', Ids, OfferRow)
      BY <2>6 DEF DeleteOffer, TypeOK, Delete, IsTable
    <3>2. QED
      BY <2>6, <3>1 DEF DeleteOffer, TypeOK, locals, TablesOK, LocalsOK
  <2>7. CASE UNCHANGED vars
    BY <2>7 DEF vars, tables, locals, TypeOK, TablesOK, LocalsOK
  <2>8. QED
    BY <2>1, <2>2, <2>3, <2>4, <2>5, <2>6, <2>7 DEF Next
<1>4. QED
  BY <1>1, <1>2, <1>3 DEF TypeOK, TablesOK, LocalsOK

-----------------------------------------------------------------------------
(* How a call has come to where it is: it has not moved, or by its step.   *)
Same(x) == pc'[x] = pc[x] /\ held'[x] = held[x] /\ emp'[x] = emp[x]

Enters(x) ==
    /\ pc'[x] \in {"post_lookup", "post_save"} => pc[x] \in {"post_lookup", "post_save"}
    /\ pc'[x] = "post_emit" => Same(x) \/ PostSave(x)
    /\ pc'[x] = "offer_post" => pc[x] = "offer_post"
    /\ pc'[x] = "put_save" => Same(x) \/ PutRead(x)
    /\ pc'[x] \in {"delete_pools", "delete"} => Same(x) \/ DeleteRead(x) \/ DeletePools(x)
    /\ pc'[x] = "pool_save" => Same(x) \/ PoolRead(x)
    /\ pc'[x] = "merge_into" => Same(x) \/ MergeRead(x)
    /\ pc'[x] = "merge_save" => Same(x) \/ MergeInto(x)
    /\ pc'[x] = "offer_save" => Same(x) \/ OfferRead(x)
    /\ pc'[x] = "hire_insert" => Same(x)
    /\ pc'[x] = "hire_resume" => Same(x) \/ HireInsert(x)
    /\ pc'[x] = "hire_answer" => Same(x) \/ HireResume(x)
    /\ pc'[x] = "hire_read" => Same(x) \/ HireAnswer(x)
    /\ pc'[x] = "hire_save" => Same(x) \/ HireRead(x)
    /\ pc'[x] = "job_info" => Same(x) \/ HireSave(x)
    /\ pc'[x] = "job_info_save" => Same(x) \/ JobInfo(x)
    /\ pc'[x] = "done" /\ Op(x) = "hire" => Same(x) \/ JobInfoSave(x)
    /\ pc'[x] = "done" /\ Op(x) = "answer" => Same(x) \/ OfferSave(x)

LEMMA StepEnters ==
    ASSUME TypeOK, CallsInv, NEW x \in Calls, Step(x)
    PROVE  Enters(x)
<1>1. x \in DOMAIN call /\ PlaceKind(x) /\ pc \in [Calls -> Steps]
  BY StepMoves, KindOfPlace DEF Moves, TypeOK
<1> USE <1>1 DEF PlaceKind, Posting, Hiring, Enters, Same, Goto
<1>2. CASE PostLookup(x) \/ PostSave(x) \/ PostEmit(x) \/ PostMail(x)
  BY <1>2 DEF PostLookup, PostSave, PostEmit, PostMail, SaveCandidate
<1>3. CASE SummaryRead(x) \/ SummaryDone(x) \/ PutSave(x)
  BY <1>3 DEF SummaryRead, SummaryDone, PutSave, SaveCandidate
<1>4. CASE PutRead(x) \/ HireRead(x)
  <2>1. CASE PutRead(x)
    BY <2>1, ReadPlace DEF PutRead
  <2>2. CASE HireRead(x)
    BY <2>2, ReadPlace DEF HireRead
  <2>3. QED
    BY <1>4, <2>1, <2>2
<1>5. CASE DeleteRead(x) \/ DeletePools(x) \/ DeleteRow(x)
  <2>1. CASE DeleteRead(x)
    BY <2>1 DEF DeleteRead, Read
  <2>2. CASE DeletePools(x)
    BY <2>2 DEF DeletePools
  <2>3. CASE DeleteRow(x)
    BY <2>3 DEF DeleteRow
  <2>4. QED
    BY <1>5, <2>1, <2>2, <2>3
<1>6. CASE JobPost(x) \/ JobRead(x) \/ JobSave(x)
  BY <1>6 DEF JobPost, JobRead, JobSave
<1>7. CASE PoolPost(x) \/ PoolSave(x) \/ MergeSave(x) \/ PoolDelete(x)
  BY <1>7 DEF PoolPost, PoolSave, MergeSave, PoolDelete
<1>8. CASE PoolRead(x) \/ MergeRead(x) \/ MergeInto(x) \/ OfferRead(x)
  <2>1. CASE PoolRead(x)
    BY <2>1, ReadPlace DEF PoolRead
  <2>2. CASE MergeRead(x)
    BY <2>2 DEF MergeRead, Read
  <2>3. CASE MergeInto(x)
    BY <2>3, ReadPlace DEF MergeInto
  <2>4. CASE OfferRead(x)
    BY <2>4 DEF OfferRead, Read
  <2>5. QED
    BY <1>8, <2>1, <2>2, <2>3, <2>4
<1>9. CASE OfferPost(x) \/ OfferSave(x)
  BY <1>9 DEF OfferPost, OfferSave
<1>10. CASE HireInsert(x) \/ HireResume(x) \/ HireAnswer(x) \/ HireSave(x) \/ JobInfo(x) \/ JobInfoSave(x)
  BY <1>10 DEF HireInsert, HireResume, HireAnswer, HireSave, SaveCandidate, JobInfo, JobInfoSave
<1>11. QED
  BY <1>2, <1>3, <1>4, <1>5, <1>6, <1>7, <1>8, <1>9, <1>10 DEF Step

LEMMA NextEnters ==
    ASSUME TypeOK, CallsInv, [Next]_vars, NEW x \in DOMAIN call
    PROVE  Enters(x) /\ (InFlight(x)' => InFlight(x)) /\ x \in Calls
<1>1. x \in Calls
  BY DEF TypeOK, IsTable
<1>2. ASSUME Same(x) PROVE Enters(x) /\ (InFlight(x)' => InFlight(x))
  BY <1>2 DEF Enters, Same, InFlight
<1>3. ASSUME NEW h \in Calls, Start(h) PROVE Enters(x) /\ (InFlight(x)' => InFlight(x))
  BY <1>1, <1>2, <1>3, StartBegins DEF Begins, Others, Same
<1>4. ASSUME NEW h \in Calls, Step(h) PROVE Enters(x) /\ (InFlight(x)' => InFlight(x))
  <2>1. x # h => Same(x)
    BY <1>1, <1>4, StepMoves DEF Moves, Others, Same
  <2>2. x = h => Enters(x) /\ (InFlight(x)' => InFlight(x))
    BY <1>4, StepEnters, StepMoves
  <2>3. QED
    BY <1>2, <2>1, <2>2
<1>5. ASSUME NEW h \in Calls, Abort(h) PROVE Enters(x) /\ (InFlight(x)' => InFlight(x))
  <2>1. x # h => Same(x)
    BY <1>1, <1>5, AbortMoves DEF Moves, Others, Same
  <2>2. x = h => pc'[x] = "failed"
    BY <1>5, AbortMoves
  <2>3. QED
    BY <1>2, <2>1, <2>2 DEF Enters, InFlight
<1>6. ASSUME NEW h \in Calls, Summarise(h) PROVE Enters(x) /\ (InFlight(x)' => InFlight(x))
  BY <1>2, <1>6, SummariseMoves DEF Same
<1>7. CASE (\E k \in Ids : DeleteJob(k) \/ DeleteOffer(k)) \/ UNCHANGED vars
  <2>1. pc' = pc /\ held' = held /\ emp' = emp
    BY <1>7 DEF DeleteJob, DeleteOffer, locals, vars
  <2>2. Same(x)
    BY <2>1 DEF Same
  <2>3. QED
    BY <1>1, <1>2, <2>2
<1>8. QED
  BY <1>1, <1>3, <1>4, <1>5, <1>6, <1>7 DEF Next

-----------------------------------------------------------------------------
(* What only grows.                                                        *)
Grows ==
    /\ DOMAIN call \subseteq DOMAIN call' /\ \A x \in DOMAIN call : call'[x] = call[x]
    /\ crossed \subseteq crossed' /\ cascaded \subseteq cascaded'

(* A call that begins in this step.                                        *)
Fresh(h) ==
    /\ h \in Calls \ DOMAIN call /\ UNCHANGED <<tables, locals, cascaded>> /\ Others(h)
    /\ AskedWell(h, call'[h]) /\ FirstSteps(call'[h], pc'[h])

LEMMA NextGrows ==
    ASSUME TypeOK, CallsInv, [Next]_vars
    PROVE  Grows /\ \A h \in DOMAIN call' \ DOMAIN call : Fresh(h)
<1>1. ASSUME NEW h \in Calls, Start(h)
      PROVE  Grows /\ \A x \in DOMAIN call' \ DOMAIN call : Fresh(x)
  <2>1. Begins(h) /\ AskedWell(h, call'[h]) /\ FirstSteps(call'[h], pc'[h])
    BY <1>1, StartBegins
  <2>2. DOMAIN call' = DOMAIN call \cup {h} /\ \A x \in DOMAIN call : call'[x] = call[x]
    BY <2>1 DEF Begins, Save
  <2>3. QED
    BY <2>1, <2>2 DEF Begins, Grows, Fresh
<1>2. ASSUME NEW h \in Calls, Step(h) \/ Abort(h) \/ Summarise(h)
      PROVE  Grows /\ DOMAIN call' = DOMAIN call
  BY <1>2, StepMoves, AbortMoves, SummariseMoves DEF Moves, history, Grows
<1>3. CASE (\E k \in Ids : DeleteJob(k) \/ DeleteOffer(k)) \/ UNCHANGED vars
  <2>1. Grows /\ DOMAIN call' = DOMAIN call
    BY <1>3 DEF DeleteJob, DeleteOffer, history, vars, Grows
  <2>2. QED
    BY <2>1
<1>4. QED
  BY <1>1, <1>2, <1>3 DEF Next

LEMMA CrossedGrows ==
    ASSUME Grows, NEW h, NEW ops, Crossed(h, ops)
    PROVE  Crossed(h, ops)'
<1>1. PICK x \in DOMAIN call \ {h} : {h, x} \in crossed /\ Op(x) \in ops
  BY DEF Crossed
<1>2. x \in DOMAIN call' /\ {h, x} \in crossed' /\ Op(x)' \in ops
  BY <1>1 DEF Grows, Op
<1>3. QED
  BY <1>1, <1>2 DEF Crossed

LEMMA AboutGrows ==
    ASSUME Grows, NEW ops, NEW id
    PROVE  About(ops, id) \subseteq About(ops, id)'
  BY DEF Grows, About, Op

LEMMA MovedGrows ==
    ASSUME Grows, NEW c, Moved(c)
    PROVE  Moved(c)'
<1>1. CASE \E u \in About({"update"}, c) : call[u].job # None
  <2>1. PICK u \in About({"update"}, c) : call[u].job # None
    BY <1>1
  <2>2. u \in About({"update"}, c)' /\ call'[u].job # None
    BY <2>1, AboutGrows DEF About, Grows
  <2>3. QED
    BY <2>2 DEF Moved
<1>2. CASE c \in Calls /\ Crossed(c, {"job_put"})
  BY <1>2, CrossedGrows DEF Moved
<1>3. CASE /\ c \in cascaded \/ About({"delete"}, c) # {}
           /\ \E x \in About({"update", "hire"}, c) : Crossed(x, {"job_put"})
  <2>1. PICK x \in About({"update", "hire"}, c) : Crossed(x, {"job_put"})
    BY <1>3
  <2>2. x \in About({"update", "hire"}, c)' /\ Crossed(x, {"job_put"})'
    BY <2>1, AboutGrows, CrossedGrows
  <2>3. c \in cascaded' \/ About({"delete"}, c)' # {}
    BY <1>3, AboutGrows DEF Grows
  <2>4. QED
    BY <2>2, <2>3 DEF Moved
<1>4. QED
  BY <1>1, <1>2, <1>3 DEF Moved

LEMMA PostedGrows ==
    ASSUME TypeOK, CallsInv, [Next]_vars, NEW c, Posted(c)
    PROVE  Posted(c)' /\ AppliedTo(c)' = AppliedTo(c)
<1>1. Grows
  BY NextGrows
<1>2. CASE c \in Known
  BY <1>2 DEF Posted, AppliedTo
<1>3. CASE c \notin Known
  BY <1>1, <1>3, NextEnters DEF Posted, AppliedTo, Enters, Grows, Op
<1>4. QED
  BY <1>2, <1>3

LEMMA OfferedGrows ==
    ASSUME TypeOK, CallsInv, [Next]_vars, NEW o, Offered(o)
    PROVE  Offered(o)'
  BY NextGrows, NextEnters DEF Offered, Enters, Grows, Op

(* Two calls in flight together have crossed.                              *)
LEMMA FlightsCross ==
    ASSUME TypeOK, CallsInv, NEW h \in DOMAIN call, NEW x \in DOMAIN call, h # x,
           InFlight(h), InFlight(x), NEW ops, Op(x) \in ops
    PROVE  Crossed(h, ops)
<1>1. {h, x} \in crossed
  BY DEF CallsInv, TypeOK, IsTable
<1>2. QED
  BY <1>1 DEF Crossed

-----------------------------------------------------------------------------
(* Which steps change what is stored.                                      *)
LEMMA NextChanges ==
    ASSUME TypeOK, CallsInv, [Next]_vars
    PROVE  \/ tables' = tables
           \/ \E h \in Calls : Changes(h) \/ Summarise(h)
           \/ \E k \in Ids : DeleteJob(k) \/ DeleteOffer(k)
<1>1. ASSUME NEW h \in Calls, Start(h) PROVE tables' = tables
  BY <1>1, StartBegins DEF Begins
<1>2. ASSUME NEW h \in Calls, Abort(h) PROVE tables' = tables
  BY <1>2, AbortMoves
<1>3. CASE UNCHANGED vars
  BY <1>3 DEF vars
<1>4. QED
  BY <1>1, <1>2, <1>3, StepChanges DEF Next

LEMMA SummariseStores ==
    ASSUME TypeOK, NEW h \in Calls, Summarise(h)
    PROVE  /\ UNCHANGED <<job, pool, offer, staff, savedEmployee>>
           /\ DOMAIN candidate' = DOMAIN candidate
           /\ \A c \in DOMAIN candidate :
                candidate'[c].job = candidate[c].job /\ candidate'[c].activities = candidate[c].activities
<1>1. candidate' = candidate \/ \E summary \in Resumes \cup {None} : Write(h, summary)
  BY DEF Summarise, CVLink, CVAsk, CVWrite, CVFails, TypeOK
<1>2. UNCHANGED <<job, pool, offer, staff, savedEmployee>>
  BY DEF Summarise, CVLink, CVAsk, CVWrite, CVFails, Listen
<1>3. QED
  BY <1>1, <1>2, WrittenRow

RowsKept ==
    \A c \in DOMAIN candidate' :
      /\ c \in DOMAIN candidate
      /\ candidate'[c].job = candidate[c].job /\ candidate'[c].activities = candidate[c].activities

LEMMA CandidateSteps ==
    ASSUME TypeOK, CallsInv, [Next]_vars
    PROVE  RowsKept \/ \E h \in Calls : PostSave(h) \/ PutSave(h) \/ HireSave(h) \/ JobSave(h)
<1>1. CASE tables' = tables
  BY <1>1 DEF tables, RowsKept
<1>2. ASSUME NEW h \in Calls, Changes(h), ~(PostSave(h) \/ PutSave(h) \/ HireSave(h) \/ JobSave(h))
      PROVE  RowsKept
  <2>1. CASE DeleteRow(h)
    BY <2>1 DEF DeleteRow, Delete, RowsKept
  <2>2. CASE ~DeleteRow(h)
    <3>1. candidate' = candidate
      BY <1>2, <2>2 DEF Changes, DeletePools, PoolPost, PoolSave, MergeSave, PoolDelete, JobPost,
         OfferPost, OfferSave, HireInsert, HireResume, JobInfoSave
    <3>2. QED
      BY <3>1 DEF RowsKept
  <2>3. QED
    BY <2>1, <2>2
<1>3. ASSUME NEW h \in Calls, Summarise(h) PROVE RowsKept
  BY <1>3, SummariseStores DEF RowsKept
<1>4. ASSUME NEW k \in Ids, DeleteJob(k) \/ DeleteOffer(k) PROVE RowsKept
  BY <1>4 DEF DeleteJob, DeleteOffer, RowsKept
<1>5. QED
  BY <1>1, <1>2, <1>3, <1>4, NextChanges

LEMMA CandidateLost ==
    ASSUME TypeOK, CallsInv, HeldInv, [Next]_vars, NEW c \in DOMAIN candidate,
           c \notin DOMAIN candidate' \cup cascaded'
    PROVE  \E h \in Calls : DeleteRow(h) /\ c = call[h].id
<1>1. CASE tables' = tables
  BY <1>1 DEF tables
<1>2. ASSUME NEW h \in Calls, Changes(h)
      PROVE  DeleteRow(h) /\ c = call[h].id
  <2>1. CASE PostSave(h) \/ PutSave(h) \/ HireSave(h)
    BY <2>1 DEF PostSave, PutSave, HireSave, SaveCandidate, Save
  <2>2. CASE JobSave(h)
    BY <2>2 DEF JobSave, Listed
  <2>3. CASE DeleteRow(h)
    BY <2>3 DEF DeleteRow, Delete
  <2>4. CASE ~(PostSave(h) \/ PutSave(h) \/ HireSave(h) \/ JobSave(h) \/ DeleteRow(h))
    BY <1>2, <2>4 DEF Changes, DeletePools, PoolPost, PoolSave, MergeSave, PoolDelete, JobPost,
       OfferPost, OfferSave, HireInsert, HireResume, JobInfoSave
  <2>5. QED
    BY <2>1, <2>2, <2>3, <2>4
<1>3. ASSUME NEW h \in Calls, Summarise(h) PROVE FALSE
  BY <1>3, SummariseStores
<1>4. ASSUME NEW k \in Ids, DeleteJob(k) \/ DeleteOffer(k) PROVE FALSE
  BY <1>4 DEF DeleteJob, DeleteOffer
<1>5. QED
  BY <1>1, <1>2, <1>3, <1>4, NextChanges

LEMMA PoolSteps ==
    ASSUME TypeOK, CallsInv, [Next]_vars
    PROVE  \/ pool' = pool
           \/ \E h \in Calls :
                DeletePools(h) \/ PoolPost(h) \/ PoolSave(h) \/ MergeSave(h) \/ PoolDelete(h)
<1>1. ASSUME NEW h \in Calls, Changes(h),
             ~(DeletePools(h) \/ PoolPost(h) \/ PoolSave(h) \/ MergeSave(h) \/ PoolDelete(h))
      PROVE  pool' = pool
  BY <1>1 DEF Changes, PostSave, PutSave, DeleteRow, HireSave, JobPost, JobSave, OfferPost, OfferSave,
     HireInsert, HireResume, JobInfoSave
<1>2. ASSUME NEW h \in Calls, Summarise(h) PROVE pool' = pool
  BY <1>2, SummariseStores
<1>3. ASSUME NEW k \in Ids, DeleteJob(k) \/ DeleteOffer(k) PROVE pool' = pool
  BY <1>3 DEF DeleteJob, DeleteOffer
<1>4. CASE tables' = tables
  BY <1>4 DEF tables
<1>5. QED
  BY <1>1, <1>2, <1>3, <1>4, NextChanges

LEMMA OfferSteps ==
    ASSUME TypeOK, CallsInv, [Next]_vars
    PROVE  \/ \A o \in DOMAIN offer' : o \in DOMAIN offer /\ offer'[o] = offer[o]
           \/ \E h \in Calls : OfferPost(h) \/ OfferSave(h)
<1>1. ASSUME NEW h \in Calls, Changes(h), ~(OfferPost(h) \/ OfferSave(h))
      PROVE  offer' = offer
  BY <1>1 DEF Changes, PostSave, PutSave, DeleteRow, HireSave, JobPost, JobSave, DeletePools, PoolPost,
     PoolSave, MergeSave, PoolDelete, HireInsert, HireResume, JobInfoSave
<1>2. ASSUME NEW h \in Calls, Summarise(h) PROVE offer' = offer
  BY <1>2, SummariseStores
<1>3. ASSUME NEW k \in Ids, DeleteJob(k) \/ DeleteOffer(k)
      PROVE  \A o \in DOMAIN offer' : o \in DOMAIN offer /\ offer'[o] = offer[o]
  BY <1>3 DEF DeleteJob, DeleteOffer, Delete
<1>4. CASE tables' = tables
  BY <1>4 DEF tables
<1>5. QED
  BY <1>1, <1>2, <1>3, <1>4, NextChanges

LEMMA StaffSteps ==
    ASSUME TypeOK, CallsInv, [Next]_vars
    PROVE  /\ staff' = staff \/ \E h \in Calls : HireInsert(h) \/ JobInfoSave(h)
           /\ savedEmployee' = savedEmployee \/ \E h \in Calls : HireResume(h)
<1>1. ASSUME NEW h \in Calls, Changes(h)
      PROVE  /\ staff' = staff \/ HireInsert(h) \/ JobInfoSave(h)
             /\ savedEmployee' = savedEmployee \/ HireResume(h)
  BY <1>1 DEF Changes, PostSave, PutSave, DeleteRow, HireSave, JobPost, JobSave, DeletePools, PoolPost,
     PoolSave, MergeSave, PoolDelete, OfferPost, OfferSave, HireInsert, HireResume, JobInfoSave
<1>2. ASSUME NEW h \in Calls, Summarise(h) PROVE staff' = staff /\ savedEmployee' = savedEmployee
  BY <1>2, SummariseStores
<1>3. ASSUME NEW k \in Ids, DeleteJob(k) \/ DeleteOffer(k)
      PROVE  staff' = staff /\ savedEmployee' = savedEmployee
  BY <1>3 DEF DeleteJob, DeleteOffer
<1>4. CASE tables' = tables
  BY <1>4 DEF tables
<1>5. QED
  BY <1>1, <1>2, <1>3, <1>4, NextChanges

-----------------------------------------------------------------------------
(* StoredInv is inductive. *)
LEMMA Placed ==
    ASSUME TypeOK, CallsInv, NEW h \in Calls, pc[h] # "idle"
    PROVE  h \in DOMAIN call /\ call[h] \in Asked /\ call[h].id \in Ids /\ PlaceKind(h)
  BY KindOfPlace, AskedFields DEF CallsInv

(* Where the candidates of a step's outcome come from.                     *)
LEMMA CandidateSource ==
    ASSUME TypeOK, CallsInv, [Next]_vars, NEW c \in DOMAIN candidate'
    PROVE  \/ c \in DOMAIN candidate
           \/ c \in Calls /\ PostSave(c) /\ pc'[c] \notin {"post_lookup", "post_save"}
           \/ \E h \in Calls : (PutSave(h) \/ HireSave(h)) /\ c = call[h].id
<1>1. CASE RowsKept
  BY <1>1 DEF RowsKept
<1>2. ASSUME NEW h \in Calls, PostSave(h)
      PROVE  \/ c \in DOMAIN candidate
             \/ c = h /\ pc'[h] \notin {"post_lookup", "post_save"}
  BY <1>2 DEF PostSave, SaveCandidate, Save, Goto, TypeOK
<1>3. ASSUME NEW h \in Calls, PutSave(h) \/ HireSave(h)
      PROVE  c \in DOMAIN candidate \/ c = call[h].id
  BY <1>3 DEF PutSave, HireSave, SaveCandidate, Save
<1>4. ASSUME NEW h \in Calls, JobSave(h) PROVE c \in DOMAIN candidate
  BY <1>4 DEF JobSave, Listed
<1>5. QED
  BY <1>1, <1>2, <1>3, <1>4, CandidateSteps

LEMMA StoredInvNext ==
    ASSUME TypeOK, CallsInv, HeldInv, StoredInv, [Next]_vars
    PROVE  StoredInv'
<1>1. Grows /\ \A h \in DOMAIN call' \ DOMAIN call : Fresh(h)
  BY NextGrows
<1>2. ASSUME NEW c \in DOMAIN candidate' PROVE Posted(c)'
  <2>1. CASE c \in DOMAIN candidate
    BY <2>1, PostedGrows DEF StoredInv
  <2>2. CASE c \in Calls /\ PostSave(c) /\ pc'[c] \notin {"post_lookup", "post_save"}
    <3>1. c \in DOMAIN call /\ Op(c) \in {"apply", "career"}
      BY <2>2, Placed DEF PostSave, PlaceKind, Posting
    <3>2. QED
      BY <1>1, <2>2, <3>1 DEF Posted, Grows, Op
  <2>3. CASE \E h \in Calls : (PutSave(h) \/ HireSave(h)) /\ c = call[h].id
    <3>1. PICK h \in Calls : (PutSave(h) \/ HireSave(h)) /\ c = call[h].id
      BY <2>3
    <3>2. h \in DOMAIN call /\ Op(h) \in {"update", "hire"}
      BY <3>1, Placed DEF PutSave, HireSave, PlaceKind, Hiring
    <3>3. QED
      BY <3>1, <3>2, PostedGrows DEF StoredInv
  <2>4. QED
    BY <2>1, <2>2, <2>3, CandidateSource
<1>3. ASSUME NEW o \in DOMAIN offer' PROVE Offered(o)'
  <2>1. CASE o \in DOMAIN offer
    BY <2>1, OfferedGrows DEF StoredInv
  <2>2. ASSUME NEW h \in Calls, OfferPost(h), o \notin DOMAIN offer PROVE Offered(o)'
    <3>1. o = h /\ pc'[h] = "done"
      BY <2>2 DEF OfferPost, Save, Goto, TypeOK
    <3>2. h \in DOMAIN call /\ Op(h) = "offer_post"
      BY <2>2, Placed DEF OfferPost, Goto, PlaceKind
    <3>3. QED
      BY <1>1, <3>1, <3>2 DEF Offered, Grows, Op
  <2>3. ASSUME NEW h \in Calls, OfferSave(h), o \notin DOMAIN offer PROVE Offered(o)'
    <3>1. h \in DOMAIN call /\ Op(h) \in {"offer_put", "answer"} /\ pc[h] = "offer_save"
      BY <2>3, Placed DEF OfferSave, Goto, PlaceKind
    <3>2. o = call[h].id
      BY <2>3, <3>1 DEF OfferSave, SaveAll, HeldInv
    <3>3. QED
      BY <3>1, <3>2, OfferedGrows DEF StoredInv
  <2>4. QED
    BY <2>1, <2>2, <2>3, OfferSteps
<1>4. ASSUME NEW h \in DOMAIN call'
      PROVE  /\ Op(h)' \in {"update", "delete", "hire"} => Posted(call[h].id)'
             /\ Op(h)' = "job_put" => \A c \in call'[h].list : Posted(c)'
             /\ Op(h)' \in {"offer_put", "answer"} => Offered(call[h].id)'
  <2>1. CASE h \in DOMAIN call
    <3>1. call'[h] = call[h]
      BY <1>1, <2>1 DEF Grows
    <3>2. /\ Op(h) \in {"update", "delete", "hire"} => Posted(call[h].id)
          /\ Op(h) = "job_put" => \A c \in call[h].list : Posted(c)
          /\ Op(h) \in {"offer_put", "answer"} => Offered(call[h].id)
      BY <2>1 DEF StoredInv
    <3>3. /\ \A c : Posted(c) => Posted(c)'
          /\ \A o : Offered(o) => Offered(o)'
      BY PostedGrows, OfferedGrows
    <3>4. call'[h].id = call[h].id /\ call'[h].list = call[h].list
      BY <3>1
    <3>5. Posted(call[h].id) => Posted(call[h].id)'
      BY <1>1, <2>1, <3>1, NextEnters DEF Posted, Enters, Grows, Op
    <3>6. Offered(call[h].id) => Offered(call[h].id)'
      BY <1>1, <2>1, <3>1, NextEnters DEF Offered, Enters, Grows, Op
    <3>7. QED
      BY <3>1, <3>2, <3>3, <3>4, <3>5, <3>6 DEF Op
  <2>2. CASE h \notin DOMAIN call
    <3>1. AskedWell(h, call'[h]) /\ DOMAIN candidate' = DOMAIN candidate /\ DOMAIN offer' = DOMAIN offer
      BY <1>1, <2>2 DEF Fresh, tables
    <3>2. /\ Op(h)' \in {"update", "delete", "hire"} => call'[h].id \in DOMAIN candidate'
          /\ Op(h)' = "job_put" => call'[h].list \subseteq DOMAIN candidate'
          /\ Op(h)' \in {"offer_put", "answer"} => call'[h].id \in DOMAIN offer'
      BY <3>1 DEF AskedWell, Op, AppliedFor
    <3>3. \A c \in DOMAIN candidate' : Posted(c)'
      BY <1>2
    <3>4. \A o \in DOMAIN offer' : Offered(o)'
      BY <1>3
    <3>5. QED
      BY <3>2, <3>3, <3>4 DEF Posted, Offered
  <2>3. QED
    BY <2>1, <2>2
<1>5. QED
  BY <1>2, <1>3, <1>4 DEF StoredInv

-----------------------------------------------------------------------------
(* HeldInv is inductive. *)
FirstPlaces == {"post_lookup", "post_save", "summary", "put_read", "delete_read", "job_post",
                "job_read", "pool_post", "pool_read", "merge_read", "offer_post", "offer_read",
                "hire_insert"}

LEMMA FreshPlace ==
    ASSUME NEW h, Fresh(h)
    PROVE  pc'[h] \in FirstPlaces
  BY DEF Fresh, FirstSteps, FirstPlaces

(* What a read holds.                                                      *)
LEMMA ReadRows ==
    ASSUME TypeOK, NEW h \in Calls, NEW from, NEW id, NEW table, NEW to, NEW rows,
           Read(h, from, id, table, to, rows), pc'[h] # "failed"
    PROVE  pc[h] = from /\ pc'[h] = to /\ id \in DOMAIN table /\ held'[h] = rows
  BY DEF Read, Goto, Hold, TypeOK

LEMMA PutReadRow ==
    ASSUME TypeOK, CallsInv, NEW h \in Calls, PutRead(h), pc'[h] = "put_save"
    PROVE  /\ h \in DOMAIN call /\ Op(h) = "update" /\ call[h].id \in DOMAIN candidate
           /\ held'[h] = One(call[h].id, Updated(candidate[call[h].id], call[h]))
           /\ candidate[call[h].id] \in CandidateRow
<1>1. /\ pc[h] = "put_read" /\ call[h].id \in DOMAIN candidate
      /\ held'[h] = One(call[h].id, Updated(candidate[call[h].id], call[h]))
  BY ReadRows DEF PutRead
<1>2. h \in DOMAIN call /\ Op(h) = "update"
  BY <1>1, Placed DEF PlaceKind
<1>3. QED
  BY <1>1, <1>2 DEF TypeOK, IsTable

LEMMA HireReadRow ==
    ASSUME TypeOK, CallsInv, NEW h \in Calls, HireRead(h), pc'[h] = "hire_save"
    PROVE  /\ pc[h] = "hire_read" /\ h \in DOMAIN call /\ Op(h) = "hire"
           /\ call[h].id \in DOMAIN candidate
           /\ held'[h] = One(call[h].id, Hired(candidate[call[h].id], emp[h]))
           /\ candidate[call[h].id] \in CandidateRow
<1>1. /\ pc[h] = "hire_read" /\ call[h].id \in DOMAIN candidate
      /\ held'[h] = One(call[h].id, Hired(candidate[call[h].id], emp[h]))
  BY ReadRows DEF HireRead
<1>2. h \in DOMAIN call /\ Op(h) = "hire"
  BY <1>1, Placed DEF PlaceKind, Hiring
<1>3. QED
  BY <1>1, <1>2 DEF TypeOK, IsTable

HeldWell(h) ==
    /\ pc[h] \in {"put_save", "hire_save"} =>
         DOMAIN held[h] = {call[h].id} /\ held[h][call[h].id] \in CandidateRow
    /\ pc[h] \in {"delete_pools", "pool_save", "merge_into", "merge_save"} =>
         IsTable(held[h], Ids, SUBSET Ids)
    /\ pc[h] = "merge_into" => call[h].id \in DOMAIN held[h]
    /\ pc[h] = "offer_save" =>
         /\ DOMAIN held[h] = {call[h].id} /\ held[h][call[h].id] \in OfferRow
         /\ held[h][call[h].id].accept = call[h].accept
    /\ pc[h] = "job_info_save" =>
         DOMAIN held[h] = {emp[h]} /\ held[h][emp[h]] \subseteq Calls

LEMMA PoolReads ==
    ASSUME TypeOK, CallsInv, HeldInv, NEW h \in Calls, h \in DOMAIN call, PlaceKind(h),
           call[h] \in Asked, call[h].id \in Ids
    PROVE  /\ DeleteRead(h) /\ pc'[h] # "failed" =>
                /\ pc[h] = "delete_read" /\ held'[h] = [p \in DOMAIN pool |-> pool[p] \ {call[h].id}]
                /\ IsTable(held'[h], Ids, SUBSET Ids)
           /\ DeletePools(h) =>
                \E p \in DOMAIN held[h] :
                  /\ held'[h] = Delete(held[h], p) /\ pool' = Save(pool, p, held[h][p])
                  /\ pc'[h] = IF DOMAIN held[h] = {p} THEN "delete" ELSE "delete_pools"
                  /\ IsTable(held'[h], Ids, SUBSET Ids)
           /\ PoolRead(h) /\ pc'[h] # "failed" =>
                /\ pc[h] = "pool_read"
                /\ held'[h] = One(call[h].id, IF call[h].listed THEN call[h].list
                                              ELSE pool[call[h].id])
                /\ call[h].id \in DOMAIN pool /\ IsTable(held'[h], Ids, SUBSET Ids)
           /\ MergeRead(h) /\ pc'[h] # "failed" =>
                /\ pc[h] = "merge_read" /\ held'[h] = One(call[h].id, pool[call[h].id])
                /\ call[h].id \in DOMAIN pool /\ IsTable(held'[h], Ids, SUBSET Ids)
           /\ MergeInto(h) /\ pc'[h] # "failed" =>
                /\ pc[h] = "merge_into"
                /\ held'[h] = One(call[h].to, pool[call[h].to] \cup held[h][call[h].id])
                /\ call[h].to \in DOMAIN pool /\ IsTable(held'[h], Ids, SUBSET Ids)
<1>0. IsTable(pool, Ids, SUBSET Ids)
  BY DEF TypeOK
<1>1. ASSUME DeleteRead(h), pc'[h] # "failed"
      PROVE  /\ pc[h] = "delete_read" /\ held'[h] = [p \in DOMAIN pool |-> pool[p] \ {call[h].id}]
             /\ IsTable(held'[h], Ids, SUBSET Ids)
  <2>1. pc[h] = "delete_read" /\ held'[h] = [p \in DOMAIN pool |-> pool[p] \ {call[h].id}]
    <3> DEFINE rows == [p \in DOMAIN pool |-> pool[p] \ {call[h].id}]
               to == IF pool = NoRows THEN "delete" ELSE "delete_pools"
    <3>1. Read(h, "delete_read", call[h].id, candidate, to, rows)
      BY <1>1 DEF DeleteRead
    <3> HIDE DEF rows, to
    <3>2. QED
      BY <1>1, <3>1, ReadRows DEF rows
  <2>2. QED
    BY <1>0, <2>1 DEF IsTable
<1>2. ASSUME DeletePools(h)
      PROVE  \E p \in DOMAIN held[h] :
               /\ held'[h] = Delete(held[h], p) /\ pool' = Save(pool, p, held[h][p])
               /\ pc'[h] = IF DOMAIN held[h] = {p} THEN "delete" ELSE "delete_pools"
               /\ IsTable(held'[h], Ids, SUBSET Ids)
  <2>1. PICK p \in DOMAIN held[h] :
               /\ held'[h] = Delete(held[h], p) /\ pool' = Save(pool, p, held[h][p])
               /\ pc'[h] = IF DOMAIN held[h] = {p} THEN "delete" ELSE "delete_pools"
    BY <1>2 DEF DeletePools, Hold, Goto, TypeOK
  <2>2. IsTable(held[h], Ids, SUBSET Ids)
    BY <1>2 DEF DeletePools, HeldInv
  <2>3. IsTable(Delete(held[h], p), Ids, SUBSET Ids)
    BY <2>2 DEF Delete, IsTable
  <2>4. QED
    BY <2>1, <2>3
<1>3. ASSUME PoolRead(h), pc'[h] # "failed"
      PROVE  /\ pc[h] = "pool_read"
             /\ held'[h] = One(call[h].id, IF call[h].listed THEN call[h].list
                                           ELSE pool[call[h].id])
             /\ call[h].id \in DOMAIN pool /\ IsTable(held'[h], Ids, SUBSET Ids)
  <2> DEFINE list == IF call[h].listed THEN call[h].list ELSE pool[call[h].id]
  <2>1. pc[h] = "pool_read" /\ held'[h] = One(call[h].id, list) /\ call[h].id \in DOMAIN pool
    BY <1>3, ReadRows DEF PoolRead
  <2>2. list \in SUBSET Ids
    BY <1>0, <2>1, AskedFields DEF PlaceKind, Op, IsTable
  <2> HIDE DEF list
  <2>3. IsTable(held'[h], Ids, SUBSET Ids)
    BY <2>1, <2>2 DEF One, IsTable
  <2>4. QED
    BY <2>1, <2>3 DEF list
<1>4. ASSUME MergeRead(h), pc'[h] # "failed"
      PROVE  /\ pc[h] = "merge_read" /\ held'[h] = One(call[h].id, pool[call[h].id])
             /\ call[h].id \in DOMAIN pool /\ IsTable(held'[h], Ids, SUBSET Ids)
  <2>1. /\ pc[h] = "merge_read" /\ held'[h] = One(call[h].id, pool[call[h].id])
        /\ call[h].id \in DOMAIN pool
    BY <1>4 DEF MergeRead, Read, Goto, Hold, TypeOK
  <2>2. pool[call[h].id] \in SUBSET Ids
    BY <1>0, <2>1 DEF IsTable
  <2>3. QED
    BY <2>1, <2>2 DEF One, IsTable
<1>5. ASSUME MergeInto(h), pc'[h] # "failed"
      PROVE  /\ pc[h] = "merge_into"
             /\ held'[h] = One(call[h].to, pool[call[h].to] \cup held[h][call[h].id])
             /\ call[h].to \in DOMAIN pool /\ IsTable(held'[h], Ids, SUBSET Ids)
  <2> DEFINE both == pool[call[h].to] \cup held[h][call[h].id]
  <2>1. pc[h] = "merge_into" /\ held'[h] = One(call[h].to, both) /\ call[h].to \in DOMAIN pool
    BY <1>5, ReadRows DEF MergeInto
  <2>2. both \in SUBSET Ids /\ call[h].to \in Ids
    BY <1>0, <2>1 DEF HeldInv, IsTable
  <2> HIDE DEF both
  <2>3. IsTable(held'[h], Ids, SUBSET Ids)
    BY <2>1, <2>2 DEF One, IsTable
  <2>4. QED
    BY <2>1, <2>3 DEF both
<1>6. QED
  BY <1>1, <1>2, <1>3, <1>4, <1>5

LEMMA HeldInvNext ==
    ASSUME TypeOK, CallsInv, HeldInv, HireInv, [Next]_vars
    PROVE  HeldInv'
<1>1. Grows /\ \A h \in DOMAIN call' \ DOMAIN call : Fresh(h)
  BY NextGrows
<1>2. ASSUME NEW h \in DOMAIN call' \ DOMAIN call PROVE HeldWell(h)'
  BY <1>1, <1>2, FreshPlace DEF FirstPlaces, HeldWell
<1>3. ASSUME NEW h \in DOMAIN call PROVE HeldWell(h)'
  <2>1. h \in Calls /\ Enters(h) /\ call'[h] = call[h]
    BY <1>1, NextEnters DEF Grows
  <2>2. HeldWell(h)
    BY DEF HeldInv, HeldWell
  <2>3. CASE Same(h)
    BY <2>1, <2>2, <2>3 DEF Same, HeldWell
  <2>4. CASE ~Same(h) /\ pc'[h] = "put_save"
    <3>1. PutRead(h)
      BY <2>1, <2>4 DEF Enters
    <3>2. /\ Op(h) = "update" /\ held'[h] = One(call[h].id, Updated(candidate[call[h].id], call[h]))
          /\ candidate[call[h].id] \in CandidateRow
      BY <2>1, <2>4, <3>1, PutReadRow
    <3>3. call[h] \in Asked
      BY KindOfPlace
    <3>4. Updated(candidate[call[h].id], call[h]) \in CandidateRow
      BY <3>2, <3>3, UpdatedRow DEF Op
    <3>5. DOMAIN held'[h] = {call[h].id} /\ held'[h][call[h].id] \in CandidateRow
      BY <3>2, <3>4 DEF One
    <3>6. QED
      BY <2>1, <2>4, <3>5 DEF HeldWell
  <2>5. CASE ~Same(h) /\ pc'[h] = "hire_save"
    <3>1. HireRead(h)
      BY <2>1, <2>5 DEF Enters
    <3>2. /\ held'[h] = One(call[h].id, Hired(candidate[call[h].id], emp[h]))
          /\ candidate[call[h].id] \in CandidateRow
      BY <2>1, <2>5, <3>1, HireReadRow
    <3>3. emp[h] \in Calls \cup {None}
      BY <2>1 DEF TypeOK
    <3>4. Hired(candidate[call[h].id], emp[h]) \in CandidateRow
      BY <3>2, <3>3, HiredRow
    <3>5. DOMAIN held'[h] = {call[h].id} /\ held'[h][call[h].id] \in CandidateRow
      BY <3>2, <3>4 DEF One
    <3>6. QED
      BY <2>1, <2>5, <3>5 DEF HeldWell
  <2>6. CASE ~Same(h) /\ pc'[h] \in {"delete_pools", "pool_save", "merge_into", "merge_save"}
    <3>1. DeleteRead(h) \/ DeletePools(h) \/ PoolRead(h) \/ MergeRead(h) \/ MergeInto(h)
      BY <2>1, <2>6 DEF Enters
    <3>2. h \in DOMAIN call /\ PlaceKind(h) /\ call[h] \in Asked /\ call[h].id \in Ids
      BY KindOfPlace, AskedFields
    <3>3. IsTable(held'[h], Ids, SUBSET Ids)
      BY <2>1, <2>6, <3>1, <3>2, PoolReads
    <3>4. pc'[h] = "merge_into" => call[h].id \in DOMAIN held'[h]
      BY <2>1, <2>6, <3>2, PoolReads DEF Enters, One
    <3>5. QED
      BY <2>1, <2>6, <3>3, <3>4 DEF HeldWell
  <2>7. CASE ~Same(h) /\ pc'[h] = "offer_save"
    <3> DEFINE o == call[h].id
               new == [offer[o] EXCEPT !.accept = call[h].accept]
    <3>1. OfferRead(h)
      BY <2>1, <2>7 DEF Enters
    <3>2. pc[h] = "offer_read" /\ o \in DOMAIN offer /\ held'[h] = One(o, new)
      BY <2>1, <2>7, <3>1 DEF OfferRead, Read, Goto, Hold, TypeOK
    <3>3. call[h].accept \in Answers
      BY <2>1, <3>2, Placed, AskedFields DEF PlaceKind, Op
    <3>4. offer[o] \in OfferRow
      BY <3>2 DEF TypeOK, IsTable
    <3>5. new \in OfferRow /\ new.accept = call[h].accept
      BY <3>3, <3>4 DEF OfferRow
    <3> HIDE DEF new
    <3>6. /\ DOMAIN held'[h] = {o} /\ held'[h][o] \in OfferRow
          /\ held'[h][o].accept = call[h].accept
      BY <3>2, <3>5 DEF One
    <3>7. QED
      BY <2>1, <2>7, <3>6 DEF HeldWell
  <2>8. CASE ~Same(h) /\ pc'[h] = "job_info_save"
    <3>1. JobInfo(h)
      BY <2>1, <2>8 DEF Enters
    <3>2. pc[h] = "job_info" /\ held'[h] = One(emp[h], staff[emp[h]] \cup {h}) /\ emp' = emp
      BY <2>1, <3>1 DEF JobInfo, Goto, Hold, TypeOK
    <3>3. emp[h] \in DOMAIN staff
      BY <3>2 DEF HireInv, EmployeeInv
    <3>4. staff[emp[h]] \cup {h} \subseteq Calls
      BY <2>1, <3>3 DEF TypeOK, IsTable
    <3>5. DOMAIN held'[h] = {emp'[h]} /\ held'[h][emp'[h]] \subseteq Calls
      BY <3>2, <3>4 DEF One
    <3>6. QED
      BY <2>1, <2>8, <3>5 DEF HeldWell
  <2>9. QED
    BY <2>3, <2>4, <2>5, <2>6, <2>7, <2>8 DEF HeldWell
<1>4. \A h \in DOMAIN call' : HeldWell(h)'
  BY <1>2, <1>3
<1>5. QED
  BY <1>4 DEF HeldInv, HeldWell

-----------------------------------------------------------------------------
(* Talent pools: who is accounted for stays so, unless the deletion of the *)
(* candidate has crossed nothing.                                          *)
LEMMA AccountedStays ==
    ASSUME TypeOK, CallsInv, HeldInv, [Next]_vars, NEW c, Accounted(c),
           \A d \in Calls : DeleteRow(d) /\ c = call[d].id => Crossed(d, PoolSavers)
    PROVE  Accounted(c)'
<1>1. Grows
  BY NextGrows
<1>2. ASSUME NEW d \in About({"delete"}, c), Crossed(d, PoolSavers) PROVE Accounted(c)'
  <2>1. d \in About({"delete"}, c)' /\ Crossed(d, PoolSavers)'
    BY <1>1, <1>2, AboutGrows, CrossedGrows
  <2>2. QED
    BY <2>1 DEF Accounted, PoolSavers
<1>3. ASSUME NEW d \in Calls, DeleteRow(d), c = call[d].id PROVE Accounted(c)'
  <2>1. d \in DOMAIN call /\ Op(d) = "delete"
    BY <1>3, Placed DEF DeleteRow, Goto, PlaceKind
  <2>2. QED
    BY <1>2, <1>3, <2>1 DEF About
<1>4. CASE c \in DOMAIN candidate
  <2>1. CASE c \in DOMAIN candidate' \cup cascaded'
    BY <2>1 DEF Accounted
  <2>2. CASE c \notin DOMAIN candidate' \cup cascaded'
    BY <1>3, <1>4, <2>2, CandidateLost
  <2>3. QED
    BY <2>1, <2>2
<1>5. CASE c \in cascaded
  BY <1>1, <1>5 DEF Grows, Accounted
<1>6. QED
  BY <1>2, <1>4, <1>5 DEF Accounted

LEMMA PoolStays ==
    ASSUME TypeOK, CallsInv, HeldInv, PoolsInv, PoolsNameCandidates, [Next]_vars,
           NEW p \in DOMAIN pool, NEW c \in pool[p]
    PROVE  Accounted(c)'
<1>1. Accounted(c)
  BY DEF PoolsNameCandidates, Accounted, PoolSavers
<1>2. ASSUME NEW d \in Calls, DeleteRow(d), c = call[d].id PROVE Crossed(d, PoolSavers)
  <2>1. d \in DOMAIN call /\ pc[d] = "delete"
    BY <1>2, Placed DEF DeleteRow, Goto
  <2>2. QED
    BY <1>2, <2>1 DEF PoolsInv
<1>3. QED
  BY <1>1, <1>2, AccountedStays

LEMMA CarriedStays ==
    ASSUME TypeOK, CallsInv, HeldInv, [Next]_vars, NEW c, Accounted(c), NEW x \in DOMAIN call,
           Op(x) \in PoolSavers, InFlight(x), pc[x] # "delete"
    PROVE  Accounted(c)'
<1>1. ASSUME NEW d \in Calls, DeleteRow(d), c = call[d].id PROVE Crossed(d, PoolSavers)
  <2>1. d \in DOMAIN call /\ pc[d] = "delete"
    BY <1>1, Placed DEF DeleteRow, Goto
  <2>2. InFlight(d) /\ d # x
    BY <2>1 DEF InFlight
  <2>3. QED
    BY <2>1, <2>2, FlightsCross
<1>2. QED
  BY <1>1, AccountedStays

LEMMA HeldStays ==
    ASSUME TypeOK, CallsInv, HeldInv, PoolsInv, [Next]_vars, NEW x \in DOMAIN call,
           pc[x] \in {"delete_pools", "pool_save", "merge_into", "merge_save"},
           NEW p \in DOMAIN held[x], NEW c \in held[x][p]
    PROVE  Accounted(c)'
<1>1. Accounted(c)
  BY DEF PoolsInv
<1>2. Op(x) \in PoolSavers /\ InFlight(x) /\ pc[x] # "delete"
  BY KindOfPlace DEF PlaceKind, PoolSavers, InFlight
<1>3. QED
  BY <1>1, <1>2, CarriedStays

LEMMA ListStays ==
    ASSUME TypeOK, CallsInv, HeldInv, PoolsInv, [Next]_vars, NEW x \in DOMAIN call,
           InFlight(x), Op(x) \in {"pool_post", "pool_put"}, NEW c \in call[x].list
    PROVE  Accounted(c)'
<1>1. Accounted(c)
  BY DEF PoolsInv
<1>2. Op(x) \in PoolSavers /\ pc[x] # "delete"
  BY KindOfPlace DEF PlaceKind, PoolSavers
<1>3. QED
  BY <1>1, <1>2, CarriedStays

LEMMA PoolsNext ==
    ASSUME TypeOK, CallsInv, HeldInv, PoolsInv, PoolsNameCandidates, [Next]_vars
    PROVE  PoolsNameCandidates'
<1>1. SUFFICES ASSUME NEW p \in DOMAIN pool', NEW c \in pool'[p] PROVE Accounted(c)'
  BY DEF PoolsNameCandidates, Accounted, PoolSavers
<1>2. CASE p \in DOMAIN pool /\ c \in pool[p]
  BY <1>2, PoolStays
<1>3. CASE ~(p \in DOMAIN pool /\ c \in pool[p])
  <2>1. PICK h \in Calls : DeletePools(h) \/ PoolPost(h) \/ PoolSave(h) \/ MergeSave(h) \/ PoolDelete(h)
    BY <1>3, PoolSteps
  <2>2. h \in DOMAIN call /\ PlaceKind(h)
    BY <2>1, Placed DEF DeletePools, PoolPost, PoolSave, MergeSave, PoolDelete, Goto
  <2>3. CASE DeletePools(h)
    <3>1. PICK q \in DOMAIN held[h] : pool' = Save(pool, q, held[h][q])
      BY <2>3 DEF DeletePools
    <3>2. p = q /\ c \in held[h][q]
      BY <1>3, <3>1 DEF Save
    <3>3. QED
      BY <2>2, <2>3, <3>2, HeldStays DEF DeletePools
  <2>4. CASE PoolPost(h)
    <3>1. c \in call[h].list
      BY <1>3, <2>4 DEF PoolPost, Save
    <3>2. pc[h] = "pool_post" /\ Op(h) = "pool_post"
      BY <2>2, <2>4 DEF PoolPost, Goto, PlaceKind
    <3>3. QED
      BY <2>2, <3>1, <3>2, ListStays DEF InFlight
  <2>5. CASE PoolSave(h) \/ MergeSave(h)
    <3>1. p \in DOMAIN held[h] /\ c \in held[h][p]
      BY <1>3, <2>5 DEF PoolSave, MergeSave, SaveAll
    <3>2. QED
      BY <2>2, <2>5, <3>1, HeldStays DEF PoolSave, MergeSave, Goto
  <2>6. CASE PoolDelete(h)
    BY <1>3, <2>6 DEF PoolDelete, Delete
  <2>7. QED
    BY <2>1, <2>3, <2>4, <2>5, <2>6
<1>4. QED
  BY <1>2, <1>3

(* A deletion alone with the pools: if the pools change, it has changed    *)
(* them itself.                                                            *)
LEMMA AloneWithPools ==
    ASSUME TypeOK, CallsInv, [Next]_vars, NEW x \in DOMAIN call, pc[x] \in {"delete_pools", "delete"},
           ~Crossed(x, PoolSavers), ~DeletePools(x)
    PROVE  pool' = pool
<1>1. ASSUME NEW h \in Calls,
             DeletePools(h) \/ PoolPost(h) \/ PoolSave(h) \/ MergeSave(h) \/ PoolDelete(h)
      PROVE  FALSE
  <2>1. /\ h \in DOMAIN call /\ PlaceKind(h)
        /\ pc[h] \in {"delete_pools", "pool_post", "pool_save", "merge_save", "pool_delete"}
        /\ pc[h] = "delete_pools" => DeletePools(h)
    BY <1>1, Placed DEF DeletePools, PoolPost, PoolSave, MergeSave, PoolDelete, Goto
  <2>2. Op(h) \in PoolSavers /\ InFlight(h) /\ InFlight(x) /\ h # x
    BY <2>1 DEF PlaceKind, PoolSavers, InFlight
  <2>3. QED
    BY <2>1, <2>2, FlightsCross
<1>2. QED
  BY <1>1, PoolSteps

PoolsWell(h) ==
    /\ InFlight(h) /\ Op(h) \in {"pool_post", "pool_put"} =>
         \A c \in call[h].list : Accounted(c)
    /\ pc[h] \in {"delete_pools", "pool_save", "merge_into", "merge_save"} =>
         \A p \in DOMAIN held[h] : \A c \in held[h][p] : Accounted(c)
    /\ pc[h] = "delete_pools" =>
         /\ \A p \in DOMAIN held[h] : call[h].id \notin held[h][p]
         /\ \/ Crossed(h, PoolSavers)
            \/ \A p \in DOMAIN pool : call[h].id \in pool[p] => p \in DOMAIN held[h]
    /\ pc[h] = "delete" =>
         Crossed(h, PoolSavers) \/ \A p \in DOMAIN pool : call[h].id \notin pool[p]

LEMMA PoolsInvNext ==
    ASSUME TypeOK, CallsInv, HeldInv, PoolsInv, PoolsNameCandidates, [Next]_vars
    PROVE  PoolsInv'
<1>1. Grows /\ \A h \in DOMAIN call' \ DOMAIN call : Fresh(h)
  BY NextGrows
<1>2. ASSUME NEW h \in DOMAIN call' \ DOMAIN call PROVE PoolsWell(h)'
  <2>1. pc'[h] \in FirstPlaces /\ AskedWell(h, call'[h]) /\ candidate' = candidate
    BY <1>1, <1>2, FreshPlace DEF Fresh, tables
  <2>2. Op(h)' \in {"pool_post", "pool_put"} => \A c \in call'[h].list : Accounted(c)'
    BY <2>1 DEF AskedWell, Op, Accounted
  <2>3. QED
    BY <2>1, <2>2 DEF PoolsWell, FirstPlaces
<1>3. ASSUME NEW h \in DOMAIN call PROVE PoolsWell(h)'
  <2>1. /\ h \in Calls /\ Enters(h) /\ call'[h] = call[h] /\ (InFlight(h)' => InFlight(h))
        /\ call[h] \in Asked /\ call[h].id \in Ids /\ PlaceKind(h)
    BY <1>1, NextEnters, KindOfPlace, AskedFields DEF Grows
  <2>2. Crossed(h, PoolSavers) => Crossed(h, PoolSavers)'
    BY <1>1, CrossedGrows
  <2>3. PoolsWell(h)
    BY DEF PoolsInv, PoolsWell
  <2>4. InFlight(h)' /\ Op(h)' \in {"pool_post", "pool_put"} => \A c \in call'[h].list : Accounted(c)'
    BY <2>1, ListStays DEF Op
  <2>5. CASE Same(h) /\ ~DeletePools(h)
    <3>1. pc'[h] = pc[h] /\ held'[h] = held[h]
      BY <2>5 DEF Same
    <3>2. pc[h] \in {"delete_pools", "pool_save", "merge_into", "merge_save"} =>
            \A p \in DOMAIN held[h] : \A c \in held[h][p] : Accounted(c)'
      BY HeldStays
    <3>3. pc[h] \in {"delete_pools", "delete"} => Crossed(h, PoolSavers) \/ pool' = pool
      BY <2>5, AloneWithPools
    <3>4. QED
      BY <2>1, <2>2, <2>3, <2>4, <3>1, <3>2, <3>3 DEF PoolsWell, PoolSavers
  <2>6. CASE DeleteRead(h) /\ pc'[h] # "failed"
    <3>1. held'[h] = [p \in DOMAIN pool |-> pool[p] \ {call[h].id}]
      BY <2>1, <2>6, PoolReads
    <3>2. pc'[h] = IF pool = NoRows THEN "delete" ELSE "delete_pools"
      <4> DEFINE rows == [p \in DOMAIN pool |-> pool[p] \ {call[h].id}]
                 to == IF pool = NoRows THEN "delete" ELSE "delete_pools"
      <4>1. Read(h, "delete_read", call[h].id, candidate, to, rows)
        BY <2>6 DEF DeleteRead
      <4> HIDE DEF rows, to
      <4>2. pc'[h] = to
        BY <2>1, <2>6, <4>1, ReadRows
      <4>3. QED
        BY <4>2 DEF to
    <3>3. pool' = pool
      BY <2>6 DEF DeleteRead, Read, Own, tables
    <3>4. \A p \in DOMAIN held'[h] : call[h].id \notin held'[h][p] /\ \A c \in held'[h][p] : Accounted(c)'
      BY <3>1, PoolStays
    <3>5. pc'[h] = "delete" => DOMAIN pool' = {}
      BY <3>2, <3>3 DEF NoRows
    <3>6. DOMAIN held'[h] = DOMAIN pool'
      BY <3>1, <3>3
    <3>7. QED
      BY <2>1, <2>4, <3>2, <3>4, <3>5, <3>6 DEF PoolsWell
  <2>7. CASE DeletePools(h)
    <3>1. PICK p \in DOMAIN held[h] :
            /\ held'[h] = Delete(held[h], p) /\ pool' = Save(pool, p, held[h][p])
            /\ pc'[h] = IF DOMAIN held[h] = {p} THEN "delete" ELSE "delete_pools"
      BY <2>1, <2>7, PoolReads
    <3>2. pc[h] = "delete_pools"
      BY <2>7 DEF DeletePools
    <3>3. \A q \in DOMAIN held'[h] : q \in DOMAIN held[h] /\ q # p /\ held'[h][q] = held[h][q]
      BY <3>1 DEF Delete
    <3>4. \A q \in DOMAIN held'[h] : call[h].id \notin held'[h][q] /\ \A c \in held'[h][q] : Accounted(c)'
      BY <2>3, <3>2, <3>3, HeldStays DEF PoolsWell
    <3>5. \A q \in DOMAIN pool' : call[h].id \in pool'[q] => q # p /\ q \in DOMAIN pool /\ call[h].id \in pool[q]
      BY <2>3, <3>1, <3>2 DEF PoolsWell, Save
    <3>6. Crossed(h, PoolSavers) \/ \A q \in DOMAIN pool' : call[h].id \in pool'[q] => q \in DOMAIN held[h] \ {p}
      BY <2>3, <3>2, <3>5 DEF PoolsWell
    <3>7. DOMAIN held'[h] = DOMAIN held[h] \ {p}
      BY <3>1 DEF Delete
    <3>8. pc'[h] = "delete" => DOMAIN held[h] \ {p} = {}
      BY <3>1
    <3>9. pc'[h] \in {"delete", "delete_pools"}
      BY <3>1
    <3>10. QED
      BY <2>1, <2>2, <2>4, <3>4, <3>6, <3>7, <3>8, <3>9 DEF PoolsWell
  <2>8. CASE PoolRead(h) /\ pc'[h] = "pool_save"
    <3>1. /\ held'[h] = One(call[h].id, IF call[h].listed THEN call[h].list ELSE pool[call[h].id])
          /\ call[h].id \in DOMAIN pool /\ pc[h] = "pool_read"
      BY <2>1, <2>8, PoolReads
    <3>2. Op(h) = "pool_put" /\ InFlight(h)
      BY <2>1, <3>1 DEF PlaceKind, InFlight
    <3>3. \A c \in call[h].list : Accounted(c)'
      BY <3>2, ListStays
    <3>4. \A c \in pool[call[h].id] : Accounted(c)'
      BY <3>1, PoolStays
    <3>5. \A p \in DOMAIN held'[h] : \A c \in held'[h][p] : Accounted(c)'
      BY <3>1, <3>3, <3>4 DEF One
    <3>6. QED
      BY <2>4, <2>8, <3>5 DEF PoolsWell
  <2>9. CASE MergeRead(h) /\ pc'[h] = "merge_into"
    <3>1. held'[h] = One(call[h].id, pool[call[h].id]) /\ call[h].id \in DOMAIN pool
      BY <2>1, <2>9, PoolReads
    <3>2. \A p \in DOMAIN held'[h] : \A c \in held'[h][p] : Accounted(c)'
      BY <3>1, PoolStays DEF One
    <3>3. QED
      BY <2>4, <2>9, <3>2 DEF PoolsWell
  <2>10. CASE MergeInto(h) /\ pc'[h] = "merge_save"
    <3>1. /\ held'[h] = One(call[h].to, pool[call[h].to] \cup held[h][call[h].id])
          /\ call[h].to \in DOMAIN pool /\ pc[h] = "merge_into"
      BY <2>1, <2>10, PoolReads
    <3>2. call[h].id \in DOMAIN held[h]
      BY <3>1 DEF HeldInv
    <3>3. \A c \in held[h][call[h].id] : Accounted(c)'
      BY <3>1, <3>2, HeldStays
    <3>4. \A c \in pool[call[h].to] : Accounted(c)'
      BY <3>1, PoolStays
    <3>5. \A p \in DOMAIN held'[h] : \A c \in held'[h][p] : Accounted(c)'
      BY <3>1, <3>3, <3>4 DEF One
    <3>6. QED
      BY <2>4, <2>10, <3>5 DEF PoolsWell
  <2>11. CASE pc'[h] \notin {"delete_pools", "delete", "pool_save", "merge_into", "merge_save"}
    BY <2>4, <2>11 DEF PoolsWell
  <2>12. QED
    BY <2>1, <2>5, <2>6, <2>7, <2>8, <2>9, <2>10, <2>11 DEF Enters
<1>4. \A h \in DOMAIN call' : PoolsWell(h)'
  BY <1>2, <1>3
<1>5. QED
  BY <1>4 DEF PoolsInv, PoolsWell

-----------------------------------------------------------------------------
(* Answers to offers.  What sets an answer aside does so for good.         *)
SetAside(a) ==
    \/ About({"answer"}, call[a].id) # {a}
    \/ Crossed(a, {"offer_put"})

LEMMA SetAsideStays ==
    ASSUME Grows, NEW a \in DOMAIN call, SetAside(a)
    PROVE  SetAside(a)'
<1>1. call'[a] = call[a] /\ a \in DOMAIN call'
  BY DEF Grows
<1>2. CASE Crossed(a, {"offer_put"})
  BY <1>2, CrossedGrows DEF SetAside
<1>3. CASE About({"answer"}, call[a].id) # {a}
  <2>1. CASE a \in About({"answer"}, call[a].id)
    <3>1. PICK b \in About({"answer"}, call[a].id) : b # a
      BY <1>3, <2>1
    <3>2. b \in About({"answer"}, call[a].id)'
      BY <1>1, <3>1 DEF About, Op, Grows
    <3>3. QED
      BY <3>1, <3>2 DEF SetAside
  <2>2. CASE a \notin About({"answer"}, call[a].id)
    BY <1>1, <2>2 DEF About, Op, SetAside
  <2>3. QED
    BY <2>1, <2>2
<1>4. QED
  BY <1>2, <1>3 DEF SetAside

LEMMA NewlyAnswered ==
    ASSUME TypeOK, CallsInv, [Next]_vars, NEW a \in Answered({"answer"})'
    PROVE  /\ a \in DOMAIN call /\ a \in Calls /\ Op(a) = "answer" /\ call'[a] = call[a]
           /\ a \in Answered({"answer"}) \/ (OfferSave(a) /\ InFlight(a))
<1>1. a \in DOMAIN call' /\ pc'[a] = "done" /\ Op(a)' = "answer"
  BY DEF Answered
<1>2. Grows /\ a \in DOMAIN call
  BY <1>1, NextGrows, FreshPlace DEF FirstPlaces
<1>3. call'[a] = call[a] /\ Op(a) = "answer"
  BY <1>1, <1>2 DEF Grows, Op
<1>4. a \in Calls /\ (Same(a) \/ OfferSave(a))
  BY <1>1, <1>2, <1>3, NextEnters DEF Enters
<1>5. Same(a) => a \in Answered({"answer"})
  BY <1>1, <1>2, <1>3 DEF Same, Answered
<1>6. OfferSave(a) => InFlight(a)
  BY DEF OfferSave, Goto, InFlight
<1>7. a \in Answered({"answer"}) \/ (OfferSave(a) /\ InFlight(a))
  BY <1>4, <1>5, <1>6
<1>8. QED
  BY <1>2, <1>3, <1>4, <1>7

LEMMA AcceptanceNext ==
    ASSUME TypeOK, CallsInv, HeldInv, StoredInv, AcceptInv, AcceptanceStands, [Next]_vars
    PROVE  AcceptanceStands'
<1>1. Grows
  BY NextGrows
<1>2. SUFFICES ASSUME NEW a \in Answered({"answer"})', call'[a].id \in DOMAIN offer', ~SetAside(a)'
               PROVE  offer'[call'[a].id].accept = call'[a].accept
  BY DEF AcceptanceStands, SetAside
<1> DEFINE o == call[a].id
<1>3. a \in DOMAIN call /\ a \in Calls /\ Op(a) = "answer" /\ call'[a] = call[a] /\ ~SetAside(a)
  BY <1>1, <1>2, NewlyAnswered, SetAsideStays
<1>4. ASSUME NEW h \in Calls, OfferSave(h)
      PROVE  /\ h \in DOMAIN call /\ pc[h] = "offer_save" /\ Op(h) \in {"offer_put", "answer"}
             /\ DOMAIN offer' = DOMAIN offer \cup {call[h].id}
             /\ offer'[call[h].id].accept = call[h].accept
             /\ \A x \in DOMAIN offer : x # call[h].id => offer'[x] = offer[x]
  <2>1. h \in DOMAIN call /\ pc[h] = "offer_save" /\ Op(h) \in {"offer_put", "answer"}
    BY <1>4, Placed DEF OfferSave, Goto, PlaceKind
  <2>2. DOMAIN held[h] = {call[h].id} /\ held[h][call[h].id].accept = call[h].accept
    BY <2>1 DEF HeldInv
  <2>3. QED
    BY <1>4, <2>1, <2>2 DEF OfferSave, SaveAll
<1>5. CASE OfferSave(a)
  BY <1>3, <1>4, <1>5
<1>6. CASE a \in Answered({"answer"}) /\ ~OfferSave(a)
  <2>1. o \in DOMAIN offer => offer[o].accept = call[a].accept
    BY <1>3, <1>6 DEF AcceptanceStands, SetAside
  <2>2. CASE \A x \in DOMAIN offer' : x \in DOMAIN offer /\ offer'[x] = offer[x]
    BY <1>2, <1>3, <2>1, <2>2
  <2>3. ASSUME NEW h \in Calls, OfferPost(h) PROVE offer'[o].accept = call[a].accept
    <3>1. o # h
      BY <1>3, <2>3, IdsAssumption DEF StoredInv, Offered, OfferPost, Goto
    <3>2. QED
      BY <1>2, <1>3, <2>1, <2>3, <3>1 DEF OfferPost, Save
  <2>4. ASSUME NEW h \in Calls, OfferSave(h) PROVE offer'[o].accept = call[a].accept
    <3>1. h # a
      BY <1>6, <2>4
    <3>2. CASE call[h].id # o
      BY <1>2, <1>3, <1>4, <2>1, <2>4, <3>2
    <3>3. CASE call[h].id = o /\ Op(h) = "answer"
      <4>1. h \in About({"answer"}, o)
        BY <1>4, <2>4, <3>3 DEF About
      <4>2. QED
        BY <1>3, <3>1, <4>1 DEF SetAside
    <3>4. CASE call[h].id = o /\ Op(h) = "offer_put"
      <4>1. h \in DOMAIN call /\ InFlight(h)
        BY <1>4, <2>4 DEF InFlight
      <4>2. call[h].accept = call[a].accept
        BY <1>3, <1>6, <3>4, <4>1 DEF AcceptInv, SetAside
      <4>3. QED
        BY <1>4, <2>4, <3>4, <4>2
    <3>5. QED
      BY <1>4, <2>4, <3>2, <3>3, <3>4
  <2>5. QED
    BY <1>3, <2>2, <2>3, <2>4, OfferSteps
<1>7. QED
  BY <1>2, <1>5, <1>6, NewlyAnswered

LEMMA AcceptInvNext ==
    ASSUME TypeOK, CallsInv, AcceptInv, AcceptanceStands, [Next]_vars
    PROVE  AcceptInv'
<1>1. Grows /\ \A h \in DOMAIN call' \ DOMAIN call : Fresh(h)
  BY NextGrows
<1>2. SUFFICES ASSUME NEW a \in Answered({"answer"})', NEW h \in DOMAIN call', InFlight(h)',
                      Op(h)' = "offer_put", call'[h].id = call'[a].id, ~SetAside(a)'
               PROVE  call'[h].accept = call'[a].accept
  BY DEF AcceptInv, SetAside
<1>3. a \in DOMAIN call /\ a \in Calls /\ Op(a) = "answer" /\ call'[a] = call[a] /\ ~SetAside(a)
  BY <1>1, <1>2, NewlyAnswered, SetAsideStays
<1>4. CASE h \in DOMAIN call
  <2>1. call'[h] = call[h] /\ InFlight(h) /\ Op(h) = "offer_put"
    BY <1>1, <1>2, <1>4, NextEnters DEF Grows, Op
  <2>2. CASE a \in Answered({"answer"})
    BY <1>2, <1>3, <1>4, <2>1, <2>2 DEF AcceptInv, SetAside
  <2>3. CASE OfferSave(a) /\ InFlight(a)
    <3>1. Crossed(a, {"offer_put"})
      BY <1>3, <1>4, <2>1, <2>3, FlightsCross
    <3>2. QED
      BY <1>3, <3>1 DEF SetAside
  <2>4. QED
    BY <2>2, <2>3, NewlyAnswered
<1>5. CASE h \notin DOMAIN call
  <2>1. Fresh(h)
    BY <1>1, <1>5
  <2>2. call'[h].id \in DOMAIN offer /\ call'[h].accept = offer[call'[h].id].accept
    BY <1>2, <2>1 DEF Fresh, AskedWell, Op
  <2>3. a \in Answered({"answer"})
    <3>1. pc'[a] = pc[a] /\ pc'[a] = "done"
      BY <1>2, <1>3, <1>5, <2>1 DEF Fresh, Others, Answered
    <3>2. QED
      BY <1>3, <3>1 DEF Answered
  <2>4. offer[call[a].id].accept = call[a].accept
    BY <1>2, <1>3, <2>2, <2>3 DEF AcceptanceStands, SetAside
  <2>5. QED
    BY <1>2, <1>3, <2>2, <2>4
<1>6. QED
  BY <1>4, <1>5

-----------------------------------------------------------------------------
(* Applicants: a job that is the one applied for, or excused, stays so.    *)
Rightly(c, j) == j = AppliedTo(c) \/ Moved(c)

LEMMA RightlyStays ==
    ASSUME TypeOK, CallsInv, [Next]_vars, NEW c, NEW j, Posted(c)
    PROVE  /\ AppliedTo(c)' = AppliedTo(c)
           /\ Moved(c) => Moved(c)'
           /\ Rightly(c, j) => j = AppliedTo(c)' \/ Moved(c)'
  BY PostedGrows, NextGrows, MovedGrows DEF Rightly

LEMMA CandidateSavedRow ==
    ASSUME TypeOK, NEW h, NEW id, NEW row, NEW from, NEW to,
           SaveCandidate(h, id, row, from, to), NEW c \in DOMAIN candidate'
    PROVE  \/ c \in DOMAIN candidate /\ candidate'[c] = candidate[c]
           \/ c = id /\ candidate'[c] = row
  BY DEF SaveCandidate, Save

LEMMA ApplicantsNext ==
    ASSUME TypeOK, CallsInv, HeldInv, StoredInv, ApplyInv, ApplicantsStay, [Next]_vars
    PROVE  ApplicantsStay'
<1>1. SUFFICES ASSUME NEW c \in DOMAIN candidate'
               PROVE  candidate'[c].job = AppliedTo(c)' \/ Moved(c)'
  BY DEF ApplicantsStay
<1>2. c \in DOMAIN candidate => Posted(c) /\ Rightly(c, candidate[c].job)
  BY DEF StoredInv, ApplicantsStay, Rightly
<1>3. CASE c \in DOMAIN candidate /\ candidate'[c].job = candidate[c].job
  BY <1>2, <1>3, RightlyStays
<1>4. ASSUME NEW h \in Calls, PostSave(h), ~(c \in DOMAIN candidate /\ candidate'[c].job = candidate[c].job)
      PROVE  candidate'[c].job = AppliedTo(c)' \/ Moved(c)'
  <2>1. h \in DOMAIN call /\ Op(h) \in {"apply", "career"}
    BY <1>4, Placed DEF PostSave, PlaceKind, Posting
  <2>2. c = h /\ candidate'[c] = NewCandidate(call[h].job, call[h].resume)
    BY <1>4, CandidateSavedRow DEF PostSave
  <2>3. candidate'[c].job = call[h].job
    BY <2>2 DEF NewCandidate
  <2>4. call'[h] = call[h] /\ h \notin Known
    BY <2>1, NextGrows, IdsAssumption DEF Grows
  <2>5. QED
    BY <2>2, <2>3, <2>4 DEF AppliedTo
<1>5. ASSUME NEW h \in Calls, PutSave(h) \/ HireSave(h),
             ~(c \in DOMAIN candidate /\ candidate'[c].job = candidate[c].job)
      PROVE  candidate'[c].job = AppliedTo(c)' \/ Moved(c)'
  <2>1. h \in DOMAIN call /\ Op(h) \in {"update", "hire"} /\ pc[h] \in {"put_save", "hire_save"}
    BY <1>5, Placed DEF PutSave, HireSave, PlaceKind, Hiring
  <2>2. c = call[h].id /\ candidate'[c] = held[h][call[h].id]
    BY <1>5, CandidateSavedRow DEF PutSave, HireSave
  <2>3. Posted(c) /\ Rightly(c, candidate'[c].job)
    BY <2>1, <2>2 DEF StoredInv, ApplyInv, Rightly
  <2>4. QED
    BY <2>3, RightlyStays
<1>6. ASSUME NEW h \in Calls, JobSave(h), ~(c \in DOMAIN candidate /\ candidate'[c].job = candidate[c].job)
      PROVE  candidate'[c].job = AppliedTo(c)' \/ Moved(c)'
  <2>1. h \in DOMAIN call /\ Op(h) = "job_put" /\ InFlight(h) /\ call[h].id \in Ids
    BY <1>6, Placed DEF JobSave, Goto, PlaceKind, InFlight
  <2>2. candidate' = Listed(call[h].id, call[h].list)
    BY <1>1, <1>6 DEF JobSave
  <2>3. /\ c \in DOMAIN candidate
        /\ candidate'[c].job = IF c \in call[h].list THEN call[h].id
                               ELSE IF candidate[c].job = call[h].id THEN None ELSE candidate[c].job
    BY <2>1, <2>2, ListedRows
  <2>4. (c \in call[h].list <=> AppliedTo(c) = call[h].id) \/ Moved(c)
    BY <2>1, <2>3 DEF ApplyInv
  <2>5. Rightly(c, candidate'[c].job)
    BY <1>2, <1>6, <2>3, <2>4 DEF Rightly
  <2>6. QED
    BY <1>2, <2>3, <2>5, RightlyStays
<1>7. RowsKept => c \in DOMAIN candidate /\ candidate'[c].job = candidate[c].job
  BY DEF RowsKept
<1>8. QED
  BY <1>3, <1>4, <1>5, <1>6, <1>7, CandidateSteps

ApplyWell(h) ==
    /\ pc[h] \in {"put_save", "hire_save"} => Rightly(call[h].id, held[h][call[h].id].job)
    /\ Op(h) \in {"update", "hire"} =>
         \/ call[h].id \in DOMAIN candidate \cup cascaded
         \/ About({"delete"}, call[h].id) # {}
    /\ InFlight(h) /\ Op(h) = "job_put" =>
         \A c \in DOMAIN candidate \cup call[h].list :
           (c \in call[h].list <=> AppliedTo(c) = call[h].id) \/ Moved(c)

(* A call in flight finds its candidate stored, or another has deleted it. *)
LEMMA GoneStays ==
    ASSUME TypeOK, CallsInv, HeldInv, [Next]_vars, NEW c,
           c \in DOMAIN candidate \cup cascaded \/ About({"delete"}, c) # {}
    PROVE  c \in DOMAIN candidate' \cup cascaded' \/ About({"delete"}, c)' # {}
<1>1. Grows
  BY NextGrows
<1>2. CASE About({"delete"}, c) # {}
  BY <1>1, <1>2, AboutGrows
<1>3. CASE c \in cascaded
  BY <1>1, <1>3 DEF Grows
<1>4. CASE c \in DOMAIN candidate /\ c \notin DOMAIN candidate' \cup cascaded'
  <2>1. PICK d \in Calls : DeleteRow(d) /\ c = call[d].id
    BY <1>4, CandidateLost
  <2>2. d \in DOMAIN call /\ Op(d) = "delete"
    BY <2>1, Placed DEF DeleteRow, Goto, PlaceKind
  <2>3. QED
    BY <1>2, <2>1, <2>2 DEF About
<1>5. QED
  BY <1>2, <1>3, <1>4

LEMMA ApplyInvNext ==
    ASSUME TypeOK, CallsInv, HeldInv, StoredInv, ApplyInv, ApplicantsStay, [Next]_vars
    PROVE  ApplyInv'
<1>1. Grows /\ \A h \in DOMAIN call' \ DOMAIN call : Fresh(h)
  BY NextGrows
<1>2. ASSUME NEW h \in DOMAIN call' \ DOMAIN call PROVE ApplyWell(h)'
  <2>1. pc'[h] \in FirstPlaces /\ AskedWell(h, call'[h]) /\ candidate' = candidate
    BY <1>1, <1>2, FreshPlace DEF Fresh, tables
  <2>2. ASSUME Op(h)' = "job_put", NEW c \in DOMAIN candidate' \cup call'[h].list
        PROVE  (c \in call'[h].list <=> AppliedTo(c)' = call'[h].id) \/ Moved(c)'
    <3>1. call'[h].list = {x \in DOMAIN candidate : candidate[x].job = call'[h].id}
      BY <2>1, <2>2 DEF AskedWell, Op, AppliedFor
    <3>2. c \in DOMAIN candidate /\ (c \in call'[h].list <=> candidate[c].job = call'[h].id)
      BY <2>1, <2>2, <3>1
    <3>3. Posted(c) /\ Rightly(c, candidate[c].job)
      BY <3>2 DEF StoredInv, ApplicantsStay, Rightly
    <3>4. QED
      BY <3>2, <3>3, RightlyStays
  <2>3. Op(h)' \in {"update", "hire"} => call'[h].id \in DOMAIN candidate'
    BY <2>1 DEF AskedWell, Op
  <2>4. QED
    BY <2>1, <2>2, <2>3 DEF ApplyWell, FirstPlaces
<1>3. ASSUME NEW h \in DOMAIN call PROVE ApplyWell(h)'
  <2>1. /\ h \in Calls /\ Enters(h) /\ call'[h] = call[h] /\ (InFlight(h)' => InFlight(h))
        /\ call[h] \in Asked /\ call[h].id \in Ids /\ PlaceKind(h) /\ Op(h)' = Op(h)
    BY <1>1, NextEnters, KindOfPlace, AskedFields DEF Grows, Op
  <2>2. ApplyWell(h)
    BY DEF ApplyInv, ApplyWell, Rightly
  <2>3. ASSUME pc'[h] \in {"put_save", "hire_save"}
        PROVE  Rightly(call[h].id, held[h][call[h].id].job)'
    <3> DEFINE c == call[h].id
    <3>1. Op(h) \in {"update", "hire"}
      BY <2>1, <2>3 DEF Enters, PutRead, HireRead, Read, Goto, PlaceKind, Hiring, Same
    <3>2. Posted(c) /\ (c \in DOMAIN candidate => Rightly(c, candidate[c].job))
      BY <3>1 DEF StoredInv, ApplicantsStay, Rightly
    <3>3. Rightly(c, held'[h][c].job)
      <4>1. CASE Same(h)
        BY <2>2, <2>3, <4>1 DEF Same, ApplyWell
      <4>2. CASE PutRead(h) /\ pc'[h] = "put_save"
        <5>1. /\ held'[h] = One(c, Updated(candidate[c], call[h])) /\ c \in DOMAIN candidate
              /\ candidate[c] \in CandidateRow /\ Op(h) = "update"
          BY <2>1, <4>2, PutReadRow
        <5>2. held'[h][c].job = IF call[h].job = None THEN candidate[c].job ELSE call[h].job
          BY <2>1, <5>1, UpdatedRow DEF Op, One
        <5>3. call[h].job # None => Moved(c)
          BY <5>1 DEF Moved, About
        <5>4. QED
          BY <3>2, <5>1, <5>2, <5>3 DEF Rightly
      <4>3. CASE HireRead(h) /\ pc'[h] = "hire_save"
        <5>1. /\ held'[h] = One(c, Hired(candidate[c], emp[h])) /\ c \in DOMAIN candidate
              /\ candidate[c] \in CandidateRow
          BY <2>1, <4>3, HireReadRow
        <5>2. emp[h] \in Calls \cup {None}
          BY <2>1 DEF TypeOK
        <5>3. held'[h][c].job = candidate[c].job
          BY <5>1, <5>2, HiredRow DEF One
        <5>4. QED
          BY <3>2, <5>1, <5>3
      <4>4. QED
        BY <2>1, <2>3, <4>1, <4>2, <4>3 DEF Enters
    <3>4. ASSUME NEW k, k = c PROVE held'[h][k].job = AppliedTo(k)' \/ Moved(k)'
      BY <3>2, <3>3, <3>4, RightlyStays
    <3>5. ASSUME NEW k, k = c PROVE Rightly(k, held[h][k].job)'
      BY <3>4, <3>5 DEF Rightly
    <3>6. QED
      BY <2>1, <3>5 DEF Rightly
  <2>4. Op(h) \in {"update", "hire"} =>
          \/ call[h].id \in DOMAIN candidate' \cup cascaded'
          \/ About({"delete"}, call[h].id)' # {}
    <3>1. Op(h) \in {"update", "hire"} =>
            \/ call[h].id \in DOMAIN candidate \cup cascaded
            \/ About({"delete"}, call[h].id) # {}
      BY <2>2 DEF ApplyWell
    <3>2. \A c : c \in DOMAIN candidate \cup cascaded \/ About({"delete"}, c) # {} =>
                 c \in DOMAIN candidate' \cup cascaded' \/ About({"delete"}, c)' # {}
      BY GoneStays
    <3>3. About({"delete"}, call[h].id)' = {d \in DOMAIN call' : Op(d)' \in {"delete"} /\ call'[d].id = call[h].id}
      BY <2>1 DEF About
    <3>4. QED
      BY <3>1, <3>2, <3>3 DEF About
  <2>5. ASSUME InFlight(h), Op(h) = "job_put", NEW c \in DOMAIN candidate' \cup call[h].list
        PROVE  (c \in call[h].list <=> AppliedTo(c)' = call[h].id) \/ Moved(c)'
    <3>1. CASE c \in DOMAIN candidate \cup call[h].list
      <4>1. (c \in call[h].list <=> AppliedTo(c) = call[h].id) \/ Moved(c)
        BY <2>2, <2>5, <3>1 DEF ApplyWell
      <4>2. Posted(c)
        BY <2>5, <3>1 DEF StoredInv
      <4>3. QED
        BY <4>1, <4>2, RightlyStays
    <3>2. CASE c \in Calls /\ PostSave(c)
      <4>1. c \in DOMAIN call /\ InFlight(c) /\ c # h
        BY <2>5, <3>2, Placed DEF PostSave, PlaceKind, InFlight, Posting
      <4>2. Moved(c)
        BY <2>5, <3>2, <4>1, FlightsCross DEF Moved
      <4>3. QED
        BY <1>1, <4>2, MovedGrows
    <3>3. ASSUME NEW x \in Calls, PutSave(x) \/ HireSave(x), c = call[x].id, c \notin DOMAIN candidate
          PROVE  Moved(c)'
      <4>1. x \in DOMAIN call /\ InFlight(x) /\ Op(x) \in {"update", "hire"}
        BY <3>3, Placed DEF PutSave, HireSave, PlaceKind, InFlight, Hiring
      <4>2. x \in About({"update", "hire"}, c) /\ Crossed(x, {"job_put"})
        BY <2>5, <3>3, <4>1, FlightsCross DEF About
      <4>3. c \in cascaded \/ About({"delete"}, c) # {}
        BY <3>3, <4>1 DEF ApplyInv
      <4>4. Moved(c)
        BY <4>2, <4>3 DEF Moved
      <4>5. QED
        BY <1>1, <4>4, MovedGrows
    <3>4. QED
      BY <2>5, <3>1, <3>2, <3>3, CandidateSource
  <2>6. QED
    BY <2>1, <2>3, <2>4, <2>5 DEF ApplyWell
<1>4. \A h \in DOMAIN call' : ApplyWell(h)'
  BY <1>2, <1>3
<1>5. QED
  BY <1>4 DEF ApplyInv, ApplyWell, Rightly

-----------------------------------------------------------------------------
(* Hires.  An employee who has been stored stays stored; a hire that has   *)
(* crossed no other is the only one to write the jobs of its employee.     *)
LEMMA StaffGrows ==
    ASSUME TypeOK, CallsInv, HeldInv, [Next]_vars
    PROVE  DOMAIN staff \subseteq DOMAIN staff'
<1>1. CASE staff' = staff
  BY <1>1
<1>2. ASSUME NEW h \in Calls, HireInsert(h) PROVE DOMAIN staff \subseteq DOMAIN staff'
  BY <1>2 DEF HireInsert, Save
<1>3. ASSUME NEW h \in Calls, JobInfoSave(h) PROVE DOMAIN staff \subseteq DOMAIN staff'
  BY <1>3 DEF JobInfoSave, SaveAll
<1>4. QED
  BY <1>1, <1>2, <1>3, StaffSteps

LEMMA EmployeeInvNext ==
    ASSUME TypeOK, CallsInv, HeldInv, EmployeeInv, [Next]_vars
    PROVE  EmployeeInv'
<1>1. Grows /\ \A h \in DOMAIN call' \ DOMAIN call : Fresh(h)
  BY NextGrows
<1>2. DOMAIN staff \subseteq DOMAIN staff'
  BY StaffGrows
<1>3. savedEmployee' = savedEmployee \/ \E h \in Calls : HireResume(h)
  BY StaffSteps
<1>4. ASSUME NEW x \in Calls, HireResume(x)
      PROVE  /\ x \in DOMAIN call /\ Op(x) = "hire" /\ InFlight(x) /\ savedEmployee' = x
             /\ x \in DOMAIN staff /\ pc[x] = "hire_resume"
  <2>1. pc[x] = "hire_resume" /\ savedEmployee' = x
    BY <1>4 DEF HireResume, Goto
  <2>2. QED
    BY <2>1, Placed DEF PlaceKind, Hiring, InFlight, EmployeeInv
<1>5. savedEmployee' # None =>
        savedEmployee' \in DOMAIN staff' /\ savedEmployee' \in DOMAIN call' /\ Op(savedEmployee)' = "hire"
  BY <1>1, <1>2, <1>3, <1>4 DEF EmployeeInv, Grows, Op
<1>6. ASSUME NEW h \in DOMAIN call' \ DOMAIN call
      PROVE  pc'[h] \notin Hiring \ {"hire_insert"}
  BY <1>1, <1>6, FreshPlace DEF FirstPlaces, Hiring
<1>7. ASSUME NEW h \in DOMAIN call
      PROVE  /\ pc'[h] = "hire_resume" => h \in DOMAIN staff'
             /\ pc'[h] = "hire_answer" =>
                  savedEmployee' # None /\ (savedEmployee' = h \/ {h, savedEmployee'} \in crossed')
             /\ pc'[h] \in {"hire_read", "hire_save", "job_info", "job_info_save"} =>
                  /\ emp'[h] \in DOMAIN staff' /\ emp'[h] \in DOMAIN call' /\ Op(emp[h])' = "hire"
                  /\ emp'[h] = h \/ {h, emp'[h]} \in crossed'
             /\ pc'[h] = "hire_save" =>
                  Act("HIRED", "", emp'[h]) \in ToSet(held'[h][call'[h].id].activities)
  <2>1. /\ h \in Calls /\ Enters(h) /\ call'[h] = call[h] /\ call[h] \in Asked /\ call[h].id \in Ids
        /\ PlaceKind(h)
    BY <1>1, NextEnters, KindOfPlace, AskedFields DEF Grows
  <2>2. pc'[h] = "hire_resume" => h \in DOMAIN staff'
    <3>1. HireInsert(h) => h \in DOMAIN staff'
      BY DEF HireInsert, Save
    <3>2. QED
      BY <2>1, <1>2, <3>1 DEF Enters, Same, EmployeeInv
  <2>3. ASSUME pc'[h] = "hire_answer"
        PROVE  savedEmployee' # None /\ (savedEmployee' = h \/ {h, savedEmployee'} \in crossed')
    <3>1. CASE HireResume(h)
      BY <2>1, <3>1, <1>4, IdsAssumption
    <3>2. CASE Same(h)
      <4>1. pc[h] = "hire_answer" /\ InFlight(h)
        BY <2>3, <3>2 DEF Same, InFlight
      <4>2. CASE savedEmployee' = savedEmployee
        BY <1>1, <4>1, <4>2 DEF EmployeeInv, Grows
      <4>3. ASSUME NEW x \in Calls, HireResume(x) PROVE savedEmployee' # None /\ {h, savedEmployee'} \in crossed'
        <5>1. x # h /\ {h, x} \in crossed
          BY <2>1, <4>1, <4>3, <1>4 DEF CallsInv
        <5>2. QED
          BY <1>1, <5>1, <4>3, <1>4, IdsAssumption DEF Grows
      <4>4. QED
        BY <1>3, <4>2, <4>3
    <3>3. QED
      BY <2>1, <2>3, <3>1, <3>2 DEF Enters
  <2>4. ASSUME pc'[h] \in {"hire_read", "hire_save", "job_info", "job_info_save"}
        PROVE  /\ emp'[h] \in DOMAIN staff' /\ emp'[h] \in DOMAIN call' /\ Op(emp[h])' = "hire"
               /\ emp'[h] = h \/ {h, emp'[h]} \in crossed'
    <3>1. CASE HireAnswer(h)
      <4>1. pc[h] = "hire_answer" /\ emp'[h] = savedEmployee
        BY <2>1, <3>1 DEF HireAnswer, Goto, TypeOK
      <4>2. QED
        BY <1>1, <1>2, <4>1 DEF EmployeeInv, Grows, Op
    <3>2. CASE ~HireAnswer(h)
      <4> DEFINE Still == pc[h] \in {"hire_read", "hire_save", "job_info", "job_info_save"}
                         /\ emp'[h] = emp[h]
      <4>1. Same(h) => Still
        BY <2>4 DEF Same
      <4>2. HireRead(h) => Still
        BY <2>1, ReadKeeps DEF HireRead, Read
      <4>3. HireSave(h) => Still
        BY DEF HireSave, Forget, Hold
      <4>4. JobInfo(h) => Still
        BY DEF JobInfo, Goto, Hold
      <4>5. Still
        BY <2>1, <2>4, <3>2, <4>1, <4>2, <4>3, <4>4 DEF Enters
      <4>6. QED
        BY <1>1, <1>2, <4>5 DEF EmployeeInv, Grows, Op
    <3>3. QED
      BY <3>1, <3>2
  <2>5. ASSUME pc'[h] = "hire_save"
        PROVE  Act("HIRED", "", emp'[h]) \in ToSet(held'[h][call'[h].id].activities)
    <3>1. CASE Same(h)
      BY <2>1, <2>5, <3>1 DEF Same, EmployeeInv
    <3>2. CASE HireRead(h)
      <4>1. /\ held'[h] = One(call[h].id, Hired(candidate[call[h].id], emp[h]))
            /\ candidate[call[h].id] \in CandidateRow
        BY <2>1, <2>5, <3>2, HireReadRow
      <4>2. emp[h] \in Calls \cup {None} /\ emp' = emp
        BY <2>1, <3>2, ReadKeeps DEF TypeOK, HireRead
      <4>3. held'[h][call[h].id] = Hired(candidate[call[h].id], emp[h])
        BY <4>1 DEF One
      <4>4. QED
        BY <2>1, <4>1, <4>2, <4>3, HiredRow
    <3>3. QED
      BY <2>1, <2>5, <3>1, <3>2 DEF Enters
  <2>6. QED
    BY <2>2, <2>3, <2>4, <2>5
<1>8. QED
  BY <1>5, <1>6, <1>7 DEF EmployeeInv, Hiring

(* No one else writes the jobs of a hire that has crossed no other.        *)
LEMMA JobsStay ==
    ASSUME TypeOK, CallsInv, HeldInv, EmployeeInv, [Next]_vars,
           NEW h \in DOMAIN call, Op(h) = "hire", ~Crossed(h, {"hire"}),
           h \in DOMAIN staff, pc[h] # "hire_insert", ~JobInfoSave(h)
    PROVE  h \in DOMAIN staff' /\ staff'[h] = staff[h]
<1>1. CASE staff' = staff
  BY <1>1
<1>2. ASSUME NEW x \in Calls, HireInsert(x) PROVE h \in DOMAIN staff' /\ staff'[h] = staff[h]
  BY <1>2 DEF HireInsert, Goto, Save
<1>3. ASSUME NEW x \in Calls, JobInfoSave(x) PROVE h \in DOMAIN staff' /\ staff'[h] = staff[h]
  <2>1. pc[x] = "job_info_save" /\ staff' = SaveAll(staff, held[x]) /\ x # h
    BY <1>3 DEF JobInfoSave, Goto
  <2>2. x \in DOMAIN call /\ Op(x) = "hire"
    BY <2>1, Placed DEF PlaceKind, Hiring
  <2>3. DOMAIN held[x] = {emp[x]} /\ (emp[x] = x \/ {x, emp[x]} \in crossed)
    BY <2>1, <2>2 DEF HeldInv, EmployeeInv
  <2>4. emp[x] # h
    BY <2>1, <2>2, <2>3 DEF Crossed
  <2>5. QED
    BY <2>1, <2>3, <2>4 DEF SaveAll
<1>4. QED
  BY <1>1, <1>2, <1>3, StaffSteps

LEMMA OwnEmployee ==
    ASSUME TypeOK, CallsInv, EmployeeInv, NEW h \in DOMAIN call, Op(h) = "hire", ~Crossed(h, {"hire"}),
           pc[h] \in {"hire_read", "hire_save", "job_info", "job_info_save"}
    PROVE  emp[h] = h
  BY DEF EmployeeInv, Crossed

LEMMA JobsInvNext ==
    ASSUME TypeOK, CallsInv, HeldInv, EmployeeInv, JobsInv, [Next]_vars
    PROVE  JobsInv'
<1>1. Grows /\ \A h \in DOMAIN call' \ DOMAIN call : Fresh(h)
  BY NextGrows
<1>2. ASSUME NEW h \in DOMAIN call' \ DOMAIN call, Op(h)' = "hire" PROVE pc'[h] = "hire_insert"
  BY <1>1, <1>2 DEF Fresh, FirstSteps, Op
<1>3. ASSUME NEW h \in DOMAIN call, Op(h) = "hire", ~Crossed(h, {"hire"})
      PROVE  /\ InFlight(h)' /\ pc'[h] # "hire_insert" => h \in DOMAIN staff' /\ staff'[h] = {}
             /\ pc'[h] = "job_info_save" => held'[h][h] = {h}
             /\ pc'[h] = "done" => h \in DOMAIN staff' /\ staff'[h] = {h}
  <2>1. /\ h \in Calls /\ Enters(h) /\ (InFlight(h)' => InFlight(h)) /\ PlaceKind(h)
    BY <1>3, NextEnters, KindOfPlace
  <2>2. CASE HireInsert(h)
    <3>1. pc'[h] = "hire_resume" /\ staff' = Save(staff, h, {})
      BY <2>1, <2>2 DEF HireInsert, Goto, TypeOK
    <3>2. QED
      BY <3>1 DEF Save, InFlight
  <2>3. CASE JobInfoSave(h)
    <3>1. pc[h] = "job_info_save" /\ pc'[h] = "done" /\ staff' = SaveAll(staff, held[h])
      BY <2>1, <2>3 DEF JobInfoSave, Goto, TypeOK
    <3>2. DOMAIN held[h] = {h} /\ held[h][h] = {h}
      BY <1>3, <2>1, <3>1, OwnEmployee DEF HeldInv, JobsInv
    <3>3. QED
      BY <3>1, <3>2 DEF InFlight, SaveAll
  <2>4. CASE ~HireInsert(h) /\ ~JobInfoSave(h)
    <3>1. ASSUME InFlight(h)', pc'[h] # "hire_insert"
          PROVE  InFlight(h) /\ pc[h] # "hire_insert"
      <4>1. pc[h] = "hire_insert" => pc'[h] \in Hiring
        BY <1>3, <2>1, <3>1, CallsInvNext, <1>1 DEF CallsInv, Places, Grows, Op, Hiring
      <4>2. pc[h] # "hire_insert"
        BY <2>1, <2>4, <3>1, <4>1 DEF Hiring, Enters, Same, HireResume, HireAnswer, HireRead, Read, HireSave,
           JobInfo, Goto
      <4>3. QED
        BY <2>1, <3>1, <4>2
    <3>2. ASSUME InFlight(h)', pc'[h] # "hire_insert"
          PROVE  h \in DOMAIN staff' /\ staff'[h] = {} /\ h \in DOMAIN staff /\ staff[h] = {}
      <4>1. h \in DOMAIN staff /\ staff[h] = {} /\ pc[h] # "hire_insert"
        BY <1>3, <3>1, <3>2 DEF JobsInv
      <4>2. QED
        BY <1>3, <2>4, <4>1, JobsStay
    <3>3. ASSUME pc'[h] = "job_info_save" PROVE held'[h][h] = {h}
      <4>1. CASE Same(h)
        BY <1>3, <3>3, <4>1 DEF Same, JobsInv
      <4>2. CASE JobInfo(h)
        <5>1. pc[h] = "job_info" /\ held'[h] = One(emp[h], staff[emp[h]] \cup {h})
          BY <2>1, <4>2 DEF JobInfo, Goto, Hold, TypeOK
        <5>2. emp[h] = h
          BY <1>3, <5>1, OwnEmployee
        <5>3. staff[h] = {}
          BY <3>2, <3>3 DEF InFlight
        <5>4. QED
          BY <5>1, <5>2, <5>3 DEF One
      <4>3. QED
        BY <2>1, <3>3, <4>1, <4>2 DEF Enters
    <3>4. ASSUME pc'[h] = "done" PROVE h \in DOMAIN staff' /\ staff'[h] = {h}
      <4>1. pc[h] = "done"
        BY <1>3, <2>1, <2>4, <3>4 DEF Enters, Same
      <4>2. QED
        BY <1>3, <2>4, <4>1, JobsStay DEF JobsInv
    <3>5. QED
      BY <3>2, <3>3, <3>4
  <2>5. QED
    BY <2>2, <2>3, <2>4
<1>4. ASSUME NEW h \in DOMAIN call' PROVE Crossed(h, {"hire"}) => Crossed(h, {"hire"})'
  BY <1>1, CrossedGrows
<1>5. QED
  BY <1>1, <1>2, <1>3, <1>4 DEF JobsInv, InFlight, Grows, Op

(* An activity that names a hire stays in the row of its candidate.        *)
Noted(h, acts) == Act("HIRED", "", h) \in ToSet(acts)

After(h) == pc[h] \in {"job_info", "job_info_save", "done"}

NotedWell(h) ==
    /\ call[h].id \in DOMAIN candidate => Noted(h, candidate[call[h].id].activities)
    /\ \A x \in DOMAIN call : pc[x] \in {"put_save", "hire_save"} /\ call[x].id = call[h].id =>
         Noted(h, held[x][call[h].id].activities)

LEMMA NotedStays ==
    ASSUME TypeOK, CallsInv, HeldInv, StoredInv, [Next]_vars,
           NEW h \in DOMAIN call, Op(h) = "hire", NotedWell(h), call[h].id \in DOMAIN candidate'
    PROVE  Noted(h, candidate'[call[h].id].activities)
<1> DEFINE c == call[h].id
<1>1. Posted(c)
  BY DEF StoredInv
<1>2. CASE RowsKept
  BY <1>2 DEF RowsKept, NotedWell
<1>3. ASSUME NEW x \in Calls, PostSave(x) PROVE Noted(h, candidate'[c].activities)
  <2>1. pc[x] = "post_save" /\ x # c
    BY <1>1, <1>3, IdsAssumption DEF PostSave, Posted
  <2>2. c \in DOMAIN candidate /\ candidate'[c] = candidate[c]
    BY <1>3, <2>1, CandidateSavedRow DEF PostSave
  <2>3. QED
    BY <2>2 DEF NotedWell
<1>4. ASSUME NEW x \in Calls, PutSave(x) \/ HireSave(x) PROVE Noted(h, candidate'[c].activities)
  <2>1. pc[x] \in {"put_save", "hire_save"} /\ x \in DOMAIN call
    BY <1>4, Placed DEF PutSave, HireSave
  <2>2. \/ c \in DOMAIN candidate /\ candidate'[c] = candidate[c]
        \/ c = call[x].id /\ candidate'[c] = held[x][c]
    BY <1>4, CandidateSavedRow DEF PutSave, HireSave
  <2>3. QED
    BY <2>1, <2>2 DEF NotedWell
<1>5. ASSUME NEW x \in Calls, JobSave(x) PROVE Noted(h, candidate'[c].activities)
  <2>1. call[x].id \in Ids
    BY <1>5, Placed DEF JobSave, Goto
  <2>2. candidate' = candidate \/ candidate' = Listed(call[x].id, call[x].list)
    BY <1>5 DEF JobSave
  <2>3. c \in DOMAIN candidate /\ candidate'[c].activities = candidate[c].activities
    BY <2>1, <2>2, ListedRows
  <2>4. QED
    BY <2>3 DEF NotedWell
<1>6. QED
  BY <1>2, <1>3, <1>4, <1>5, CandidateSteps

LEMMA NotedInvNext ==
    ASSUME TypeOK, CallsInv, HeldInv, StoredInv, EmployeeInv, NotedInv, [Next]_vars
    PROVE  NotedInv'
<1>1. Grows /\ \A h \in DOMAIN call' \ DOMAIN call : Fresh(h)
  BY NextGrows
<1>2. ASSUME NEW h \in DOMAIN call' \ DOMAIN call
      PROVE  ~After(h)' /\ pc'[h] \notin {"put_save", "hire_save"}
  BY <1>1, <1>2, FreshPlace DEF After, FirstPlaces
<1>3. ASSUME NEW h \in DOMAIN call, Op(h) = "hire", ~Crossed(h, {"hire"})', ~Crossed(h, {"update"})', After(h)'
      PROVE  /\ call[h].id \in DOMAIN candidate' => Noted(h, candidate'[call[h].id].activities)
             /\ \A x \in DOMAIN call : pc'[x] \in {"put_save", "hire_save"} /\ call[x].id = call[h].id =>
                  Noted(h, held'[x][call[h].id].activities)
  <2> DEFINE c == call[h].id
  <2>1. ~Crossed(h, {"hire"}) /\ ~Crossed(h, {"update"})
    BY <1>1, <1>3, CrossedGrows
  <2>2. h \in Calls /\ Enters(h) /\ PlaceKind(h) /\ c \in Ids
    BY NextEnters, KindOfPlace, AskedFields
  <2>3. ASSUME NEW x \in DOMAIN call, pc'[x] \in {"put_save", "hire_save"}
        PROVE  /\ x \in Calls /\ x # h /\ InFlight(x) /\ Op(x) \in {"update", "hire"} /\ call[x] \in Asked
               /\ Same(x) \/ PutRead(x) \/ HireRead(x)
    <3>1. /\ x \in Calls /\ InFlight(x) /\ call[x] \in Asked /\ PlaceKind(x)
          /\ Same(x) \/ PutRead(x) \/ HireRead(x)
      BY <2>3, NextEnters, KindOfPlace DEF Enters, InFlight
    <3>2. Op(x) \in {"update", "hire"}
      BY <2>3, <3>1 DEF PlaceKind, Same, PutRead, HireRead, Read, Hiring
    <3>3. QED
      BY <1>3, <2>3, <3>1, <3>2 DEF After
  <2>4. CASE After(h)
    <3>1. NotedWell(h)
      BY <1>3, <2>1, <2>4 DEF NotedInv, NotedWell, Noted, After
    <3>2. c \in DOMAIN candidate' => Noted(h, candidate'[c].activities)
      BY <1>3, <3>1, NotedStays
    <3>3. ASSUME NEW x \in DOMAIN call, pc'[x] \in {"put_save", "hire_save"}, call[x].id = c
          PROVE  Noted(h, held'[x][c].activities)
      <4>1. CASE Same(x)
        BY <3>1, <3>3, <4>1 DEF Same, NotedWell
      <4>2. CASE PutRead(x)
        <5>1. pc'[x] = "put_save"
          BY <2>3, <3>3, <4>2, ReadPlace DEF PutRead, TypeOK
        <5>2. /\ held'[x] = One(c, Updated(candidate[c], call[x])) /\ c \in DOMAIN candidate
              /\ candidate[c] \in CandidateRow /\ Op(x) = "update" /\ call[x] \in Asked
          BY <2>3, <3>3, <4>2, <5>1, PutReadRow
        <5>3. held'[x][c] = Updated(candidate[c], call[x])
          BY <5>2 DEF One
        <5>4. ToSet(candidate[c].activities) \subseteq ToSet(Updated(candidate[c], call[x]).activities)
          BY <5>2, UpdatedRow DEF Op
        <5>5. QED
          BY <3>1, <5>2, <5>3, <5>4 DEF NotedWell, Noted
      <4>3. CASE HireRead(x)
        <5>1. pc'[x] = "hire_save"
          BY <2>3, <3>3, <4>3, ReadPlace DEF HireRead, TypeOK
        <5>2. /\ held'[x] = One(c, Hired(candidate[c], emp[x])) /\ c \in DOMAIN candidate
              /\ candidate[c] \in CandidateRow /\ emp[x] \in Calls \cup {None}
          BY <2>3, <3>3, <4>3, <5>1, HireReadRow DEF TypeOK
        <5>3. held'[x][c] = Hired(candidate[c], emp[x])
          BY <5>2 DEF One
        <5>4. ToSet(candidate[c].activities) \subseteq ToSet(Hired(candidate[c], emp[x]).activities)
          BY <5>2, HiredRow
        <5>5. QED
          BY <3>1, <5>2, <5>3, <5>4 DEF NotedWell, Noted
      <4>4. QED
        BY <2>3, <3>3, <4>1, <4>2, <4>3
    <3>4. QED
      BY <3>2, <3>3
  <2>5. CASE ~After(h)
    <3>1. HireSave(h) /\ pc[h] = "hire_save" /\ InFlight(h) /\ pc'[h] = "job_info"
      <4>1. pc'[h] # "job_info_save" /\ pc'[h] # "done"
        BY <1>3, <2>2, <2>5 DEF After, Enters, Same, JobInfo, JobInfoSave, Goto
      <4>2. pc'[h] = "job_info" /\ HireSave(h)
        BY <1>3, <2>2, <2>5, <4>1 DEF After, Enters, Same
      <4>3. QED
        BY <4>2 DEF HireSave, InFlight
    <3>2. emp[h] = h /\ Noted(h, held[h][c].activities)
      BY <1>3, <2>1, <3>1, OwnEmployee DEF EmployeeInv, Noted
    <3>3. candidate' = Save(candidate, c, held[h][c])
      BY <2>2, <3>1 DEF HireSave, SaveCandidate, Goto, TypeOK
    <3>4. candidate'[c] = held[h][c]
      BY <3>3 DEF Save
    <3>5. ASSUME NEW x \in DOMAIN call, pc'[x] \in {"put_save", "hire_save"} PROVE FALSE
      BY <1>3, <2>1, <2>3, <3>1, <3>5, FlightsCross
    <3>6. QED
      BY <3>2, <3>4, <3>5
  <2>6. QED
    BY <2>4, <2>5
<1>4. QED
  BY <1>1, <1>2, <1>3 DEF NotedInv, Noted, After, Grows, Op

LEMMA HireIsRecordedFollows ==
    ASSUME JobsInv, NotedInv
    PROVE  HireIsRecorded
  BY DEF JobsInv, NotedInv, HireIsRecorded, Answered

-----------------------------------------------------------------------------
(* ListenInv is inductive.  Where a listener is, and what it was handed,   *)
(* changes by the steps of its own.                                        *)
Hears(x) == cv'[x] = cv[x] /\ given'[x] = given[x]

LEMMA ReadHears ==
    ASSUME TypeOK, NEW x \in Calls, SummaryRead(x)
    PROVE  \/ Hears(x)
           \/ /\ pc[x] = "summary" /\ cv[x] = "none" /\ call[x].id \in DOMAIN candidate
              /\ cv'[x] = "link" /\ given'[x] = candidate[call[x].id].resume
  BY DEF SummaryRead, TypeOK, Hears

LEMMA EmitHears ==
    ASSUME TypeOK, NEW x \in Calls, PostEmit(x)
    PROVE  pc[x] = "post_emit" /\ pc'[x] = "post_mail" /\ cv'[x] = "link" /\ given'[x] = call[x].resume
  BY DEF PostEmit, Goto, TypeOK

LEMMA SummariseHears ==
    ASSUME TypeOK, NEW x \in Calls, Summarise(x)
    PROVE  /\ cv[x] \in Listening /\ given' = given
           /\ \/ cv[x] = "link" /\ given[x] \in Resumes /\ cv' = [cv EXCEPT ![x] = "ask"]
              \/ cv[x] = "link" /\ given[x] \in {None, Blank} /\ cv' = [cv EXCEPT ![x] = "over"]
              \/ cv[x] = "ask" /\ cv' = [cv EXCEPT ![x] = "write"]
              \/ cv[x] = "write" /\ cv' = [cv EXCEPT ![x] = "over"] /\ CVWrite(x)
              \/ cv' = [cv EXCEPT ![x] = "failed"]
  BY DEF Summarise, CVLink, CVAsk, CVWrite, CVFails, Listen, Listening, locals

LEMMA ListenSteps ==
    ASSUME TypeOK, CallsInv, [Next]_vars, NEW x \in Calls
    PROVE  Hears(x) \/ PostEmit(x) \/ SummaryRead(x) \/ Summarise(x)
<1>1. ASSUME NEW h \in Calls, Start(h) PROVE Hears(x)
  BY <1>1, StartBegins DEF Begins, locals, Hears
<1>2. ASSUME NEW h \in Calls, Step(h) PROVE Hears(x) \/ PostEmit(x) \/ SummaryRead(x)
  <2>1. CASE ~(PostEmit(h) \/ SummaryRead(h))
    BY <1>2, <2>1, StepHears DEF Hears
  <2>2. CASE (PostEmit(h) \/ SummaryRead(h)) /\ x # h
    BY <2>2 DEF PostEmit, SummaryRead, TypeOK, Hears
  <2>3. QED
    BY <2>1, <2>2
<1>3. ASSUME NEW h \in Calls, Abort(h) PROVE Hears(x)
  BY <1>3 DEF Abort, Forget, Hold, Own, Hears
<1>4. ASSUME NEW h \in Calls, Summarise(h), h # x PROVE Hears(x)
  BY <1>4, SummariseHears DEF TypeOK, Hears
<1>5. CASE (\E k \in Ids : DeleteJob(k) \/ DeleteOffer(k)) \/ UNCHANGED vars
  BY <1>5 DEF DeleteJob, DeleteOffer, locals, vars, Hears
<1>6. QED
  BY <1>1, <1>2, <1>3, <1>4, <1>5 DEF Next

(* A listener at work stays one, with what it was handed.                  *)
LEMMA ListenerStays ==
    ASSUME TypeOK, CallsInv, ListenInv, [Next]_vars, NEW x \in DOMAIN call, cv[x] # "none"
    PROVE  cv'[x] # "none" /\ given'[x] = given[x]
<1>1. x \in Calls /\ pc[x] # "post_emit"
  BY DEF ListenInv, TypeOK, IsTable
<1>2. CASE Hears(x)
  BY <1>2 DEF Hears
<1>3. CASE SummaryRead(x)
  BY <1>1, <1>2, <1>3, ReadHears
<1>4. CASE Summarise(x)
  BY <1>1, <1>4, SummariseHears DEF TypeOK
<1>5. QED
  BY <1>1, <1>2, <1>3, <1>4, ListenSteps, EmitHears

(* Only a call that had begun listens.                                     *)
LEMMA ListenerKnown ==
    ASSUME TypeOK, CallsInv, [Next]_vars, NEW h \in DOMAIN call', cv'[h] # "none"
    PROVE  h \in DOMAIN call
<1>1. SUFFICES ASSUME h \notin DOMAIN call PROVE FALSE
  OBVIOUS
<1>2. Fresh(h) /\ h \in Calls /\ pc[h] = "idle" /\ cv[h] = "none"
  BY <1>1, NextGrows DEF Fresh, CallsInv
<1>3. ~PostEmit(h) /\ ~SummaryRead(h)
  BY <1>2, EmitHears DEF SummaryRead, Goto
<1>4. ~Summarise(h)
  BY <1>2, SummariseHears DEF Listening
<1>5. QED
  BY <1>2, <1>3, <1>4, ListenSteps DEF Hears

(* Whoever is busy was so, or begins in this step.                         *)
LEMMA BusySource ==
    ASSUME TypeOK, CallsInv, [Next]_vars, NEW x \in Calls, Busy(x)'
    PROVE  \/ Busy(x)
           \/ /\ x \in DOMAIN call' \ DOMAIN call
              /\ \A y \in Calls \ {x} : Busy(y)' => {x, y} \in crossed'
<1> USE DEF Busy
<1>1. ASSUME NEW h \in Calls, Start(h) PROVE Busy(x) \/ (x = h /\ x \in DOMAIN call' \ DOMAIN call
             /\ \A y \in Calls \ {x} : Busy(y)' => {x, y} \in crossed')
  <2>1. /\ h \in DOMAIN call' \ DOMAIN call /\ cv' = cv
        /\ \A y \in Calls \ {h} : pc'[y] = pc[y]
        /\ \A y \in Calls : Busy(y) => {h, y} \in crossed'
    BY <1>1, StartBegins DEF Begins, Others
  <2>2. \A y \in Calls \ {h} : Busy(y)' => Busy(y)
    BY <2>1
  <2> HIDE DEF Busy
  <2>3. QED
    BY <2>1, <2>2
<1>2. ASSUME NEW h \in Calls, Step(h) PROVE Busy(x)
  <2>1. InFlight(h) /\ \A y \in Calls \ {h} : pc'[y] = pc[y]
    BY <1>2, StepMoves DEF Moves, Others
  <2>2. cv' = cv \/ \E s : cv' = [cv EXCEPT ![h] = s]
    BY <1>2, StepListens
  <2>3. QED
    BY <2>1, <2>2 DEF InFlight, TypeOK
<1>3. ASSUME NEW h \in Calls, Abort(h) PROVE Busy(x)
  BY <1>3 DEF Abort, Own, TypeOK
<1>4. ASSUME NEW h \in Calls, Summarise(h) PROVE Busy(x)
  BY <1>4, SummariseHears, SummariseMoves DEF TypeOK
<1>5. CASE (\E k \in Ids : DeleteJob(k) \/ DeleteOffer(k)) \/ UNCHANGED vars
  BY <1>5 DEF DeleteJob, DeleteOffer, vars
<1>6. QED
  BY <1>1, <1>2, <1>3, <1>4, <1>5 DEF Next

LEMMA ListenInvNext ==
    ASSUME TypeOK, CallsInv, StoredInv, ListenInv, [Next]_vars
    PROVE  ListenInv'
<1>1. Grows /\ \A h \in DOMAIN call' \ DOMAIN call : Fresh(h)
  BY NextGrows
<1>2. ASSUME NEW h \in Calls, NEW x \in Calls, h # x, Busy(h)', Busy(x)'
      PROVE  {h, x} \in crossed'
  <2>1. CASE Busy(h) /\ Busy(x)
    BY <1>1, <1>2, <2>1 DEF ListenInv, Grows
  <2>2. CASE ~Busy(h)
    BY <1>2, <2>2, BusySource
  <2>3. CASE ~Busy(x)
    <3>1. {x, h} \in crossed'
      BY <1>2, <2>3, BusySource
    <3>2. QED
      BY <3>1
  <2>4. QED
    BY <2>1, <2>2, <2>3
<1>3. ASSUME NEW h \in Calls, cv'[h] = "none" PROVE given'[h] = None
  <2>1. CASE Hears(h)
    BY <1>3, <2>1 DEF Hears, ListenInv
  <2>2. CASE ~Hears(h)
    BY <1>3, <2>2, ListenSteps, EmitHears, ReadHears, SummariseHears DEF TypeOK
  <2>3. QED
    BY <2>1, <2>2
<1>4. ASSUME NEW h \in DOMAIN call', cv'[h] # "none"
      PROVE  /\ Op(h)' \in {"apply", "generate"} /\ Posted(call[h].id)'
             /\ pc'[h] \notin {"post_lookup", "post_save", "post_emit"}
  <2>1. h \in DOMAIN call
    BY <1>4, ListenerKnown
  <2>2. h \in Calls /\ call'[h] = call[h] /\ Op(h)' = Op(h) /\ Enters(h)
    BY <1>1, <2>1, NextEnters DEF Grows, Op
  <2>3. CASE cv[h] # "none"
    <3>1. /\ Op(h) \in {"apply", "generate"} /\ Posted(call[h].id)
          /\ pc[h] \notin {"post_lookup", "post_save", "post_emit"}
      BY <2>1, <2>3 DEF ListenInv
    <3>2. Posted(call[h].id)'
      BY <2>2, <3>1, PostedGrows DEF Posted
    <3>3. pc'[h] # "post_emit"
      BY <2>2, <3>1 DEF Enters, Same, PostSave
    <3>4. QED
      BY <2>2, <3>1, <3>2, <3>3 DEF Enters
  <2>4. CASE PostEmit(h)
    <3>1. Op(h) = "apply" /\ call[h].id = h /\ pc'[h] = "post_mail"
      BY <2>1, <2>2, <2>4, EmitHears, Placed DEF PlaceKind, CallsInv
    <3>2. Posted(h)'
      BY <1>1, <2>1, <2>2, <3>1 DEF Posted, Grows
    <3>3. QED
      BY <2>2, <3>1, <3>2 DEF Posted
  <2>5. CASE SummaryRead(h) /\ cv[h] = "none"
    <3>1. pc[h] = "summary" /\ call[h].id \in DOMAIN candidate /\ pc'[h] = "summary"
      BY <1>4, <2>2, <2>5, ReadHears DEF Hears, SummaryRead, Goto, TypeOK
    <3>2. Op(h) = "generate"
      BY <2>2, <3>1, Placed DEF PlaceKind
    <3>3. Posted(call[h].id)'
      BY <2>2, <3>1, PostedGrows DEF StoredInv, Posted
    <3>4. QED
      BY <2>2, <3>1, <3>2, <3>3
  <2>6. QED
    BY <1>4, <2>2, <2>3, <2>4, <2>5, ListenSteps, SummariseHears DEF Hears, Listening
<1>5. \A h \in DOMAIN call' : cv'[h] # "none" =>
        /\ Op(h)' \in {"apply", "generate"} /\ Posted(call[h].id)'
        /\ pc'[h] \notin {"post_lookup", "post_save", "post_emit"}
  BY <1>4
<1>6. QED
  BY <1>2, <1>3, <1>5 DEF ListenInv

-----------------------------------------------------------------------------
(* Where what concerns a summary comes from: the rows, those a call is     *)
(* about to save, and what a call knows of a resume.                       *)
LEMMA RowSource ==
    ASSUME TypeOK, CallsInv, HeldInv, [Next]_vars, NEW c \in DOMAIN candidate'
    PROVE  \/ /\ c \in DOMAIN candidate /\ candidate'[c].resume = candidate[c].resume
              /\ \/ candidate'[c].summary = candidate[c].summary
                 \/ \E x \in Calls : CVWrite(x) /\ candidate'[c].summary = given[x]
                 \/ \E x \in Calls : cv[x] = "link" /\ given[x] = None /\ call[x].id = c
           \/ /\ c \in Calls /\ PostSave(c) /\ pc[c] = "post_save"
              /\ candidate'[c].resume = call[c].resume
           \/ \E u \in DOMAIN call : Saves(u, c) /\ candidate'[c] = held[u][c]
<1> DEFINE Still == /\ c \in DOMAIN candidate /\ candidate'[c].resume = candidate[c].resume
                   /\ candidate'[c].summary = candidate[c].summary
<1>1. CASE tables' = tables
  BY <1>1 DEF tables
<1>2. ASSUME NEW h \in Calls, PostSave(h), ~Still
      PROVE  c = h /\ pc[h] = "post_save" /\ candidate'[c].resume = call[c].resume
  BY <1>2 DEF PostSave, SaveCandidate, Save, NewCandidate
<1>3. ASSUME NEW h \in Calls, PutSave(h) \/ HireSave(h), ~Still
      PROVE  h \in DOMAIN call /\ Saves(h, c) /\ candidate'[c] = held[h][c]
  <2>1. h \in DOMAIN call /\ pc[h] \in {"put_save", "hire_save"}
    BY <1>3 DEF PutSave, HireSave, CallsInv
  <2>2. \/ candidate' = candidate
        \/ candidate' = Save(candidate, call[h].id, held[h][call[h].id])
    BY <1>3 DEF PutSave, HireSave, SaveCandidate
  <2>3. c = call[h].id /\ candidate'[c] = held[h][c]
    BY <1>3, <2>2 DEF Save
  <2>4. QED
    BY <2>1, <2>3 DEF Saves
<1>4. ASSUME NEW h \in Calls, JobSave(h) PROVE Still
  <2>1. \A k \in DOMAIN candidate : candidate[k] \in CandidateRow
    BY DEF TypeOK, IsTable
  <2>2. \A k \in DOMAIN candidate : \A j :
          /\ [candidate[k] EXCEPT !.job = j].resume = candidate[k].resume
          /\ [candidate[k] EXCEPT !.job = j].summary = candidate[k].summary
    BY <2>1 DEF CandidateRow
  <2>3. QED
    BY <1>4, <2>2 DEF JobSave, Listed
<1>5. ASSUME NEW h \in Calls, Changes(h),
             ~(PostSave(h) \/ PutSave(h) \/ HireSave(h) \/ JobSave(h))
      PROVE  Still
  <2>1. CASE DeleteRow(h)
    BY <2>1 DEF DeleteRow, Delete
  <2>2. CASE ~DeleteRow(h)
    <3>1. candidate' = candidate
      BY <1>5, <2>2 DEF Changes, DeletePools, PoolPost, PoolSave, MergeSave, PoolDelete, JobPost,
         OfferPost, OfferSave, HireInsert, HireResume, JobInfoSave
    <3>2. QED
      BY <3>1
  <2>3. QED
    BY <2>1, <2>2
<1>6. ASSUME NEW k \in Ids, DeleteJob(k) \/ DeleteOffer(k) PROVE Still
  BY <1>6 DEF DeleteJob, DeleteOffer
<1>7. ASSUME NEW x \in Calls, Summarise(x), candidate' # candidate
      PROVE  /\ c \in DOMAIN candidate /\ candidate'[c].resume = candidate[c].resume
             /\ \/ candidate'[c].summary = candidate[c].summary
                \/ CVWrite(x) /\ candidate'[c].summary = given[x]
                \/ cv[x] = "link" /\ given[x] = None /\ call[x].id = c
  <2>1. PICK s : /\ Write(x, s)
                 /\ \/ CVWrite(x) /\ s = given[x]
                    \/ cv[x] = "link" /\ given[x] = None
    BY <1>7 DEF Summarise, CVLink, CVAsk, CVWrite, CVFails, Listen
  <2>2. /\ c \in DOMAIN candidate
        /\ candidate'[c] = IF c = call[x].id THEN [candidate[c] EXCEPT !.summary = s]
                           ELSE candidate[c]
    BY <1>7, <2>1 DEF Write, Save
  <2>3. candidate[c] \in CandidateRow
    BY <2>2 DEF TypeOK, IsTable
  <2>4. /\ [candidate[c] EXCEPT !.summary = s].resume = candidate[c].resume
        /\ [candidate[c] EXCEPT !.summary = s].summary = s
    BY <2>3 DEF CandidateRow
  <2>5. QED
    BY <2>1, <2>2, <2>4
<1>8. ASSUME NEW x \in Calls, Summarise(x), candidate' = candidate PROVE Still
  BY <1>8
<1>9. QED
  BY <1>1, <1>2, <1>3, <1>4, <1>5, <1>6, <1>7, <1>8, NextChanges

LEMMA HeldSource ==
    ASSUME TypeOK, CallsInv, [Next]_vars, NEW u \in DOMAIN call', NEW c, Saves(u, c)'
    PROVE  /\ u \in DOMAIN call /\ u \in Calls /\ call'[u] = call[u] /\ call[u].id = c
           /\ InFlight(u) /\ Op(u) \in {"update", "hire"}
           /\ \/ Saves(u, c) /\ held'[u] = held[u]
              \/ /\ c \in DOMAIN candidate /\ held'[u][c].summary = candidate[c].summary
                 /\ \/ held'[u][c].resume = candidate[c].resume
                    \/ Op(u) = "update" /\ held'[u][c].resume = call[u].resume
<1>1. u \in DOMAIN call /\ call'[u] = call[u] /\ u \in Calls /\ Enters(u)
  <2>1. Grows /\ \A h \in DOMAIN call' \ DOMAIN call : Fresh(h)
    BY NextGrows
  <2>2. u \in DOMAIN call
    BY <2>1, FreshPlace DEF Saves, FirstPlaces
  <2>3. QED
    BY <2>1, <2>2, NextEnters DEF Grows
<1>2. call[u] \in Asked /\ PlaceKind(u) /\ call[u].id = c /\ pc'[u] \in {"put_save", "hire_save"}
  BY <1>1, KindOfPlace DEF Saves
<1>3. CASE Same(u)
  BY <1>1, <1>2, <1>3 DEF Same, Saves, PlaceKind, Hiring, InFlight
<1>4. CASE ~Same(u) /\ pc'[u] = "put_save"
  <2>1. PutRead(u)
    BY <1>1, <1>4 DEF Enters
  <2>2. /\ Op(u) = "update" /\ c \in DOMAIN candidate /\ candidate[c] \in CandidateRow
        /\ held'[u] = One(c, Updated(candidate[c], call[u]))
    BY <1>1, <1>2, <1>4, <2>1, PutReadRow
  <2>3. /\ Updated(candidate[c], call[u]).summary = candidate[c].summary
        /\ Updated(candidate[c], call[u]).resume = Replies(call[u].resume, candidate[c].resume)
    BY <1>2, <2>2, UpdatedRow DEF Op
  <2>4. held'[u][c] = Updated(candidate[c], call[u])
    BY <2>2 DEF One
  <2>5. InFlight(u)
    BY <2>1 DEF PutRead, Read, InFlight
  <2>6. QED
    BY <1>1, <1>2, <2>2, <2>3, <2>4, <2>5 DEF Replies
<1>5. CASE ~Same(u) /\ pc'[u] = "hire_save"
  <2>1. HireRead(u)
    BY <1>1, <1>5 DEF Enters
  <2>2. /\ Op(u) = "hire" /\ c \in DOMAIN candidate /\ candidate[c] \in CandidateRow
        /\ held'[u] = One(c, Hired(candidate[c], emp[u])) /\ pc[u] = "hire_read"
    BY <1>1, <1>2, <1>5, <2>1, HireReadRow
  <2>3. /\ Hired(candidate[c], emp[u]).summary = candidate[c].summary
        /\ Hired(candidate[c], emp[u]).resume = candidate[c].resume
    <3>1. emp[u] \in Calls \cup {None}
      BY <1>1 DEF TypeOK
    <3>2. QED
      BY <2>2, <3>1, HiredRow
  <2>4. held'[u][c] = Hired(candidate[c], emp[u])
    BY <2>2 DEF One
  <2>5. QED
    BY <1>1, <1>2, <2>2, <2>3, <2>4 DEF InFlight
<1>6. QED
  BY <1>2, <1>3, <1>4, <1>5

LEMMA ToldSource ==
    ASSUME TypeOK, CallsInv, ListenInv, [Next]_vars, NEW h \in DOMAIN call', Told(h)'
    PROVE  /\ h \in DOMAIN call /\ h \in Calls /\ call'[h] = call[h]
           /\ \/ Told(h)
              \/ /\ PostSave(h) /\ pc[h] = "post_save" /\ pc'[h] = "post_emit" /\ InFlight(h)
                 /\ Op(h) = "apply" /\ call[h].id = h /\ call[h].resume \in Resumes
              \/ /\ SummaryRead(h) /\ pc[h] = "summary" /\ InFlight(h) /\ Op(h) = "generate"
                 /\ call[h].id \in DOMAIN candidate /\ candidate[call[h].id].resume \in Resumes
<1>1. Grows /\ \A x \in DOMAIN call' \ DOMAIN call : Fresh(x)
  BY NextGrows
<1>2. h \in DOMAIN call
  <2>1. SUFFICES ASSUME h \notin DOMAIN call PROVE FALSE
    OBVIOUS
  <2>2. Fresh(h) /\ pc'[h] # "post_emit" /\ given' = given
    BY <1>1, <2>1, FreshPlace DEF FirstPlaces, Fresh, locals
  <2>3. h \in Calls /\ given[h] = None
    BY <2>1, <2>2 DEF Fresh, CallsInv, ListenInv
  <2>4. QED
    BY <2>2, <2>3, IdsAssumption DEF Told
<1>3. h \in Calls /\ call'[h] = call[h] /\ Enters(h)
  BY <1>1, <1>2, NextEnters DEF Grows
<1>4. ASSUME pc'[h] = "post_emit", call[h].resume \in Resumes, ~Told(h)
      PROVE  /\ PostSave(h) /\ pc[h] = "post_save" /\ InFlight(h)
             /\ Op(h) = "apply" /\ call[h].id = h
  <2>1. PostSave(h) /\ pc[h] = "post_save"
    BY <1>3, <1>4 DEF Enters, Same, Told, PostSave
  <2>2. Op(h) \in {"apply", "career"} /\ call[h].id = h
    BY <1>2, <1>3, <2>1, Placed DEF PlaceKind, Posting, CallsInv
  <2>3. Op(h) = "apply"
    BY <1>3, <1>4, <2>1, <2>2 DEF PostSave, SaveCandidate, Goto, TypeOK, Op
  <2>4. QED
    BY <2>1, <2>2, <2>3 DEF InFlight
<1>5. ASSUME given'[h] \in Resumes, ~Told(h)
      PROVE  /\ SummaryRead(h) /\ pc[h] = "summary" /\ InFlight(h) /\ Op(h) = "generate"
             /\ call[h].id \in DOMAIN candidate /\ candidate[call[h].id].resume \in Resumes
  <2>1. given'[h] # given[h]
    BY <1>5 DEF Told
  <2>2. ~PostEmit(h)
    BY <1>3, <1>5, EmitHears DEF Told
  <2>3. SummaryRead(h)
    BY <1>3, <2>1, <2>2, ListenSteps, SummariseHears DEF Hears
  <2>4. /\ pc[h] = "summary" /\ call[h].id \in DOMAIN candidate
        /\ candidate[call[h].id].resume \in Resumes
    BY <1>3, <1>5, <2>1, <2>3, ReadHears DEF Hears
  <2>5. QED
    BY <1>2, <1>3, <2>3, <2>4, Placed DEF PlaceKind, InFlight
<1>6. QED
  BY <1>2, <1>3, <1>4, <1>5 DEF Told

(* Whoever knows of a resume knows a candidate that is stored.             *)
LEMMA ToldOfStored ==
    ASSUME TypeOK, CallsInv, ListenInv, NEW h \in DOMAIN call, Told(h)
    PROVE  Posted(call[h].id) /\ (pc[h] = "post_emit" => call[h].id = h)
<1>1. h \in Calls
  BY DEF TypeOK, IsTable
<1>2. pc[h] = "post_emit" => call[h].id = h /\ Op(h) = "apply"
  BY <1>1, Placed DEF PlaceKind, CallsInv
<1>3. given[h] \in Resumes => Posted(call[h].id)
  BY <1>1, IdsAssumption DEF ListenInv
<1>4. QED
  BY <1>2, <1>3 DEF Told, Posted

LEMMA NotYetPosted ==
    ASSUME TypeOK, CallsInv, NEW c \in Calls, pc[c] = "post_save"
    PROVE  ~Posted(c)
  BY IdsAssumption DEF Posted

LEMMA ExcusedGrows ==
    ASSUME TypeOK, CallsInv, ListenInv, [Next]_vars, NEW h \in DOMAIN call, Excused(h)
    PROVE  Excused(h)'
<1>1. Grows
  BY NextGrows
<1>2. call'[h] = call[h]
  BY <1>1 DEF Grows
<1>3. CASE Crossed(h, {"update", "hire"})
  BY <1>1, <1>3, CrossedGrows DEF Excused
<1>4. CASE Cleared(h)
  <2>1. PICK x \in About({"apply", "generate"}, call[h].id) :
          x # h /\ {h, x} \in crossed /\ cv[x] # "none" /\ given[x] = None
    BY <1>4 DEF Cleared
  <2>2. x \in DOMAIN call /\ Op(x) \in {"apply", "generate"} /\ call[x].id = call[h].id
    BY <2>1 DEF About
  <2>3. /\ x \in DOMAIN call' /\ call'[x] = call[x] /\ {h, x} \in crossed'
        /\ cv'[x] # "none" /\ given'[x] = None
    BY <1>1, <2>1, <2>2, ListenerStays DEF Grows
  <2>4. Cleared(h)'
    BY <1>2, <2>1, <2>2, <2>3 DEF Cleared, About, Op
  <2>5. QED
    BY <2>4 DEF Excused
<1>5. CASE Withdrawn(call[h].id)
  <2>1. PICK u \in About({"update"}, call[h].id) : call[u].resume = None
    BY <1>5 DEF Withdrawn
  <2>2. u \in DOMAIN call /\ Op(u) = "update" /\ call[u].id = call[h].id /\ call'[u] = call[u]
    BY <1>1, <2>1 DEF About, Grows
  <2>3. Withdrawn(call[h].id)'
    BY <1>1, <1>2, <2>1, <2>2 DEF Withdrawn, About, Op, Grows
  <2>4. QED
    BY <2>3 DEF Excused
<1>6. QED
  BY <1>3, <1>4, <1>5 DEF Excused

(* An edit or a hire in flight with a call that learns of a resume.        *)
LEMMA SaverCrosses ==
    ASSUME TypeOK, CallsInv, NEW h \in DOMAIN call, NEW u \in DOMAIN call,
           InFlight(h), InFlight(u), Op(u) \in {"update", "hire"}, Op(h) \notin {"update", "hire"}
    PROVE  Excused(h)
<1>1. h # u
  OBVIOUS
<1>2. QED
  BY <1>1, FlightsCross DEF Excused

-----------------------------------------------------------------------------
(* ResumeInv, ClearInv and WrittenInv are inductive, with SummaryStays.    *)
LEMMA ResumeInvNext ==
    ASSUME TypeOK, CallsInv, HeldInv, StoredInv, ListenInv, ResumeInv, [Next]_vars
    PROVE  ResumeInv'
<1>1. SUFFICES ASSUME NEW h \in DOMAIN call', Told(h)'
               PROVE  /\ call'[h].id \in DOMAIN candidate' =>
                           candidate'[call'[h].id].resume # None \/ Excused(h)'
                      /\ \A u \in DOMAIN call' : Saves(u, call[h].id)' =>
                           held'[u][call'[h].id].resume # None \/ Excused(h)'
  BY DEF ResumeInv
<1>2. PICK c : c = call[h].id
  OBVIOUS
<1>3. h \in DOMAIN call /\ h \in Calls /\ call'[h].id = c /\ (Excused(h) => Excused(h)')
  BY <1>1, <1>2, ToldSource, ExcusedGrows
<1>4. Told(h) =>
        /\ c \in DOMAIN candidate => candidate[c].resume # None \/ Excused(h)
        /\ \A u \in DOMAIN call : Saves(u, c) => held[u][c].resume # None \/ Excused(h)
  BY <1>2, <1>3 DEF ResumeInv
<1>5. ASSUME c \in DOMAIN candidate' PROVE candidate'[c].resume # None \/ Excused(h)'
  <2>1. CASE Told(h)
    <3>1. ~(c \in Calls /\ pc[c] = "post_save")
      BY <1>2, <1>3, <2>1, ToldOfStored, NotYetPosted
    <3>2. QED
      BY <1>3, <1>4, <1>5, <2>1, <3>1, RowSource
  <2>2. CASE PostSave(h) /\ pc'[h] = "post_emit" /\ c = h /\ call[h].resume \in Resumes
    <3>1. candidate' = Save(candidate, h, NewCandidate(call[h].job, call[h].resume))
      BY <1>3, <2>2 DEF PostSave, SaveCandidate, Goto, TypeOK
    <3>2. candidate'[c].resume = call[h].resume
      BY <2>2, <3>1 DEF Save, NewCandidate
    <3>3. QED
      BY <2>2, <3>2, IdsAssumption
  <2>3. CASE SummaryRead(h) /\ candidate[c].resume \in Resumes
    BY <2>3, IdsAssumption DEF SummaryRead, tables
  <2>4. QED
    BY <1>1, <1>2, <2>1, <2>2, <2>3, ToldSource
<1>6. ASSUME NEW u \in DOMAIN call', Saves(u, c)'
      PROVE  held'[u][c].resume # None \/ Excused(h)'
  <2>1. /\ u \in DOMAIN call /\ call'[u] = call[u] /\ call[u].id = c
        /\ InFlight(u) /\ Op(u) \in {"update", "hire"}
        /\ \/ Saves(u, c) /\ held'[u] = held[u]
           \/ /\ c \in DOMAIN candidate
              /\ \/ held'[u][c].resume = candidate[c].resume
                 \/ Op(u) = "update" /\ held'[u][c].resume = call[u].resume
    BY <1>6, HeldSource
  <2>2. CASE Told(h)
    <3>1. Op(u) = "update" /\ call[u].resume = None => Withdrawn(c)
      BY <2>1 DEF Withdrawn, About
    <3>2. Withdrawn(c) => Excused(h)
      BY <1>2 DEF Excused
    <3>3. QED
      BY <1>3, <1>4, <2>1, <2>2, <3>1, <3>2
  <2>3. CASE ~Told(h)
    <3>1. InFlight(h) /\ Op(h) \notin {"update", "hire"}
      BY <1>1, <2>3, ToldSource
    <3>2. QED
      BY <1>3, <2>1, <3>1, SaverCrosses
  <2>4. QED
    BY <2>2, <2>3
<1>7. ASSUME NEW u \in DOMAIN call', Saves(u, call[h].id)'
      PROVE  held'[u][call'[h].id].resume # None \/ Excused(h)'
  <2>1. Saves(u, c)'
    BY <1>3, <1>7 DEF Saves
  <2>2. QED
    BY <1>3, <1>6, <2>1
<1>8. QED
  BY <1>3, <1>5, <1>7

LEMMA ClearInvNext ==
    ASSUME TypeOK, CallsInv, StoredInv, ListenInv, ResumeInv, ClearInv, [Next]_vars
    PROVE  ClearInv'
<1>1. Grows /\ \A h \in DOMAIN call' \ DOMAIN call : Fresh(h)
  BY NextGrows
<1>2. SUFFICES ASSUME NEW h \in DOMAIN call', NEW x \in DOMAIN call', Told(h)', h # x,
                      call'[x].id = call'[h].id
               PROVE  /\ cv'[x] = "link" /\ given'[x] = None => Excused(h)'
                      /\ pc'[x] = "post_emit" => {h, x} \in crossed'
  BY DEF ClearInv
<1>3. PICK c : c = call[h].id
  OBVIOUS
<1>4. h \in DOMAIN call /\ h \in Calls /\ call'[h] = call[h] /\ (Excused(h) => Excused(h)')
  BY <1>2, ToldSource, ExcusedGrows
<1>5. CASE x \notin DOMAIN call
  <2>1. Fresh(x) /\ x \in Calls /\ pc'[x] # "post_emit"
    BY <1>1, <1>5, FreshPlace DEF Fresh, FirstPlaces
  <2>2. cv'[x] = "none"
    BY <1>5, <2>1, ListenerKnown
  <2>3. QED
    BY <2>1, <2>2
<1>6. CASE x \in DOMAIN call
  <2>1. x \in Calls /\ call'[x] = call[x] /\ call[x].id = c /\ Enters(x)
    BY <1>1, <1>2, <1>3, <1>4, <1>6, NextEnters DEF Grows
  <2>2. Told(h) =>
          /\ cv[x] = "link" /\ given[x] = None => Excused(h)
          /\ pc[x] = "post_emit" => {h, x} \in crossed
    BY <1>2, <1>3, <1>4, <1>6, <2>1 DEF ClearInv
  <2>3. \/ Told(h)
        \/ /\ PostSave(h) /\ pc[h] = "post_save" /\ pc'[h] = "post_emit" /\ InFlight(h)
           /\ Op(h) = "apply" /\ c = h
        \/ /\ SummaryRead(h) /\ pc[h] = "summary" /\ InFlight(h) /\ Op(h) = "generate"
           /\ c \in DOMAIN candidate /\ candidate[c].resume \in Resumes
    BY <1>2, <1>3, ToldSource
  <2>4. ASSUME cv'[x] = "link", given'[x] = None PROVE Excused(h)'
    <3>1. CASE Hears(x)
      <4>1. cv[x] = "link" /\ given[x] = None
        BY <2>4, <3>1 DEF Hears
      <4>2. Op(x) \in {"apply", "generate"} /\ Posted(c)
        BY <1>6, <2>1, <4>1 DEF ListenInv
      <4>3. ~(c = h /\ pc[h] = "post_save")
        BY <1>4, <4>2, NotYetPosted
      <4>4. CASE SummaryRead(h) /\ InFlight(h)
        <5>1. Busy(h) /\ Busy(x)
          BY <4>1, <4>4 DEF Busy, InFlight, Listening
        <5>2. {h, x} \in crossed
          BY <1>2, <1>4, <2>1, <5>1 DEF ListenInv
        <5>3. Cleared(h)
          BY <1>2, <1>3, <1>6, <2>1, <4>1, <4>2, <5>2 DEF Cleared, About
        <5>4. QED
          BY <1>4, <5>3 DEF Excused
      <4>5. QED
        BY <1>4, <2>2, <2>3, <4>1, <4>3, <4>4
    <3>2. CASE PostEmit(x)
      <4>1. pc[x] = "post_emit" /\ pc'[x] = "post_mail" /\ Op(x) = "apply"
        BY <2>1, <3>2, EmitHears, Placed DEF PlaceKind
      <4>2. CASE Told(h)
        <5>1. {h, x} \in crossed'
          BY <1>1, <2>2, <4>1, <4>2 DEF Grows
        <5>2. Cleared(h)'
          BY <1>2, <1>4, <2>1, <2>4, <4>1, <5>1 DEF Cleared, About, Op
        <5>3. QED
          BY <5>2 DEF Excused
      <4>3. CASE PostSave(h) \/ SummaryRead(h)
        <5>1. Step(h)
          BY <4>3 DEF Step
        <5>2. pc'[x] = pc[x]
          BY <1>2, <1>4, <2>1, <5>1, StepMoves DEF Moves, Others
        <5>3. QED
          BY <4>1, <5>2
      <4>4. QED
        BY <2>3, <4>2, <4>3
    <3>3. CASE SummaryRead(x) /\ ~Hears(x)
      <4>1. c \in DOMAIN candidate /\ candidate[c].resume = None
        BY <2>1, <2>4, <3>3, ReadHears
      <4>2. CASE Told(h)
        BY <1>3, <1>4, <4>1, <4>2 DEF ResumeInv
      <4>3. CASE ~Told(h)
        <5>1. given'[h] = given[h] /\ pc'[h] = pc[h]
          BY <1>2, <1>4, <3>3 DEF SummaryRead, Goto, TypeOK
        <5>2. QED
          BY <1>2, <1>4, <4>3, <5>1 DEF Told
      <4>4. QED
        BY <4>2, <4>3
    <3>4. ~Summarise(x) \/ cv'[x] # "link"
      BY <2>1, SummariseHears DEF TypeOK
    <3>5. QED
      BY <2>1, <2>4, <3>1, <3>2, <3>3, <3>4, ListenSteps
  <2>5. ASSUME pc'[x] = "post_emit" PROVE {h, x} \in crossed'
    <3>1. CASE Same(x)
      <4>1. pc[x] = "post_emit" /\ InFlight(x)
        BY <2>5, <3>1 DEF Same, InFlight
      <4>2. c = x
        BY <1>6, <2>1, <4>1, Placed DEF PlaceKind, CallsInv
      <4>3. InFlight(h) => {h, x} \in crossed
        BY <1>2, <1>4, <2>1, <4>1 DEF CallsInv
      <4>4. QED
        BY <1>1, <1>2, <2>2, <2>3, <4>1, <4>2, <4>3 DEF Grows
    <3>2. CASE PostSave(x)
      <4>1. pc[x] = "post_save" /\ c = x
        <5>1. pc[x] = "post_save"
          BY <3>2 DEF PostSave
        <5>2. QED
          BY <1>6, <2>1, <5>1, Placed DEF PlaceKind, Posting, CallsInv
      <4>2. ~Posted(c)
        BY <2>1, <4>1, NotYetPosted
      <4>3. ~Told(h) /\ c \notin DOMAIN candidate
        BY <1>3, <1>4, <4>2, ToldOfStored DEF StoredInv
      <4>4. QED
        BY <1>2, <2>3, <4>1, <4>3
    <3>3. QED
      BY <2>1, <2>5, <3>1, <3>2 DEF Enters
  <2>6. QED
    BY <2>4, <2>5
<1>7. QED
  BY <1>5, <1>6

Wrote(h) == cv[h] = "over" /\ given[h] \in Resumes

LEMMA WroteSource ==
    ASSUME TypeOK, CallsInv, ListenInv, [Next]_vars, NEW h \in DOMAIN call', Wrote(h)'
    PROVE  /\ h \in DOMAIN call /\ h \in Calls /\ call'[h] = call[h] /\ Told(h)
           /\ given[h] \in Resumes /\ (Wrote(h) \/ CVWrite(h))
<1>1. h \in DOMAIN call /\ h \in Calls /\ call'[h] = call[h]
  BY ToldSource DEF Wrote, Told
<1>2. cv[h] # "none" => given'[h] = given[h]
  BY <1>1, ListenerStays
<1>3. CASE Hears(h)
  BY <1>1, <1>3 DEF Hears, Wrote, Told
<1>4. CASE Summarise(h)
  <2>1. given[h] \in Resumes
    BY <1>4, <1>1, <1>2, SummariseHears DEF Listening, Wrote
  <2>2. cv'[h] = "over"
    BY DEF Wrote
  <2>3. CVWrite(h)
    BY <1>1, <1>4, <2>1, <2>2, IdsAssumption, SummariseHears DEF TypeOK
  <2>4. QED
    BY <1>1, <2>1, <2>3 DEF Told
<1>5. ~PostEmit(h) /\ (SummaryRead(h) => Hears(h))
  BY <1>1, EmitHears, ReadHears DEF Wrote
<1>6. QED
  BY <1>1, <1>3, <1>4, <1>5, ListenSteps

LEMMA SummaryNext ==
    ASSUME TypeOK, CallsInv, HeldInv, StoredInv, SummaryInv, SummaryStays, [Next]_vars
    PROVE  WrittenInv' /\ SummaryStays'
<1> USE DEF SummaryInv
<1>1. ASSUME NEW h \in DOMAIN call', Wrote(h)', NEW c, c = call'[h].id
      PROVE  /\ c \in DOMAIN candidate' => candidate'[c].summary # None \/ Excused(h)'
             /\ \A u \in DOMAIN call' : Saves(u, c)' => held'[u][c].summary # None \/ Excused(h)'
  <2>1. /\ h \in DOMAIN call /\ h \in Calls /\ c = call[h].id /\ Told(h) /\ given[h] \in Resumes
        /\ Wrote(h) \/ CVWrite(h)
    BY <1>1, WroteSource
  <2>2. Excused(h) => Excused(h)'
    BY <2>1, ExcusedGrows
  <2>3. given[h] # None /\ None \notin Resumes
    BY <2>1, IdsAssumption
  <2>4. Wrote(h) =>
          /\ c \in DOMAIN candidate => candidate[c].summary # None \/ Excused(h)
          /\ \A u \in DOMAIN call : Saves(u, c) => held[u][c].summary # None \/ Excused(h)
    BY <2>1 DEF Wrote, SummaryStays, WrittenInv
  <2>5. ASSUME c \in DOMAIN candidate' PROVE candidate'[c].summary # None \/ Excused(h)'
    <3>1. CASE CVWrite(h)
      <4>1. Write(h, given[h])
        BY <3>1 DEF CVWrite
      <4>2. c \in DOMAIN candidate /\ candidate'[c] = [candidate[c] EXCEPT !.summary = given[h]]
        BY <2>1, <2>5, <4>1 DEF Write, Save
      <4>3. candidate[c] \in CandidateRow
        BY <4>2 DEF TypeOK, IsTable
      <4>4. candidate'[c].summary = given[h]
        BY <4>2, <4>3 DEF CandidateRow
      <4>5. QED
        BY <2>3, <4>4
    <3>2. CASE Wrote(h)
      <4>1. ~(c \in Calls /\ pc[c] = "post_save")
        BY <2>1, ToldOfStored, NotYetPosted
      <4>2. ASSUME NEW x \in Calls, CVWrite(x) PROVE given[x] # None
        BY <2>3, <4>2 DEF CVWrite, TypeOK
      <4>3. ASSUME NEW x \in Calls, cv[x] = "link", given[x] = None, call[x].id = c
            PROVE  Excused(h)
        <5>1. x \in DOMAIN call /\ x # h
          BY <2>3, <4>3 DEF CallsInv
        <5>2. QED
          BY <2>1, <4>3, <5>1 DEF ClearInv
      <4>4. QED
        BY <2>2, <2>4, <2>5, <3>2, <4>1, <4>2, <4>3, RowSource
    <3>3. QED
      BY <2>1, <3>1, <3>2
  <2>6. ASSUME NEW u \in DOMAIN call', Saves(u, c)'
        PROVE  held'[u][c].summary # None \/ Excused(h)'
    <3>1. /\ u \in DOMAIN call /\ u \in Calls /\ InFlight(u) /\ Op(u) \in {"update", "hire"}
          /\ \/ Saves(u, c) /\ held'[u] = held[u]
             \/ c \in DOMAIN candidate /\ held'[u][c].summary = candidate[c].summary
      BY <2>6, HeldSource
    <3>2. CASE Wrote(h)
      BY <2>2, <2>4, <3>1, <3>2
    <3>3. CASE CVWrite(h)
      <4>1. cv[h] = "write"
        BY <3>3 DEF CVWrite
      <4>2. Op(h) \in {"apply", "generate"} /\ Busy(h) /\ Busy(u)
        BY <2>1, <3>1, <4>1 DEF ListenInv, Busy, InFlight, Listening
      <4>3. h # u
        BY <3>1, <4>2
      <4>4. {h, u} \in crossed
        BY <2>1, <3>1, <4>2, <4>3 DEF ListenInv
      <4>5. Crossed(h, {"update", "hire"})
        BY <3>1, <4>3, <4>4 DEF Crossed
      <4>6. QED
        BY <2>2, <4>5 DEF Excused
    <3>4. QED
      BY <2>1, <3>2, <3>3
  <2>7. QED
    BY <2>5, <2>6
<1>2. WrittenInv'
  <2>1. \A h, u \in DOMAIN call' : Wrote(h)' /\ Saves(u, call[h].id)' =>
          held'[u][call'[h].id].summary # None \/ Excused(h)'
    <3>1. SUFFICES ASSUME NEW h \in DOMAIN call', NEW u \in DOMAIN call', Wrote(h)',
                          Saves(u, call[h].id)'
                   PROVE  held'[u][call'[h].id].summary # None \/ Excused(h)'
      OBVIOUS
    <3>2. PICK c : c = call'[h].id
      OBVIOUS
    <3>3. Saves(u, c)'
      BY <3>1, <3>2 DEF Saves
    <3>4. QED
      BY <1>1, <3>1, <3>2, <3>3
  <2>2. QED
    BY <2>1 DEF WrittenInv, Wrote
<1>3. SummaryStays'
  BY <1>1 DEF SummaryStays, Wrote
<1>4. QED
  BY <1>2, <1>3

-----------------------------------------------------------------------------
(* The conjunction of all is inductive, and so each part of it holds.      *)
LEMMA InitIInv == Init => IInv
<1> SUFFICES ASSUME Init PROVE IInv
  OBVIOUS
<1>1. DOMAIN call = {} /\ IsTable(call, Calls, Asked)
  BY DEF Init, NoRows, IsTable
<1>2. DOMAIN staff = {} /\ IsTable(staff, Calls, SUBSET Calls)
  BY DEF Init, NoRows, IsTable
<1>3. IsTable(candidate, Ids, CandidateRow) /\ DOMAIN candidate = Known
  <2>1. \A j \in Known, r \in Resumes : NewCandidate(j, r) \in CandidateRow
    BY PostedRow DEF Ids, Questions
  <2>2. candidate \in [Known -> CandidateRow]
    BY <2>1 DEF Init
  <2>3. QED
    BY <2>2 DEF IsTable, Ids
<1>4. IsTable(pool, Ids, SUBSET Ids) /\ IsTable(offer, Ids, OfferRow)
  BY DEF Init, IsTable, Ids, OfferRow, Answers
<1>5. TypeOK
  BY <1>1, <1>2, <1>3, <1>4 DEF Init, TypeOK, Ids, Steps, CvSteps, Questions
<1>6. CallsInv /\ HeldInv /\ StoredInv /\ PoolsInv /\ AcceptInv /\ ApplyInv
  BY <1>1, <1>3 DEF Init, CallsInv, HeldInv, StoredInv, PoolsInv, AcceptInv, ApplyInv, InFlight, Posted,
     Offered, Answered
<1>7. EmployeeInv /\ JobsInv /\ NotedInv
  BY <1>1 DEF Init, EmployeeInv, JobsInv, NotedInv
<1>8. SummaryInv /\ SummaryStays
  BY <1>1 DEF Init, SummaryInv, ListenInv, ResumeInv, ClearInv, WrittenInv, SummaryStays, Busy, Listening
<1>9. PoolsNameCandidates /\ AcceptanceStands /\ ApplicantsStay /\ HireIsRecorded
  <2>1. PoolsNameCandidates
    BY <1>3 DEF Init, PoolsNameCandidates
  <2>2. AcceptanceStands /\ HireIsRecorded
    BY <1>1 DEF AcceptanceStands, HireIsRecorded, Answered
  <2>3. ApplicantsStay
    BY <1>3 DEF Init, ApplicantsStay, AppliedTo
  <2>4. QED
    BY <2>1, <2>2, <2>3
<1>10. QED
  BY <1>5, <1>6, <1>7, <1>8, <1>9 DEF IInv, HireInv

LEMMA NextIInv == IInv /\ [Next]_vars => IInv'
<1> SUFFICES ASSUME IInv, [Next]_vars PROVE IInv'
  OBVIOUS
<1> USE DEF IInv, HireInv
<1>1. TypeOK' /\ CallsInv' /\ HeldInv' /\ StoredInv'
  BY TypeNext, CallsInvNext, HeldInvNext, StoredInvNext
<1>2. PoolsInv' /\ PoolsNameCandidates'
  BY PoolsInvNext, PoolsNext
<1>3. AcceptInv' /\ AcceptanceStands'
  BY AcceptInvNext, AcceptanceNext
<1>4. ApplyInv' /\ ApplicantsStay'
  BY ApplyInvNext, ApplicantsNext
<1>5. EmployeeInv' /\ JobsInv' /\ NotedInv'
  BY EmployeeInvNext, JobsInvNext, NotedInvNext
<1>6. HireIsRecorded'
  BY <1>5, HireIsRecordedFollows DEF JobsInv, NotedInv, HireIsRecorded, Answered
<1>7. SummaryInv' /\ SummaryStays'
  BY ListenInvNext, ResumeInvNext, ClearInvNext, SummaryNext DEF SummaryInv
<1>8. QED
  BY <1>1, <1>2, <1>3, <1>4, <1>5, <1>6, <1>7

(* IInv holds in every reachable state.                                    *)
THEOREM RecruitmentInductive == Spec => []IInv
  BY InitIInv, NextIInv, PTL DEF Spec

(* The tables, the shared field and the locals of the hiring services keep *)
(* their types.                                                            *)
THEOREM RecruitmentTypeCorrect == Spec => []TypeOK
<1>1. IInv => TypeOK
  BY DEF IInv
<1>2. QED
  BY RecruitmentInductive, <1>1, PTL

(* removeCandidateFromAllPools is thorough: a talent pool names no         *)
(* candidate who is gone, unless the candidate went with a deleted job or  *)
(* the deletion crossed one of the calls that save pools.                  *)
THEOREM PoolsAlwaysNameCandidates == Spec => []PoolsNameCandidates
<1>1. IInv => PoolsNameCandidates
  BY DEF IInv
<1>2. QED
  BY RecruitmentInductive, <1>1, PTL

(* Whatever interleaves and fails, a candidate stays with the job applied  *)
(* for, unless an edit names another or a form of the job that was open at *)
(* the time is saved.                                                      *)
THEOREM ApplicantsAlwaysStay == Spec => []ApplicantsStay
<1>1. IInv => ApplicantsStay
  BY DEF IInv
<1>2. QED
  BY RecruitmentInductive, <1>1, PTL

(* A hire that hireEmployee has answered is on record, with its own        *)
(* employee, for good: only another hire, which shares the field           *)
(* savedEmployee, and an edit of the candidate can spoil it by crossing.   *)
THEOREM HiresAreRecorded == Spec => []HireIsRecorded
<1>1. IInv => HireIsRecorded
  BY DEF IInv
<1>2. QED
  BY RecruitmentInductive, <1>1, PTL

(* An answer to an offer stands until the candidate opens the letter       *)
(* again, unless the form of an edit was open when it was given.           *)
THEOREM AnswersStand == Spec => []AcceptanceStands
<1>1. IInv => AcceptanceStands
  BY DEF IInv
<1>2. QED
  BY RecruitmentInductive, <1>1, PTL

(* With any number of calls, a summary that CVSummary has written of a     *)
(* resume is lost only to an edit or a hire that crossed the call, to a    *)
(* listener that crossed it and knew of no resume, or after an edit took   *)
(* the question off the candidate.                                         *)
THEOREM SummariesStay == Spec => []SummaryStays
<1>1. IInv => SummaryStays
  BY DEF IInv
<1>2. QED
  BY RecruitmentInductive, <1>1, PTL
=============================================================================
