---------------------------- MODULE OfficeProofs ----------------------------
(***************************************************************************)
(* Proofs about Office.  About what employees answer, for every number of  *)
(* calls, employees and forms: its types, that the answers of an employee  *)
(* stay, and that an approved answer has its documents and its one         *)
(* licence.  About boarding, for every number of calls, employees, tasks   *)
(* and rows: its types, that what is given to an employee stays, and that  *)
(* it names a stored task.  About documents, for every number of calls and *)
(* rows: its types, that a row links a stored object, and that only what a *)
(* call names is removed.                                                  *)
(***************************************************************************)
EXTENDS Office, TLAPS

(* Answers of some employees are a function from a set of them.            *)
Answers == UNION {[E -> Response] : E \in SUBSET Employees}

LEMMA AnswersAre ==
    \A rs : rs \in Answers <=> DOMAIN rs \subseteq Employees /\ rs \in [DOMAIN rs -> Response]
<1>1. ASSUME NEW rs, rs \in Answers
      PROVE  DOMAIN rs \subseteq Employees /\ rs \in [DOMAIN rs -> Response]
  BY <1>1 DEF Answers
<1>2. ASSUME NEW rs, DOMAIN rs \subseteq Employees, rs \in [DOMAIN rs -> Response]
      PROVE  rs \in Answers
  BY <1>2 DEF Answers
<1>3. QED
  BY <1>1, <1>2

LEMMA RowAnswers ==
    ASSUME NEW line \in FormRow
    PROVE  /\ line.kind \in {"task", "training"}
           /\ line.responses \in Answers
           /\ DOMAIN line.responses \subseteq Employees
           /\ \A e \in DOMAIN line.responses : line.responses[e] \in Response
  BY AnswersAre DEF FormRow, Answers

LEMMA WithAnswers ==
    ASSUME NEW line \in FormRow, NEW rs \in Answers
    PROVE  /\ [line EXCEPT !.responses = rs] \in FormRow
           /\ [line EXCEPT !.responses = rs].responses = rs
           /\ [line EXCEPT !.responses = rs].kind = line.kind
  BY DEF FormRow, Answers

LEMMA NoAnswers == NoRows \in Answers /\ DOMAIN NoRows = {}
<1>1. DOMAIN NoRows = {} /\ NoRows \in [DOMAIN NoRows -> Response]
  BY DEF NoRows
<1>2. QED
  BY <1>1, AnswersAre

LEMMA SavedTable ==
    ASSUME NEW t, NEW Ids, NEW Row, IsTable(t, Ids, Row), NEW id \in Ids, NEW line \in Row
    PROVE  IsTable(Save(t, id, line), Ids, Row)
  BY DEF Save, IsTable

LEMMA DeletedTable ==
    ASSUME NEW t, NEW Ids, NEW Row, IsTable(t, Ids, Row), NEW id
    PROVE  /\ IsTable(Delete(t, id), Ids, Row)
           /\ DOMAIN Delete(t, id) \subseteq DOMAIN t
           /\ \A x \in DOMAIN Delete(t, id) : Delete(t, id)[x] = t[x]
  BY DEF Delete, IsTable

LEMMA SavedAnswers ==
    ASSUME NEW rs \in Answers, NEW e \in Employees, NEW r \in Response
    PROVE  Save(rs, e, r) \in Answers
<1>1. DOMAIN rs \subseteq Employees /\ rs \in [DOMAIN rs -> Response]
  BY AnswersAre
<1>2. DOMAIN Save(rs, e, r) = DOMAIN rs \cup {e}
      /\ Save(rs, e, r) \in [DOMAIN rs \cup {e} -> Response]
  BY <1>1 DEF Save
<1>3. QED
  BY <1>1, <1>2, AnswersAre

LEMMA NoneIs ==
    /\ None \notin Statuses /\ None # "approved" /\ None # "removes"
    /\ "approved" \in Statuses
  BY DEF None, Statuses
-----------------------------------------------------------------------------
(* The calls.                                                              *)
LEMMA AskedOf ==
    ASSUME CallsInv, NEW h \in DOMAIN call
    PROVE  /\ h \in Calls /\ call[h] \in Asked
           /\ call[h].op \in Ops /\ call[h].form \in FormIds \cup {None}
           /\ call[h].emps \subseteq Employees
           /\ call[h].status \in Statuses \cup {None, "keeps", "removes"}
<1>1. h \in Calls /\ call[h] \in Asked
  BY DEF CallsInv, IsTable
<1>2. QED
  BY <1>1 DEF Asked

LEMMA FormIs ==
    ASSUME TypeOK, NEW f \in DOMAIN form
    PROVE  f \in FormIds /\ form[f] \in FormRow
  BY DEF TypeOK, IsTable

LEMMA BusyIs ==
    ASSUME CallsInv
    PROVE  /\ \A h \in DOMAIN call : pc[h] \in InFlight <=> h \in Busy
           /\ \A h \in Calls : pc[h] \in InFlight => h \in Busy /\ h \in DOMAIN call
           /\ \A h : \A f : h \in DOMAIN call /\ Holds(h, f) => h \in Busy /\ call[h].op \in Savers
           /\ \A h : \A e : h \in DOMAIN call /\ Keeps(h, e) =>
                              h \in Busy /\ call[h].op \in {"submit", "employee"}
<1>1. \A h \in Calls : pc[h] \in InFlight => h \in DOMAIN call
  BY DEF CallsInv, InFlight
<1>2. \A h \in DOMAIN call : pc[h] \in InFlight <=> h \in Busy
  BY DEF Busy
<1>3. ASSUME NEW h \in DOMAIN call, NEW f, Holds(h, f)
      PROVE  h \in Busy /\ call[h].op \in Savers
  <2>1. pc[h] \in InFlight
    BY <1>3 DEF Holds, Approving, InFlight
  <2>2. call[h].op \in Savers
    BY <1>3 DEF Holds, CallsInv, Savers
  <2>3. QED
    BY <2>1, <2>2, <1>2
<1>4. ASSUME NEW h \in DOMAIN call, NEW e, Keeps(h, e)
      PROVE  h \in Busy /\ call[h].op \in {"submit", "employee"}
  <2>1. pc[h] \in InFlight
    BY <1>4 DEF Keeps, InFlight
  <2>2. call[h].op \in {"submit", "employee"}
    BY <1>4 DEF Keeps, CallsInv, Approving
  <2>3. QED
    BY <2>1, <2>2, <1>2
<1>5. QED
  BY <1>1, <1>2, <1>3, <1>4

LEMMA BeginDoes ==
    ASSUME TypeOK, CallsInv, NEW h \in Calls, pc[h] = "idle",
           NEW op \in Ops, NEW f \in FormIds \cup {None}, NEW emps \in SUBSET Employees,
           NEW s \in Statuses \cup {None, "keeps", "removes"}, Begin(h, op, f, emps, s)
    PROVE  /\ h \notin DOMAIN call /\ DOMAIN call' = DOMAIN call \cup {h}
           /\ call'[h] = [op |-> op, form |-> f, emps |-> emps, status |-> s]
           /\ \A x \in DOMAIN call : x # h /\ call'[x] = call[x]
           /\ IsTable(call', Calls, Asked)
           /\ crossed \subseteq crossed' /\ \A x \in Busy : {h, x} \in crossed'
           /\ crossed' \subseteq {{g, x} : g, x \in Calls}
<1>1. h \notin DOMAIN call
  BY DEF CallsInv
<1>2. call' = Save(call, h, [op |-> op, form |-> f, emps |-> emps, status |-> s])
      /\ crossed' = crossed \cup {{h, x} : x \in Busy}
  BY DEF Begin
<1>3. [op |-> op, form |-> f, emps |-> emps, status |-> s] \in Asked
  BY DEF Asked
<1>4. IsTable(call', Calls, Asked)
  BY <1>2, <1>3, SavedTable DEF CallsInv
<1>5. Busy \subseteq Calls
  BY DEF Busy, TypeOK
<1>6. crossed' \subseteq {{g, x} : g, x \in Calls}
  BY <1>2, <1>5 DEF TypeOK
<1>7. DOMAIN call' = DOMAIN call \cup {h} /\ \A x \in DOMAIN call : x # h /\ call'[x] = call[x]
  BY <1>1, <1>2 DEF Save
<1>8. call'[h] = [op |-> op, form |-> f, emps |-> emps, status |-> s]
  BY <1>2 DEF Save
<1>9. crossed \subseteq crossed' /\ \A x \in Busy : {h, x} \in crossed'
  BY <1>2
<1>10. QED
  BY <1>1, <1>4, <1>6, <1>7, <1>8, <1>9
-----------------------------------------------------------------------------
(* What it is to start on a form: what is then held is as it is stored,    *)
(* but for the answers that the call is about.                             *)
Starts(h) == Submit(h) \/ Respond(h) \/ Update(h)

Started(h, op, f, emps, s, line, to) ==
    /\ op \in Savers /\ f \in DOMAIN form /\ emps \in SUBSET Employees /\ s \in Statuses \cup {None}
    /\ Begin(h, op, f, emps, s) /\ Goto(h, "idle", to) /\ UNCHANGED tables
    /\ line \in FormRow /\ line.kind = form[f].kind /\ Set(h, "copy", line)
    /\ to \in {"licence_read", "form_save"}
    /\ to = "licence_read" => op = "submit" /\ s = "approved"
       /\ \A e \in emps : ~IsApproved(form[f], e)
    /\ op = "submit" => \E e \in Employees : emps = {e}
    /\ s = "approved" => \A e \in emps : IsApproved(line, e)
    /\ \A e \in Employees \ emps : Agree(line, form[f], e)
    /\ \A e \in DOMAIN line.responses :
         line.kind = "task" /\ line.responses[e].status = "approved" /\ line.responses[e].by # None =>
         \/ IsApproved(form[f], e) /\ line.responses[e].by = form[f].responses[e].by
         \/ line.responses[e].by = h /\ e \in emps /\ to = "licence_read"

LEMMA SubmitStarts ==
    ASSUME TypeOK, CallsInv, NEW h \in Calls, Submit(h)
    PROVE  \E op, f, emps, s, line, to : Started(h, op, f, emps, s, line, to)
<1>1. PICK f \in DOMAIN form, e \in Employees, s \in Statuses, new \in BOOLEAN :
         LET rs == form[f].responses IN
         /\ form[f].kind = "task"
         /\ new \/ HasAnswered(rs, e)
         /\ Begin(h, "submit", f, {e}, s)
         /\ Copy(h, f, Save(rs, e, Answered(rs, e, s, h, new)))
         /\ Goto(h, "idle", IF new /\ Approves(rs, e, s) THEN "licence_read" ELSE "form_save")
  BY DEF Submit
<1> DEFINE rs  == form[f].responses
           r   == Answered(rs, e, s, h, new)
           line == [form[f] EXCEPT !.responses = Save(rs, e, r)]
           to  == IF new /\ Approves(rs, e, s) THEN "licence_read" ELSE "form_save"
<1>2. form[f] \in FormRow /\ rs \in Answers /\ \A x \in DOMAIN rs : rs[x] \in Response
  BY FormIs, RowAnswers
<1>3. r \in Response
  <2>1. new \/ e \in DOMAIN rs
    BY <1>1 DEF HasAnswered
  <2>2. s = "approved" /\ ~Approves(rs, e, s) => e \in DOMAIN rs
    BY DEF Approves, HasAnswered
  <2>3. QED
    BY <1>2, <2>1, <2>2 DEF Answered, Response
<1>4. Save(rs, e, r) \in Answers
  BY <1>2, <1>3, SavedAnswers
<1>5. line \in FormRow /\ line.responses = Save(rs, e, r) /\ line.kind = form[f].kind
  BY <1>2, <1>4, WithAnswers
<1>6. /\ DOMAIN line.responses = DOMAIN rs \cup {e} /\ line.responses[e] = r
            /\ \A x \in DOMAIN rs : x # e => line.responses[x] = rs[x]
  BY <1>5 DEF Save
<1>7. r.status = s /\ (Approves(rs, e, s) => r.by = IF new THEN h ELSE None)
      /\ (s = "approved" /\ ~Approves(rs, e, s) => r.by = rs[e].by)
  BY DEF Answered
<1> HIDE DEF line, r
<1>8. Approves(rs, e, s) <=> s = "approved" /\ ~IsApproved(form[f], e)
  BY DEF Approves, HasAnswered, IsApproved
<1>9. \A x \in Employees \ {e} : Agree(line, form[f], x)
  BY <1>6 DEF Agree
<1>10. s = "approved" => IsApproved(line, e)
  BY <1>6, <1>7 DEF IsApproved
<1>11. ASSUME NEW x \in DOMAIN line.responses, line.responses[x].status = "approved",
              line.responses[x].by # None
       PROVE  \/ IsApproved(form[f], x) /\ line.responses[x].by = form[f].responses[x].by
              \/ line.responses[x].by = h /\ x \in {e} /\ to = "licence_read"
  <2>1. CASE x = e
    <3>1. line.responses[x] = r /\ s = "approved"
      BY <2>1, <1>6, <1>7, <1>11
    <3>2. CASE Approves(rs, e, s)
      <4>1. CASE new
        BY <2>1, <3>1, <3>2, <4>1, <1>7
      <4>2. CASE ~new
        BY <3>1, <3>2, <4>2, <2>1, <1>7, <1>11
      <4>3. QED
        BY <4>1, <4>2
    <3>3. CASE ~Approves(rs, e, s)
      BY <2>1, <3>1, <3>3, <1>7, <1>8
    <3>4. QED
      BY <3>2, <3>3
  <2>2. CASE x # e
    BY <2>2, <1>6, <1>11 DEF IsApproved
  <2>3. QED
    BY <2>1, <2>2
<1>12. Set(h, "copy", line) /\ Begin(h, "submit", f, {e}, s) /\ Goto(h, "idle", to)
  BY <1>1 DEF Copy, line, r
<1>13. to \in {"licence_read", "form_save"}
       /\ (to = "licence_read" => s = "approved" /\ \A x \in {e} : ~IsApproved(form[f], x))
  BY <1>8
<1>14. Started(h, "submit", f, {e}, s, line, to)
  <2>1. UNCHANGED tables
    BY DEF Submit
  <2> HIDE DEF to
  <2>2. QED
    BY <2>1, <1>5, <1>9, <1>10, <1>11, <1>12, <1>13 DEF Started, Savers
<1>15. QED
  BY <1>14

LEMMA RespondStarts ==
    ASSUME TypeOK, CallsInv, NEW h \in Calls, Respond(h)
    PROVE  \E op, f, emps, s, line, to : Started(h, op, f, emps, s, line, to)
<1>1. PICK f \in DOMAIN form, e \in Employees, s \in Statuses, new \in BOOLEAN :
         LET rs == form[f].responses IN
         /\ form[f].kind = "training"
         /\ new \/ HasAnswered(rs, e)
         /\ Begin(h, "respond", f, {e}, s)
         /\ Copy(h, f, Save(rs, e, [status |-> s, by |-> None,
                                    from |-> IF new THEN h ELSE rs[e].from]))
  BY DEF Respond
<1> DEFINE rs  == form[f].responses
           r   == [status |-> s, by |-> None, from |-> IF new THEN h ELSE rs[e].from]
           line == [form[f] EXCEPT !.responses = Save(rs, e, r)]
<1>2. form[f] \in FormRow /\ rs \in Answers /\ \A x \in DOMAIN rs : rs[x] \in Response
  BY FormIs, RowAnswers
<1>3. r \in Response
  BY <1>1, <1>2 DEF Response, HasAnswered
<1>4. Save(rs, e, r) \in Answers
  BY <1>2, <1>3, SavedAnswers
<1>5. line \in FormRow /\ line.responses = Save(rs, e, r) /\ line.kind = form[f].kind
  BY <1>2, <1>4, WithAnswers
<1>6. /\ DOMAIN line.responses = DOMAIN rs \cup {e} /\ line.responses[e] = r
      /\ \A x \in DOMAIN rs : x # e => line.responses[x] = rs[x]
  BY <1>5 DEF Save
<1>7. r.status = s
  OBVIOUS
<1> HIDE DEF line, r
<1>8. \A x \in Employees \ {e} : Agree(line, form[f], x)
  BY <1>6 DEF Agree
<1>9. s = "approved" => IsApproved(line, e)
  BY <1>6, <1>7 DEF IsApproved
<1>10. Set(h, "copy", line) /\ Begin(h, "respond", f, {e}, s) /\ Goto(h, "idle", "form_save")
  BY <1>1 DEF Copy, Respond, line, r
<1>11. line.kind # "task"
  BY <1>1, <1>5
<1>12. Started(h, "respond", f, {e}, s, line, "form_save")
  <2>1. UNCHANGED tables
    BY DEF Respond
  <2> HIDE DEF line
  <2>2. QED
    BY <2>1, <1>5, <1>8, <1>9, <1>10, <1>11 DEF Started, Savers
<1>13. QED
  BY <1>12

(* What a PUT sends: of the employees that it is not about, what was.      *)
IsSent(rs, sent, about) ==
    /\ sent \in Answers
    /\ \A e \in Employees \ about :
         (e \in DOMAIN sent <=> e \in DOMAIN rs) /\ (e \in DOMAIN rs => sent[e] = rs[e])
    /\ \A e \in DOMAIN sent : sent[e].by # None => e \in DOMAIN rs /\ sent[e] = rs[e]

LEMMA SentAnswers ==
    ASSUME NEW rs \in Answers, NEW h \in Calls, NEW out, NEW given \in SUBSET Employees,
           NEW new \in [given -> Statuses]
    PROVE  IsSent(rs, Sent(rs, h, out, new), out \cup given)
<1> DEFINE whose == (DOMAIN rs \ out) \cup given
           at(e) == IF e \in given THEN [status |-> new[e], from |-> h, by |-> None] ELSE rs[e]
<1>1. Sent(rs, h, out, new) = [e \in whose |-> at(e)]
  BY DEF Sent
<1>2. DOMAIN rs \subseteq Employees /\ \A e \in DOMAIN rs : rs[e] \in Response
  BY AnswersAre
<1>3. \A e \in given : at(e) \in Response /\ at(e).by = None
  BY DEF Response
<1>4. \A e \in whose \ given : e \in DOMAIN rs /\ at(e) = rs[e]
  OBVIOUS
<1>5. \A e \in whose : at(e) \in Response
  BY <1>2, <1>3, <1>4
<1> HIDE DEF at
<1>6. DOMAIN Sent(rs, h, out, new) = whose /\ \A e \in whose : Sent(rs, h, out, new)[e] = at(e)
  BY <1>1
<1>7. Sent(rs, h, out, new) \in [whose -> Response] /\ whose \subseteq Employees
  BY <1>1, <1>2, <1>5
<1>8. Sent(rs, h, out, new) \in Answers
  BY <1>6, <1>7, AnswersAre
<1>9. QED
  BY <1>3, <1>4, <1>6, <1>8 DEF IsSent

LEMMA UpdateStarts ==
    ASSUME TypeOK, CallsInv, NEW h \in Calls, Update(h)
    PROVE  \E op, f, emps, s, line, to : Started(h, op, f, emps, s, line, to)
<1>1. PICK f \in DOMAIN form :
         LET rs == form[f].responses IN
         \/ Begin(h, "update", f, {}, None) /\ Copy(h, f, Kept(rs))
         \/ \E out \in SUBSET DOMAIN rs, given \in SUBSET Employees :
               \E new \in [given -> Statuses] :
                 /\ Begin(h, "update", f, out \cup given, None)
                 /\ Copy(h, f, Sent(rs, h, out, new))
  BY DEF Update
<1> DEFINE rs == form[f].responses
<1>2. form[f] \in FormRow /\ rs \in Answers /\ DOMAIN rs \subseteq Employees
  BY FormIs, RowAnswers
<1>3. \E about \in SUBSET Employees : \E sent :
         Begin(h, "update", f, about, None) /\ Copy(h, f, sent) /\ IsSent(rs, sent, about)
  <2>1. CASE Begin(h, "update", f, {}, None) /\ Copy(h, f, Kept(rs))
    <3>1. Kept(rs) = rs /\ {} \in SUBSET Employees
      BY DEF Kept
    <3>2. IsSent(rs, rs, {})
      BY <1>2 DEF IsSent
    <3>3. QED
      BY <2>1, <3>1, <3>2
  <2>2. ASSUME NEW out \in SUBSET DOMAIN rs, NEW given \in SUBSET Employees,
               NEW new \in [given -> Statuses],
               Begin(h, "update", f, out \cup given, None), Copy(h, f, Sent(rs, h, out, new))
        PROVE  \E about \in SUBSET Employees : \E sent :
                 Begin(h, "update", f, about, None) /\ Copy(h, f, sent) /\ IsSent(rs, sent, about)
    <3>1. out \cup given \in SUBSET Employees
      BY <1>2
    <3> HIDE DEF rs
    <3>2. IsSent(rs, Sent(rs, h, out, new), out \cup given)
      BY <1>2, SentAnswers
    <3>3. QED
      BY <2>2, <3>1, <3>2
  <2>3. QED
    BY <1>1, <2>1, <2>2
<1>4. PICK about \in SUBSET Employees :
         \E sent : Begin(h, "update", f, about, None) /\ Copy(h, f, sent) /\ IsSent(rs, sent, about)
  BY <1>3
<1>5. PICK sent : Begin(h, "update", f, about, None) /\ Copy(h, f, sent) /\ IsSent(rs, sent, about)
  BY <1>4
<1> DEFINE line == [form[f] EXCEPT !.responses = sent]
<1>6. line \in FormRow /\ line.responses = sent /\ line.kind = form[f].kind
  BY <1>2, <1>5, WithAnswers DEF IsSent
<1>7. Set(h, "copy", line) /\ Goto(h, "idle", "form_save") /\ UNCHANGED tables
  BY <1>5 DEF Copy, Update
<1>8. \A x \in Employees \ about : Agree(line, form[f], x)
  BY <1>5, <1>6 DEF Agree, IsSent
<1>9. \A x \in DOMAIN line.responses :
         line.responses[x].status = "approved" /\ line.responses[x].by # None =>
         IsApproved(form[f], x) /\ line.responses[x].by = form[f].responses[x].by
  BY <1>5, <1>6 DEF IsApproved, IsSent
<1>10. Started(h, "update", f, about, None, line, "form_save")
  <2>1. about \in SUBSET Employees /\ Begin(h, "update", f, about, None)
    BY <1>5
  <2> HIDE DEF line
  <2>2. QED
    BY <2>1, <1>6, <1>7, <1>8, <1>9, NoneIs DEF Started, Savers
<1>11. QED
  BY <1>10

LEMMA StartsAre ==
    ASSUME TypeOK, CallsInv, NEW h \in Calls, Starts(h)
    PROVE  \E op, f, emps, s, line, to : Started(h, op, f, emps, s, line, to)
  BY SubmitStarts, RespondStarts, UpdateStarts DEF Starts
-----------------------------------------------------------------------------
(* What every step keeps: one call moves, and what was begun, has crossed, *)
(* was filed or has ended stays so.                                        *)
Step(h) == Answer(h) \/ Arrange(h) \/ Abort(h)

Moves(h) ==
    /\ \A x \in Calls : x # h => pc'[x] = pc[x] /\ var'[x] = var[x]
    /\ DOMAIN call' = DOMAIN call \cup {h} /\ \A x \in DOMAIN call : call'[x] = call[x]
    /\ IsTable(call', Calls, Asked)
    /\ crossed \subseteq crossed' /\ crossed' \subseteq {{g, x} : g, x \in Calls}
    /\ pc' \in [Calls -> Steps] /\ pc'[h] # "idle"
    /\ IF pc[h] = "idle"
       THEN h \notin DOMAIN call /\ \A x \in Busy : {h, x} \in crossed'
       ELSE h \in DOMAIN call /\ pc[h] \in InFlight /\ call' = call /\ crossed' = crossed

LEMMA GotoDoes ==
    ASSUME TypeOK, NEW h \in Calls, NEW from, NEW to \in Steps, Goto(h, from, to)
    PROVE  pc[h] = from /\ pc'[h] = to /\ pc' \in [Calls -> Steps]
           /\ \A x \in Calls : x # h => pc'[x] = pc[x]
  BY DEF TypeOK, Goto

LEMMA SetCopy ==
    ASSUME CallsInv, NEW h \in Calls, NEW line, Set(h, "copy", line)
    PROVE  /\ \A x \in Calls : x # h => var'[x] = var[x]
           /\ var'[h].copy = line /\ var'[h].licences = var[h].licences
           /\ line \in {NoRows} \cup FormRow =>
                var' \in [Calls -> [copy: {NoRows} \cup FormRow, licences: SUBSET Calls]]
<1>1. var \in [Calls -> [copy: {NoRows} \cup FormRow, licences: SUBSET Calls]]
      /\ var' = [var EXCEPT ![h]["copy"] = line]
  BY DEF CallsInv, Set
<1> HIDE DEF FormRow
<1>2. QED
  BY <1>1

LEMMA SetLicences ==
    ASSUME CallsInv, NEW h \in Calls, NEW L, Set(h, "licences", L)
    PROVE  /\ \A x \in Calls : x # h => var'[x] = var[x]
           /\ var'[h].copy = var[h].copy /\ var'[h].licences = L
           /\ L \subseteq Calls =>
                var' \in [Calls -> [copy: {NoRows} \cup FormRow, licences: SUBSET Calls]]
<1>1. var \in [Calls -> [copy: {NoRows} \cup FormRow, licences: SUBSET Calls]]
      /\ var' = [var EXCEPT ![h]["licences"] = L]
  BY DEF CallsInv, Set
<1> HIDE DEF FormRow
<1>2. QED
  BY <1>1

LEMMA OnMoves ==
    ASSUME TypeOK, CallsInv, NEW h \in Calls, NEW from \in InFlight, NEW to \in Steps \ {"idle"},
           Goto(h, from, to), Same, \A x \in Calls : x # h => var'[x] = var[x]
    PROVE  Moves(h)
<1>1. h \in DOMAIN call /\ pc[h] # "idle"
  BY DEF Goto, CallsInv, InFlight
<1>2. pc[h] \in InFlight /\ pc'[h] # "idle" /\ pc' \in [Calls -> Steps]
      /\ \A x \in Calls : x # h => pc'[x] = pc[x]
  BY GotoDoes
<1>3. call' = call /\ crossed' = crossed /\ IsTable(call, Calls, Asked)
      /\ crossed \subseteq {{g, x} : g, x \in Calls}
  BY DEF Same, CallsInv, TypeOK
<1>4. DOMAIN call' = DOMAIN call \cup {h} /\ crossed \subseteq crossed'
  BY <1>1, <1>3
<1>5. QED
  BY <1>1, <1>2, <1>3, <1>4 DEF Moves

LEMMA FromMoves ==
    ASSUME TypeOK, CallsInv, NEW h \in Calls, NEW op \in Ops, NEW f \in FormIds \cup {None},
           NEW emps \in SUBSET Employees, NEW s \in Statuses \cup {None, "keeps", "removes"},
           Begin(h, op, f, emps, s), NEW to \in Steps \ {"idle"}, Goto(h, "idle", to),
           \A x \in Calls : x # h => var'[x] = var[x]
    PROVE  Moves(h) /\ call'[h] = [op |-> op, form |-> f, emps |-> emps, status |-> s]
<1>1. pc[h] = "idle" /\ pc'[h] # "idle" /\ pc' \in [Calls -> Steps]
      /\ \A x \in Calls : x # h => pc'[x] = pc[x]
  BY GotoDoes
<1>2. QED
  BY <1>1, BeginDoes DEF Moves

LEMMA StartedMoves ==
    ASSUME TypeOK, CallsInv, NEW h \in Calls, NEW op, NEW f, NEW emps, NEW s, NEW line, NEW to,
           Started(h, op, f, emps, s, line, to)
    PROVE  /\ Moves(h) /\ call'[h] = [op |-> op, form |-> f, emps |-> emps, status |-> s]
           /\ pc[h] = "idle" /\ pc'[h] = to /\ f \in FormIds
           /\ var'[h].copy = line /\ var'[h].licences = var[h].licences
<1>1. op \in Ops /\ f \in FormIds /\ emps \in SUBSET Employees /\ s \in Statuses \cup {None}
      /\ to \in Steps \ {"idle"} /\ Begin(h, op, f, emps, s) /\ Goto(h, "idle", to)
      /\ Set(h, "copy", line)
  BY FormIs DEF Started, Ops, Steps, InFlight
<1>2. /\ \A x \in Calls : x # h => var'[x] = var[x]
      /\ var'[h].copy = line /\ var'[h].licences = var[h].licences
  BY <1>1, SetCopy
<1>3. QED
  BY <1>1, <1>2, FromMoves, GotoDoes

LEMMA StartsMoves ==
    ASSUME TypeOK, CallsInv, NEW h \in Calls, Starts(h)
    PROVE  Moves(h) /\ pc[h] = "idle" /\ pc'[h] \in {"licence_read", "form_save"}
<1>1. PICK op, f, emps, s, line, to : Started(h, op, f, emps, s, line, to)
  BY StartsAre
<1>2. /\ Moves(h) /\ call'[h] = [op |-> op, form |-> f, emps |-> emps, status |-> s]
      /\ pc[h] = "idle" /\ pc'[h] = to
  BY <1>1, StartedMoves
<1>3. to \in {"licence_read", "form_save"}
  BY <1>1 DEF Started
<1>4. QED
  BY <1>2, <1>3

(* The steps on the way to a save.                                         *)
LEMMA StepsAre ==
    ASSUME NEW h, Step(h)
    PROVE  \/ Starts(h) \/ LicenceRead(h) \/ LicenceWrite(h) \/ FilesSave(h) \/ FormSave(h)
           \/ Create(h) \/ DeleteForm(h) \/ EditEmployee(h) \/ EmployeeSave(h) \/ Abort(h)
  BY DEF Step, Answer, Arrange, Starts

LEMMA CreateMoves ==
    ASSUME TypeOK, CallsInv, NEW h \in Calls, Create(h)
    PROVE  /\ Moves(h) /\ var' = var /\ pc[h] = "idle" /\ pc'[h] = "done"
           /\ call'[h] = [op |-> "create", form |-> h, emps |-> {}, status |-> None]
           /\ call'[h].op = "create" /\ licence' = licence /\ filed' = filed /\ overwritten' = overwritten
           /\ \E kind \in {"task", "training"} :
                form' = Save(form, h, [kind |-> kind, responses |-> NoRows])
<1>1. /\ Begin(h, "create", h, {}, None) /\ Goto(h, "idle", "done") /\ var' = var
      /\ "create" \in Ops /\ h \in FormIds /\ "done" \in Steps \ {"idle"}
  BY DEF Create, Ops, FormIds, Steps
<1>2. Moves(h) /\ call'[h] = [op |-> "create", form |-> h, emps |-> {}, status |-> None]
  BY <1>1, FromMoves
<1>3. call'[h].op = "create"
  BY <1>2
<1>4. QED
  BY <1>1, <1>2, <1>3, GotoDoes DEF Create

LEMMA DeleteMoves ==
    ASSUME TypeOK, CallsInv, NEW h \in Calls, DeleteForm(h)
    PROVE  /\ Moves(h) /\ var' = var /\ pc[h] = "idle" /\ pc'[h] = "done"
           /\ call'[h].op = "delete" /\ licence' = licence /\ filed' = filed /\ overwritten' = overwritten
           /\ \E f \in DOMAIN form : form' = Delete(form, f)
<1>1. PICK f \in DOMAIN form : Begin(h, "delete", f, {}, None) /\ form' = Delete(form, f)
  BY DEF DeleteForm
<1>2. /\ Goto(h, "idle", "done") /\ var' = var
      /\ "delete" \in Ops /\ f \in FormIds /\ "done" \in Steps \ {"idle"}
  BY FormIs DEF DeleteForm, Ops, Steps
<1>3. Moves(h) /\ call'[h] = [op |-> "delete", form |-> f, emps |-> {}, status |-> None]
  BY <1>1, <1>2, FromMoves
<1>4. QED
  BY <1>1, <1>2, <1>3, GotoDoes DEF DeleteForm

LEMMA EditMoves ==
    ASSUME TypeOK, CallsInv, NEW h \in Calls, EditEmployee(h)
    PROVE  /\ Moves(h) /\ tables' = tables /\ pc[h] = "idle" /\ pc'[h] = "employee_save"
           /\ var'[h].copy = var[h].copy /\ call'[h].op = "employee"
           /\ \E e \in Employees : \E out \in SUBSET licence[e] :
                /\ call'[h].emps = {e} /\ var'[h].licences = licence[e] \ out
                /\ call'[h].status = IF out = {} THEN "keeps" ELSE "removes"
<1>1. PICK e \in Employees : \E out \in SUBSET licence[e] :
         /\ Begin(h, "employee", None, {e}, IF out = {} THEN "keeps" ELSE "removes")
         /\ Set(h, "licences", licence[e] \ out)
  BY DEF EditEmployee
<1>2. PICK out \in SUBSET licence[e] :
         /\ Begin(h, "employee", None, {e}, IF out = {} THEN "keeps" ELSE "removes")
         /\ Set(h, "licences", licence[e] \ out)
  BY <1>1
<1>3. /\ Goto(h, "idle", "employee_save") /\ tables' = tables
      /\ "employee" \in Ops /\ "employee_save" \in Steps \ {"idle"}
  BY DEF EditEmployee, Ops, Steps, InFlight
<1>4. /\ \A x \in Calls : x # h => var'[x] = var[x]
      /\ var'[h].copy = var[h].copy /\ var'[h].licences = licence[e] \ out
  BY <1>2, SetLicences
<1> DEFINE s == IF out = {} THEN "keeps" ELSE "removes"
<1>5. s \in Statuses \cup {None, "keeps", "removes"} /\ Begin(h, "employee", None, {e}, s)
      /\ None \in FormIds \cup {None} /\ {e} \in SUBSET Employees
  BY <1>2
<1>6. s = IF out = {} THEN "keeps" ELSE "removes"
  OBVIOUS
<1> HIDE DEF s
<1>7. Moves(h) /\ call'[h] = [op |-> "employee", form |-> None, emps |-> {e}, status |-> s]
  <2>1. PICK op \in Ops, f \in FormIds \cup {None}, emps \in SUBSET Employees,
             t \in Statuses \cup {None, "keeps", "removes"} :
          op = "employee" /\ f = None /\ emps = {e} /\ t = s
    BY <1>3, <1>5
  <2>2. Begin(h, op, f, emps, t)
    BY <1>5, <2>1
  <2>3. Moves(h) /\ call'[h] = [op |-> op, form |-> f, emps |-> emps, status |-> t]
    BY <1>3, <1>4, <2>2, FromMoves
  <2>4. QED
    BY <2>1, <2>3
<1>8. QED
  BY <1>2, <1>3, <1>4, <1>6, <1>7, GotoDoes

LEMMA LaterMoves ==
    ASSUME TypeOK, CallsInv, NEW h \in Calls,
           LicenceRead(h) \/ LicenceWrite(h) \/ FilesSave(h) \/ FormSave(h) \/ EmployeeSave(h)
              \/ Abort(h)
    PROVE  Moves(h) /\ pc[h] # "idle" /\ call' = call /\ var'[h].copy = var[h].copy
<1> USE DEF InFlight, Steps
<1>1. CASE LicenceRead(h)
  <2>1. Set(h, "licences", licence[Of(h)]) /\ Goto(h, "licence_read", "licence_write") /\ Same
    BY <1>1 DEF LicenceRead
  <2>2. var'[h].copy = var[h].copy /\ \A x \in Calls : x # h => var'[x] = var[x]
    BY <2>1, SetLicences
  <2>3. QED
    BY <2>1, <2>2, OnMoves DEF Same, Goto
<1>2. CASE LicenceWrite(h)
  <2>1. var' = var /\ Goto(h, "licence_write", "files_save") /\ Same
    BY <1>2 DEF LicenceWrite
  <2>2. QED
    BY <2>1, OnMoves DEF Same, Goto
<1>3. CASE FilesSave(h)
  <2>1. var' = var /\ Goto(h, "files_save", "form_save") /\ Same
    BY <1>3 DEF FilesSave
  <2>2. QED
    BY <2>1, OnMoves DEF Same, Goto
<1>4. CASE FormSave(h)
  <2>1. var' = var /\ Goto(h, "form_save", "done") /\ Same
    BY <1>4 DEF FormSave
  <2>2. QED
    BY <2>1, OnMoves DEF Same, Goto
<1>5. CASE EmployeeSave(h)
  <2>1. var' = var /\ Goto(h, "employee_save", "done") /\ Same
    BY <1>5 DEF EmployeeSave
  <2>2. QED
    BY <2>1, OnMoves DEF Same, Goto
<1>6. CASE Abort(h)
  <2>1. var' = var /\ Goto(h, pc[h], "failed") /\ Same /\ pc[h] \in InFlight
    BY <1>6 DEF Abort, Goto, Same
  <2>2. QED
    BY <2>1, OnMoves DEF Same, Goto
<1>7. QED
  BY <1>1, <1>2, <1>3, <1>4, <1>5, <1>6

LEMMA StepMoves ==
    ASSUME TypeOK, CallsInv, NEW h \in Calls, Step(h)
    PROVE  Moves(h)
<1>1. CASE Starts(h)
  BY <1>1, StartsAre, StartedMoves
<1>2. QED
  BY <1>1, StepsAre, CreateMoves, DeleteMoves, EditMoves, LaterMoves
-----------------------------------------------------------------------------
(* Types, and where the calls are.                                         *)
VarType == [Calls -> [copy: {NoRows} \cup FormRow, licences: SUBSET Calls]]

CallOK(h) ==
    /\ pc[h] \in Approving => call[h].op = "submit" /\ call[h].status = "approved"
    /\ pc[h] = "form_save" => call[h].op \in Savers
    /\ pc[h] = "employee_save" => call[h].op = "employee"
    /\ call[h].op \in Savers => call[h].form \in Posted
    /\ call[h].op \in {"submit", "employee"} => \E e \in Employees : call[h].emps = {e}
    /\ pc[h] \in Approving \cup {"form_save"} => var[h].copy \in FormRow

LEMMA CallIs ==
    ASSUME CallsInv, NEW h \in DOMAIN call
    PROVE  CallOK(h)
<1> DEFINE P(x) ==
      /\ pc[x] \in Approving => call[x].op = "submit" /\ call[x].status = "approved"
      /\ pc[x] = "form_save" => call[x].op \in Savers
      /\ pc[x] = "employee_save" => call[x].op = "employee"
      /\ call[x].op \in Savers => call[x].form \in Posted
      /\ call[x].op \in {"submit", "employee"} => \E e \in Employees : call[x].emps = {e}
      /\ pc[x] \in Approving \cup {"form_save"} => var[x].copy \in FormRow
<1>1. \A x \in DOMAIN call : P(x)
  BY DEF CallsInv
<1>2. QED
  BY <1>1 DEF CallOK

LEMMA OfIs ==
    ASSUME CallsInv, NEW h \in DOMAIN call, call[h].op \in {"submit", "employee"}
    PROVE  Of(h) \in Employees /\ call[h].emps = {Of(h)}
<1>1. PICK e \in Employees : call[h].emps = {e}
  BY CallIs DEF CallOK
<1>2. Of(h) \in {e}
  BY <1>1 DEF Of
<1>3. QED
  BY <1>1, <1>2

LEMMA PostedGrows ==
    ASSUME CallsInv, NEW h \in Calls, Moves(h)
    PROVE  Posted \subseteq Posted'
  BY DEF Posted, Moves

LEMMA OthersAreOK ==
    ASSUME CallsInv, NEW h \in Calls, Moves(h), NEW x \in DOMAIN call, x # h
    PROVE  CallOK(x)'
<1>1. pc'[x] = pc[x] /\ var'[x] = var[x] /\ call'[x] = call[x]
  BY AskedOf DEF Moves
<1>2. Posted \subseteq Posted' /\ CallOK(x)
  BY PostedGrows, CallIs
<1> HIDE DEF Posted, FormRow
<1>3. QED
  BY <1>1, <1>2 DEF CallOK

LEMMA CallsAfter ==
    ASSUME TypeOK, CallsInv, NEW h \in Calls, Moves(h), CallOK(h)', (DOMAIN form \subseteq Posted)',
           var' \in VarType
    PROVE  CallsInv'
<1>1. IsTable(call', Calls, Asked) /\ h \in DOMAIN call'
  BY DEF Moves
<1>2. \A x \in DOMAIN call' : x = h \/ x \in DOMAIN call
  BY DEF Moves
<1>3. \A x \in DOMAIN call' : CallOK(x)'
  BY <1>2, OthersAreOK
<1>4. \A x \in Calls : (pc[x] = "idle")' <=> x \notin DOMAIN call'
  <2>1. \A x \in Calls : x # h => (pc'[x] = "idle" <=> x \notin DOMAIN call')
    BY DEF Moves, CallsInv
  <2>2. QED
    BY <2>1, <1>1 DEF Moves
<1>5. ASSUME NEW g \in Busy', NEW x \in Busy', g # x
      PROVE  {g, x} \in crossed'
  <2>1. \A y \in Busy' : y # h => y \in Busy
    BY AskedOf DEF Busy, Moves
  <2>2. CASE g # h /\ x # h
    <3>1. {g, x} \in crossed
      BY <2>1, <2>2, <1>5 DEF CallsInv
    <3>2. QED
      BY <3>1 DEF Moves
  <2>3. ASSUME NEW y \in Busy', y # h
        PROVE  {h, y} \in crossed' /\ {y, h} \in crossed'
    <3>1. y \in Busy
      BY <2>1, <2>3
    <3>2. CASE pc[h] = "idle"
      <4>1. {h, y} \in crossed'
        BY <3>1, <3>2 DEF Moves
      <4>2. {y, h} = {h, y}
        OBVIOUS
      <4>3. QED
        BY <4>1, <4>2
    <3>3. CASE pc[h] # "idle"
      <4>1. h \in Busy
        BY <3>3 DEF Moves, Busy
      <4>2. {h, y} \in crossed /\ {y, h} \in crossed
        BY <4>1, <3>1, <2>3 DEF CallsInv
      <4>3. QED
        BY <4>2 DEF Moves
    <3>4. QED
      BY <3>2, <3>3
  <2>4. QED
    BY <2>2, <2>3, <1>5
<1>6. QED
  BY <1>1, <1>3, <1>4, <1>5 DEF CallsInv, CallOK, VarType

LEMMA CallsStart ==
    ASSUME TypeOK, CallsInv, NEW h \in Calls, Starts(h)
    PROVE  TypeOK' /\ CallsInv'
<1>1. PICK op, f, emps, s, line, to : Started(h, op, f, emps, s, line, to)
  BY StartsAre
<1>2. /\ Moves(h) /\ call'[h] = [op |-> op, form |-> f, emps |-> emps, status |-> s]
      /\ pc'[h] = to /\ var'[h].copy = line
  BY <1>1, StartedMoves
<1>3. /\ op \in Savers /\ f \in DOMAIN form /\ form' = form /\ licence' = licence /\ filed' = filed /\ overwritten' = overwritten
      /\ line \in FormRow /\ Set(h, "copy", line) /\ to \in {"licence_read", "form_save"}
      /\ to = "licence_read" => op = "submit" /\ s = "approved"
      /\ op = "submit" => \E e \in Employees : emps = {e}
  BY <1>1 DEF Started, tables
<1>4. f \in Posted' /\ DOMAIN form' \subseteq Posted'
  BY <1>2, <1>3, PostedGrows DEF CallsInv
<1>5. CallOK(h)'
  <2>1. pc'[h] \in Approving => op = "submit" /\ s = "approved"
    BY <1>2, <1>3 DEF Approving
  <2>2. pc'[h] # "employee_save" /\ op # "employee"
    BY <1>2, <1>3 DEF Savers
  <2>3. QED
    BY <2>1, <2>2, <1>2, <1>3, <1>4 DEF CallOK
<1>6. var' \in VarType
  BY <1>3, SetCopy DEF VarType
<1>7. TypeOK'
  BY <1>2, <1>3 DEF TypeOK, Moves, IsTable
<1>8. QED
  BY <1>2, <1>4, <1>5, <1>6, <1>7, CallsAfter

LEMMA CallsPost ==
    ASSUME TypeOK, CallsInv, NEW h \in Calls, Create(h)
    PROVE  TypeOK' /\ CallsInv'
<1>1. /\ Moves(h) /\ var' = var /\ pc[h] = "idle" /\ pc'[h] = "done"
      /\ call'[h] = [op |-> "create", form |-> h, emps |-> {}, status |-> None]
      /\ licence' = licence /\ filed' = filed /\ overwritten' = overwritten
  BY CreateMoves
<1>2. PICK kind \in {"task", "training"} :
        form' = Save(form, h, [kind |-> kind, responses |-> NoRows])
  BY CreateMoves
<1>3. [kind |-> kind, responses |-> NoRows] \in FormRow /\ h \in FormIds
  BY NoAnswers DEF FormRow, Answers, FormIds
<1>4. IsTable(form', FormIds, FormRow)
  BY <1>2, <1>3, SavedTable DEF TypeOK
<1>5. TypeOK'
  BY <1>1, <1>4 DEF TypeOK, Moves, IsTable
<1>6. DOMAIN form' \subseteq Posted'
  <2>1. DOMAIN form' = DOMAIN form \cup {h}
    BY <1>2 DEF Save
  <2>2. h \in Posted'
    BY <1>1 DEF Posted, Moves
  <2>3. QED
    BY <2>1, <2>2, <1>1, PostedGrows DEF CallsInv
<1>7. CallOK(h)'
  BY <1>1 DEF CallOK, Approving, Savers
<1>8. var' \in VarType
  BY <1>1 DEF CallsInv, VarType
<1>9. QED
  BY <1>1, <1>5, <1>6, <1>7, <1>8, CallsAfter

LEMMA CallsDelete ==
    ASSUME TypeOK, CallsInv, NEW h \in Calls, DeleteForm(h)
    PROVE  TypeOK' /\ CallsInv'
<1>1. /\ Moves(h) /\ var' = var /\ pc[h] = "idle" /\ pc'[h] = "done"
      /\ call'[h].op = "delete" /\ licence' = licence /\ filed' = filed /\ overwritten' = overwritten
  BY DeleteMoves
<1>2. PICK f \in DOMAIN form : form' = Delete(form, f)
  BY DeleteMoves
<1>3. IsTable(form', FormIds, FormRow) /\ DOMAIN form' \subseteq DOMAIN form
  BY <1>2, DeletedTable DEF TypeOK
<1>4. TypeOK'
  BY <1>1, <1>3 DEF TypeOK, Moves, IsTable
<1>5. DOMAIN form' \subseteq Posted'
  BY <1>1, <1>3, PostedGrows DEF CallsInv
<1>6. CallOK(h)'
  BY <1>1 DEF CallOK, Approving, Savers
<1>7. var' \in VarType
  BY <1>1 DEF CallsInv, VarType
<1>8. QED
  BY <1>1, <1>4, <1>5, <1>6, <1>7, CallsAfter

LEMMA CallsEdit ==
    ASSUME TypeOK, CallsInv, NEW h \in Calls, EditEmployee(h)
    PROVE  TypeOK' /\ CallsInv'
<1>1. /\ Moves(h) /\ tables' = tables /\ pc'[h] = "employee_save" /\ call'[h].op = "employee"
  BY EditMoves
<1>2. PICK e \in Employees : \E out \in SUBSET licence[e] :
         call'[h].emps = {e} /\ Set(h, "licences", licence[e] \ out)
  <2>1. PICK e \in Employees : \E out \in SUBSET licence[e] :
         /\ Begin(h, "employee", None, {e}, IF out = {} THEN "keeps" ELSE "removes")
         /\ Set(h, "licences", licence[e] \ out)
    BY DEF EditEmployee
  <2>2. call'[h].emps = {e}
    BY <2>1 DEF Begin, Save
  <2>3. QED
    BY <2>1, <2>2
<1>3. licence[e] \subseteq Calls
  BY DEF TypeOK
<1>4. var' \in VarType
  BY <1>2, <1>3, SetLicences DEF VarType
<1>5. CallOK(h)'
  BY <1>1, <1>2 DEF CallOK, Approving, Savers
<1>6. form' = form /\ licence' = licence /\ filed' = filed /\ overwritten' = overwritten
  BY <1>1 DEF tables
<1>7. TypeOK'
  BY <1>1, <1>6 DEF TypeOK, Moves, IsTable
<1>8. DOMAIN form' \subseteq Posted'
  BY <1>1, <1>6, PostedGrows DEF CallsInv
<1>9. QED
  BY <1>1, <1>4, <1>5, <1>7, <1>8, CallsAfter

(* The steps of a call under way.                                          *)
LEMMA UnderWay ==
    ASSUME TypeOK, CallsInv, NEW h \in Calls, Moves(h), call' = call, pc[h] # "idle",
           var'[h].copy = var[h].copy,
           pc'[h] \in Approving => pc[h] \in Approving,
           pc'[h] = "form_save" => pc[h] \in Approving \cup {"form_save"},
           pc'[h] = "employee_save" => pc[h] = "employee_save"
    PROVE  h \in DOMAIN call /\ CallOK(h)'
<1>1. h \in DOMAIN call /\ Posted' = Posted
  BY DEF Moves, Posted
<1>2. CallOK(h)
  BY <1>1, CallIs
<1>3. "submit" \in Savers
  BY DEF Savers
<1>4. QED
  BY <1>1, <1>2, <1>3 DEF CallOK

LEMMA CallsLater ==
    ASSUME TypeOK, CallsInv, NEW h \in Calls,
           LicenceRead(h) \/ LicenceWrite(h) \/ FilesSave(h) \/ FormSave(h) \/ EmployeeSave(h)
              \/ Abort(h)
    PROVE  TypeOK' /\ CallsInv'
<1>1. Moves(h) /\ pc[h] # "idle" /\ call' = call /\ var'[h].copy = var[h].copy /\ h \in DOMAIN call
  BY LaterMoves DEF Moves
<1>2. CallOK(h)'
  <2>1. /\ pc'[h] \in Approving => pc[h] \in Approving
        /\ pc'[h] = "form_save" => pc[h] \in Approving \cup {"form_save"}
        /\ pc'[h] = "employee_save" => pc[h] = "employee_save"
    BY DEF TypeOK, Approving, Goto, LicenceRead, LicenceWrite, FilesSave, FormSave, EmployeeSave,
              Abort
  <2>2. QED
    BY <1>1, <2>1, UnderWay
<1>3. Posted' = Posted /\ CallOK(h)
  BY <1>1, CallIs DEF Posted
<1>4. var' \in VarType
  <2>1. CASE LicenceRead(h)
    <3>1. Of(h) \in Employees
      BY <2>1, <1>1, <1>3, OfIs DEF LicenceRead, Goto, CallOK, Approving
    <3>2. licence[Of(h)] \subseteq Calls
      BY <3>1 DEF TypeOK
    <3>3. QED
      BY <2>1, <3>2, SetLicences DEF LicenceRead, VarType
  <2>2. CASE ~LicenceRead(h)
    <3>1. var' = var
      BY <2>2 DEF LicenceWrite, FilesSave, FormSave, EmployeeSave, Abort
    <3>2. QED
      BY <3>1 DEF CallsInv, VarType
  <2>3. QED
    BY <2>1, <2>2
<1>5. IsTable(form', FormIds, FormRow) /\ DOMAIN form' \subseteq Posted'
  <2>1. CASE FormSave(h)
    <3>1. form' = Save(form, call[h].form, var[h].copy) /\ pc[h] = "form_save"
      BY <2>1 DEF FormSave, Goto
    <3>2. call[h].form \in Posted /\ var[h].copy \in FormRow
      BY <3>1, <1>3 DEF CallOK
    <3>3. call[h].form \in FormIds
      BY <3>2 DEF Posted, FormIds, CallsInv, IsTable
    <3>4. IsTable(form', FormIds, FormRow)
      BY <3>1, <3>2, <3>3, SavedTable DEF TypeOK
    <3>5. DOMAIN form' = DOMAIN form \cup {call[h].form}
      BY <3>1 DEF Save
    <3>6. QED
      BY <3>2, <3>4, <3>5, <1>3 DEF CallsInv
  <2>2. CASE ~FormSave(h)
    <3>1. form' = form
      BY <2>2 DEF LicenceRead, LicenceWrite, FilesSave, EmployeeSave, Abort, tables
    <3>2. QED
      BY <3>1, <1>3 DEF TypeOK, CallsInv
  <2>3. QED
    BY <2>1, <2>2
<1>6. licence' \in [Employees -> SUBSET Calls]
  <2>1. var[h].licences \subseteq Calls /\ licence \in [Employees -> SUBSET Calls]
    BY DEF CallsInv, TypeOK
  <2>2. CASE LicenceWrite(h) \/ EmployeeSave(h)
    BY <2>1, <2>2 DEF LicenceWrite, EmployeeSave
  <2>3. CASE ~(LicenceWrite(h) \/ EmployeeSave(h))
    BY <2>1, <2>3 DEF LicenceRead, FilesSave, FormSave, Abort, tables
  <2>4. QED
    BY <2>2, <2>3
<1>7. filed' \subseteq Calls
  BY DEF TypeOK, LicenceRead, LicenceWrite, FilesSave, FormSave, EmployeeSave, Abort, tables
<1>8. overwritten' \subseteq Calls
  <2>1. CASE LicenceWrite(h)
    <3>1. PICK gone \in {{}} \cup {{a} : a \in var[h].licences} : overwritten' = overwritten \cup gone
      BY <2>1 DEF LicenceWrite
    <3>2. var[h].licences \subseteq Calls /\ overwritten \subseteq Calls
      BY DEF CallsInv, TypeOK
    <3>3. QED
      BY <3>1, <3>2
  <2>2. CASE ~LicenceWrite(h)
    BY <2>2 DEF TypeOK, LicenceRead, FilesSave, FormSave, EmployeeSave, Abort, tables
  <2>3. QED
    BY <2>1, <2>2
<1>9. TypeOK'
  BY <1>1, <1>5, <1>6, <1>7, <1>8 DEF TypeOK, Moves, IsTable
<1>10. QED
  BY <1>1, <1>2, <1>4, <1>5, <1>9, CallsAfter

LEMMA CallsNext ==
    ASSUME TypeOK, CallsInv, NEW h \in Calls, Step(h)
    PROVE  TypeOK' /\ CallsInv'
  BY StepsAre, CallsStart, CallsPost, CallsDelete, CallsEdit, CallsLater
-----------------------------------------------------------------------------
(* Who holds a form, and what changes one.                                 *)
LEMMA HoldersAre ==
    ASSUME TypeOK, CallsInv, NEW h \in Calls, Step(h), NEW x \in DOMAIN call', NEW f, Holds(x, f)'
    PROVE  \/ x = h /\ Starts(h)
           \/ /\ x \in DOMAIN call /\ Holds(x, f) /\ call'[x] = call[x]
              /\ var'[x].copy = var[x].copy
<1>1. Moves(h)
  BY StepMoves
<1>2. CASE x # h
  <2>1. x \in DOMAIN call /\ x \in Calls
    BY <1>1, <1>2, AskedOf DEF Moves
  <2>2. pc'[x] = pc[x] /\ var'[x] = var[x] /\ call'[x] = call[x]
    BY <2>1, <1>1, <1>2 DEF Moves
  <2>3. QED
    BY <2>1, <2>2 DEF Holds
<1>3. CASE x = h /\ ~Starts(h)
  <2>1. pc'[h] \in Approving \cup {"form_save"} /\ call'[h].form = f
    BY <1>3 DEF Holds
  <2>2. ~Create(h) /\ ~DeleteForm(h) /\ ~EditEmployee(h)
    BY <2>1, CreateMoves, DeleteMoves, EditMoves DEF Approving
  <2>3. LicenceRead(h) \/ LicenceWrite(h) \/ FilesSave(h) \/ FormSave(h) \/ EmployeeSave(h)
           \/ Abort(h)
    BY <1>3, <2>2, StepsAre
  <2>4. pc[h] # "idle" /\ call' = call /\ var'[h].copy = var[h].copy
    BY <2>3, LaterMoves
  <2>5. pc[h] \in Approving \cup {"form_save"}
    BY <2>1, <2>3 DEF TypeOK, Approving, Goto, LicenceRead, LicenceWrite, FilesSave, FormSave,
                      EmployeeSave, Abort
  <2>6. QED
    BY <2>1, <2>4, <2>5, <1>1, <1>3 DEF Holds, Moves
<1>4. QED
  BY <1>2, <1>3

LEMMA FormSteps ==
    ASSUME NEW h, Step(h)
    PROVE  form' = form \/ Create(h) \/ DeleteForm(h) \/ FormSave(h)
<1>1. CASE Starts(h)
  BY <1>1 DEF Starts, Submit, Respond, Update, tables
<1>2. CASE LicenceRead(h) \/ LicenceWrite(h) \/ FilesSave(h) \/ EditEmployee(h) \/ EmployeeSave(h)
         \/ Abort(h)
  BY <1>2 DEF LicenceRead, LicenceWrite, FilesSave, EditEmployee, EmployeeSave, Abort, tables
<1>3. QED
  BY <1>1, <1>2, StepsAre

(* A form that was posted is not posted again.                             *)
LEMMA PostedOnce ==
    ASSUME TypeOK, CallsInv, NEW h \in Calls, pc[h] = "idle"
    PROVE  h \notin Posted
<1>1. h \notin DOMAIN call
  BY DEF CallsInv
<1>2. QED
  BY <1>1, NewIds DEF Posted

LEMMA CrossedGrows ==
    ASSUME CallsInv, NEW h \in Calls, Moves(h), NEW x \in DOMAIN call, NEW ops, Crossed(x, ops)
    PROVE  Crossed(x, ops)'
<1>1. PICK g \in DOMAIN call \ {x} : call[g].op \in ops /\ {x, g} \in crossed
  BY DEF Crossed
<1>2. g \in DOMAIN call' /\ call'[g] = call[g] /\ {x, g} \in crossed'
  BY <1>1 DEF Moves
<1>3. QED
  BY <1>1, <1>2 DEF Crossed

LEMMA SpoiltGrows ==
    ASSUME CallsInv, NEW h \in Calls, Moves(h), NEW f, NEW e, Spoilt(f, e)
    PROVE  Spoilt(f, e)'
<1>1. PICK x \in DOMAIN call :
         call[x].op \in Savers /\ call[x].form = f /\ e \in call[x].emps /\ Crossed(x, Savers)
  BY DEF Spoilt, About
<1>2. Crossed(x, Savers)' /\ x \in DOMAIN call' /\ call'[x] = call[x]
  BY <1>1, CrossedGrows DEF Moves
<1>3. QED
  BY <1>1, <1>2 DEF Spoilt, About

(* Two calls that hold forms have crossed.                                 *)
LEMMA HoldersCross ==
    ASSUME CallsInv', NEW x \in DOMAIN call', NEW g \in DOMAIN call', x # g, NEW f,
           Holds(x, f)', g \in Busy', call'[g].op \in Savers
    PROVE  /\ Crossed(x, Savers)'
           /\ \A e \in call'[x].emps : Spoilt(f, e)'
<1>1. pc'[x] \in Approving \cup {"form_save"} /\ call'[x].form = f
  BY DEF Holds
<1>2. x \in Busy'
  BY <1>1 DEF Busy, Approving, InFlight
<1>3. {x, g} \in crossed'
  BY <1>2 DEF CallsInv
<1>4. call'[x].op \in Savers
  BY <1>1 DEF CallsInv, Savers
<1>5. Crossed(x, Savers)'
  BY <1>3 DEF Crossed
<1>6. QED
  BY <1>1, <1>4, <1>5 DEF Spoilt, About

LEMMA HolderBusy ==
    ASSUME CallsInv', NEW x \in DOMAIN call', NEW f, Holds(x, f)'
    PROVE  x \in Busy' /\ call'[x].op \in Savers
<1>1. pc'[x] \in Approving \cup {"form_save"}
  BY DEF Holds
<1>2. x \in Busy'
  BY <1>1 DEF Busy, Approving, InFlight
<1>3. QED
  BY <1>1, <1>2 DEF CallsInv, Savers
-----------------------------------------------------------------------------
(* The answers.                                                            *)
LEMMA Agreeing ==
    ASSUME NEW r, NEW s, NEW t, NEW e
    PROVE  /\ Agree(r, s, e) => Agree(s, r, e)
           /\ Agree(r, s, e) /\ Agree(s, t, e) => Agree(r, t, e)
  BY DEF Agree

LEMMA HeldAgree ==
    ASSUME CallsInv, AnswersInv, NEW x \in DOMAIN call, NEW f, Holds(x, f),
           NEW e \in Employees, ~Spoilt(f, e)
    PROVE  /\ f \in FormIds
           /\ f \in DOMAIN form /\ e \notin call[x].emps => Agree(var[x].copy, form[f], e)
           /\ \A g \in DOMAIN call : Holds(g, f) /\ g # x => Agree(var[x].copy, var[g].copy, e)
<1>1. f \in FormIds
  <2>1. call[x].op \in Savers /\ call[x].form = f
    BY BusyIs DEF Holds
  <2>2. f \in Posted
    BY <2>1, CallIs DEF CallOK
  <2>3. QED
    BY <2>2 DEF Posted, FormIds, CallsInv, IsTable
<1>2. QED
  BY <1>1 DEF AnswersInv

(* What a call has just read agrees with what others hold.                 *)
LEMMA NewAgrees ==
    ASSUME TypeOK, CallsInv, AnswersInv, NEW h \in Calls, Starts(h), CallsInv',
           NEW x \in DOMAIN call, x # h, NEW f, Holds(x, f), Holds(x, f)', Holds(h, f)',
           NEW e \in Employees, ~Spoilt(f, e)'
    PROVE  Agree(var[x].copy, var'[h].copy, e)
<1>1. PICK op, ff, emps, s, line, to : Started(h, op, ff, emps, s, line, to)
  BY StartsAre
<1>2. /\ Moves(h) /\ call'[h] = [op |-> op, form |-> ff, emps |-> emps, status |-> s]
      /\ var'[h].copy = line
  BY <1>1, StartedMoves
<1>3. ff = f /\ h \in DOMAIN call' /\ x \in DOMAIN call' /\ call'[x] = call[x]
  BY <1>2 DEF Holds, Moves
<1>4. e \notin emps /\ e \notin call[x].emps
  <2>1. x \in Busy' /\ h \in Busy' /\ call'[x].op \in Savers /\ call'[h].op \in Savers
    BY <1>3, HolderBusy
  <2>2. e \notin call'[h].emps /\ e \notin call'[x].emps
    BY <2>1, <1>3, HoldersCross
  <2>3. QED
    BY <2>2, <1>2, <1>3
<1>5. ~Spoilt(f, e)
  BY <1>2, SpoiltGrows
<1>6. f \in DOMAIN form /\ Agree(line, form[f], e)
  BY <1>1, <1>3, <1>4 DEF Started
<1>7. Agree(var[x].copy, form[f], e)
  BY <1>4, <1>5, <1>6, HeldAgree
<1>8. QED
  BY <1>2, <1>6, <1>7, Agreeing

LEMMA AnswersPairs ==
    ASSUME TypeOK, CallsInv, AnswersInv, NEW h \in Calls, Step(h), CallsInv',
           NEW x \in DOMAIN call', NEW g \in DOMAIN call', x # g,
           NEW f, Holds(x, f)', Holds(g, f)', NEW e \in Employees, ~Spoilt(f, e)'
    PROVE  Agree(var'[x].copy, var'[g].copy, e)
<1>1. Moves(h)
  BY StepMoves
<1>2. ~Spoilt(f, e)
  BY <1>1, SpoiltGrows
<1>3. CASE x = h /\ Starts(h)
  <2>1. g \in DOMAIN call /\ Holds(g, f) /\ var'[g].copy = var[g].copy
    BY <1>3, HoldersAre
  <2>2. Agree(var[g].copy, var'[h].copy, e)
    BY <2>1, <1>3, NewAgrees
  <2>3. QED
    BY <2>1, <2>2, <1>3, Agreeing
<1>4. CASE g = h /\ Starts(h)
  <2>1. x \in DOMAIN call /\ Holds(x, f) /\ var'[x].copy = var[x].copy
    BY <1>4, HoldersAre
  <2>2. Agree(var[x].copy, var'[h].copy, e)
    BY <2>1, <1>4, NewAgrees
  <2>3. QED
    BY <2>1, <2>2, <1>4
<1>5. CASE ~(x = h /\ Starts(h)) /\ ~(g = h /\ Starts(h))
  <2>1. /\ x \in DOMAIN call /\ Holds(x, f) /\ var'[x].copy = var[x].copy
        /\ g \in DOMAIN call /\ Holds(g, f) /\ var'[g].copy = var[g].copy
    BY <1>5, HoldersAre
  <2>2. QED
    BY <2>1, <1>2, HeldAgree
<1>6. QED
  BY <1>3, <1>4, <1>5

LEMMA FormSaveDoes ==
    ASSUME TypeOK, CallsInv, NEW h \in Calls, FormSave(h)
    PROVE  /\ h \in DOMAIN call /\ Holds(h, call[h].form) /\ call[h].op \in Savers
           /\ call[h].form \in Posted /\ var[h].copy \in FormRow
           /\ pc[h] = "form_save" /\ pc'[h] = "done" /\ call' = call /\ var' = var
           /\ licence' = licence /\ filed' = filed /\ overwritten' = overwritten
           /\ DOMAIN form' = DOMAIN form \cup {call[h].form}
           /\ form'[call[h].form] = var[h].copy
           /\ \A f \in DOMAIN form : f # call[h].form => form'[f] = form[f]
<1>1. /\ pc[h] = "form_save" /\ pc'[h] = "done" /\ call' = call /\ var' = var
      /\ licence' = licence /\ filed' = filed /\ overwritten' = overwritten
  BY GotoDoes DEF FormSave, Same, Steps
<1>2. h \in DOMAIN call
  BY <1>1 DEF CallsInv
<1>3. /\ DOMAIN form' = DOMAIN form \cup {call[h].form}
      /\ form'[call[h].form] = var[h].copy
      /\ \A f \in DOMAIN form : f # call[h].form => form'[f] = form[f]
  BY DEF FormSave, Save
<1>4. Holds(h, call[h].form) /\ CallOK(h)
  BY <1>1, <1>2, CallIs DEF Holds
<1>5. QED
  BY <1>1, <1>2, <1>3, <1>4 DEF CallOK

(* Whatever else a step does to a form, the answers in it stay.            *)
LEMMA FormStays ==
    ASSUME TypeOK, CallsInv, NEW h \in Calls, Step(h), ~FormSave(h), NEW f \in DOMAIN form'
    PROVE  \/ f \in DOMAIN form /\ form'[f] = form[f]
           \/ /\ f = h /\ h \notin Posted /\ Create(h)
              /\ form'[f].responses = NoRows /\ DOMAIN form'[f].responses = {}
<1>1. CASE form' = form
  BY <1>1
<1>2. CASE Create(h)
  <2>1. PICK kind : form' = Save(form, h, [kind |-> kind, responses |-> NoRows])
    BY <1>2, CreateMoves
  <2>2. h \notin Posted
    BY <1>2, CreateMoves, PostedOnce
  <2>3. f = h => form'[f].responses = NoRows
    BY <2>1 DEF Save
  <2>4. f # h => f \in DOMAIN form /\ form'[f] = form[f]
    BY <2>1 DEF Save
  <2>5. QED
    BY <1>2, <2>2, <2>3, <2>4, NoAnswers
<1>3. CASE DeleteForm(h)
  BY <1>3, DeleteMoves DEF Delete
<1>4. QED
  BY <1>1, <1>2, <1>3, FormSteps

LEMMA AnswersStored ==
    ASSUME TypeOK, CallsInv, AnswersInv, NEW h \in Calls, Step(h), CallsInv',
           NEW x \in DOMAIN call', NEW f, Holds(x, f)', f \in DOMAIN form',
           NEW e \in Employees, e \notin call'[x].emps, ~Spoilt(f, e)'
    PROVE  Agree(var'[x].copy, form'[f], e)
<1>1. Moves(h)
  BY StepMoves
<1>2. ~Spoilt(f, e)
  BY <1>1, SpoiltGrows
<1>3. CASE x = h /\ Starts(h)
  <2>1. PICK op, ff, emps, s, line, to : Started(h, op, ff, emps, s, line, to)
    BY <1>3, StartsAre
  <2>2. /\ call'[h] = [op |-> op, form |-> ff, emps |-> emps, status |-> s]
        /\ var'[h].copy = line
    BY <2>1, StartedMoves
  <2>3. ff = f /\ e \notin emps
    BY <2>2, <1>3 DEF Holds
  <2>4. form' = form /\ Agree(line, form[f], e)
    BY <2>1, <2>3 DEF Started, tables
  <2>5. QED
    BY <2>2, <2>4, <1>3
<1>4. CASE ~(x = h /\ Starts(h))
  <2>1. x \in DOMAIN call /\ Holds(x, f) /\ var'[x].copy = var[x].copy /\ call'[x] = call[x]
    BY <1>4, HoldersAre
  <2>2. call[x].form = f /\ f \in Posted
    BY <2>1, BusyIs, CallIs DEF Holds, CallOK
  <2>3. CASE FormSave(h) /\ call[h].form = f
    <3>1. h \in DOMAIN call /\ Holds(h, f) /\ form'[f] = var[h].copy /\ pc'[h] = "done"
      BY <2>3, FormSaveDoes
    <3>2. x # h
      BY <3>1 DEF Holds, Approving
    <3>3. Agree(var[x].copy, var[h].copy, e)
      BY <2>1, <3>1, <3>2, <1>2, HeldAgree
    <3>4. QED
      BY <2>1, <3>1, <3>3
  <2>4. CASE ~(FormSave(h) /\ call[h].form = f)
    <3>1. f \in DOMAIN form /\ form'[f] = form[f]
      <4>1. CASE FormSave(h)
        <5>1. call[h].form # f /\ DOMAIN form' = DOMAIN form \cup {call[h].form}
              /\ \A g \in DOMAIN form : g # call[h].form => form'[g] = form[g]
          BY <4>1, <2>4, FormSaveDoes
        <5>2. QED
          BY <5>1
      <4>2. CASE ~FormSave(h)
        BY <4>2, <2>2, FormStays
      <4>3. QED
        BY <4>1, <4>2
    <3>2. Agree(var[x].copy, form[f], e)
      BY <2>1, <3>1, <1>2, HeldAgree
    <3>3. QED
      BY <2>1, <3>1, <3>2
  <2>5. QED
    BY <2>3, <2>4
<1>5. QED
  BY <1>3, <1>4

LEMMA AnswersNext ==
    ASSUME TypeOK, CallsInv, AnswersInv, NEW h \in Calls, Step(h), CallsInv'
    PROVE  AnswersInv'
<1> SUFFICES ASSUME NEW x \in DOMAIN call', NEW f \in FormIds, Holds(x, f)',
                    NEW e \in Employees, ~Spoilt(f, e)'
             PROVE  /\ f \in DOMAIN form' /\ e \notin call'[x].emps
                       => Agree(var'[x].copy, form'[f], e)
                    /\ \A g \in DOMAIN call' : Holds(g, f)' /\ g # x =>
                                                  Agree(var'[x].copy, var'[g].copy, e)
  BY DEF AnswersInv
<1>1. QED
  BY AnswersStored, AnswersPairs

(* An answer that is stored changes only by a call about it, or is spoilt. *)
LEMMA AnswerChanges ==
    ASSUME TypeOK, CallsInv, AnswersInv, NEW h \in Calls, Step(h),
           NEW f \in DOMAIN form, f \in DOMAIN form', NEW e \in DOMAIN form[f].responses
    PROVE  \/ e \in DOMAIN form'[f].responses /\ form'[f].responses[e] = form[f].responses[e]
           \/ \E x \in About(f, e) :
                (pc[x] = "form_save" /\ pc'[x] = "done") \/ Crossed(x, Savers)
<1>1. e \in Employees
  BY FormIs, RowAnswers
<1>2. CASE FormSave(h) /\ call[h].form = f
  <2>1. /\ h \in DOMAIN call /\ Holds(h, f) /\ call[h].op \in Savers
        /\ pc[h] = "form_save" /\ pc'[h] = "done" /\ form'[f] = var[h].copy
    BY <1>2, FormSaveDoes
  <2>2. CASE e \in call[h].emps
    BY <2>1, <2>2, <1>2 DEF About
  <2>3. CASE Spoilt(f, e)
    BY <2>3 DEF Spoilt
  <2>4. CASE e \notin call[h].emps /\ ~Spoilt(f, e)
    <3>1. Agree(var[h].copy, form[f], e)
      BY <2>1, <2>4, <1>1, HeldAgree
    <3>2. QED
      BY <3>1, <2>1 DEF Agree
  <2>5. QED
    BY <2>2, <2>3, <2>4
<1>3. CASE ~(FormSave(h) /\ call[h].form = f)
  <2>1. form'[f] = form[f]
    <3>1. CASE FormSave(h)
      BY <3>1, <1>3, FormSaveDoes
    <3>2. CASE ~FormSave(h)
      BY <3>2, FormStays DEF CallsInv
    <3>3. QED
      BY <3>1, <3>2
  <2>2. QED
    BY <2>1
<1>4. QED
  BY <1>2, <1>3
-----------------------------------------------------------------------------
(* The licences: where they are kept, and how one is lost.                 *)
LEMMA FiledGrows ==
    ASSUME NEW h, Step(h)
    PROVE  filed \subseteq filed'
<1>1. CASE Starts(h)
  BY <1>1 DEF Starts, Submit, Respond, Update, tables
<1>2. CASE LicenceRead(h) \/ LicenceWrite(h) \/ FilesSave(h) \/ FormSave(h) \/ Abort(h)
  BY <1>2 DEF LicenceRead, LicenceWrite, FilesSave, FormSave, Abort, tables
<1>3. CASE Create(h) \/ DeleteForm(h) \/ EditEmployee(h) \/ EmployeeSave(h)
  BY <1>3 DEF Create, DeleteForm, EditEmployee, EmployeeSave, tables
<1>4. QED
  BY <1>1, <1>2, <1>3, StepsAre

LEMMA OverwrittenGrows ==
    ASSUME NEW h, Step(h)
    PROVE  overwritten \subseteq overwritten'
<1>1. CASE Starts(h)
  BY <1>1 DEF Starts, Submit, Respond, Update, tables
<1>2. CASE LicenceRead(h) \/ FilesSave(h) \/ FormSave(h) \/ Abort(h)
  BY <1>2 DEF LicenceRead, FilesSave, FormSave, Abort, tables
<1>3. CASE LicenceWrite(h)
  BY <1>3 DEF LicenceWrite
<1>4. CASE Create(h) \/ DeleteForm(h) \/ EditEmployee(h) \/ EmployeeSave(h)
  BY <1>4 DEF Create, DeleteForm, EditEmployee, EmployeeSave, tables
<1>5. QED
  BY <1>1, <1>2, <1>3, <1>4, StepsAre

LEMMA LicenceSteps ==
    ASSUME NEW h, Step(h)
    PROVE  licence' = licence \/ LicenceWrite(h) \/ EmployeeSave(h)
<1>1. CASE Starts(h)
  BY <1>1 DEF Starts, Submit, Respond, Update, tables
<1>2. CASE LicenceRead(h) \/ FilesSave(h) \/ FormSave(h) \/ Abort(h)
  BY <1>2 DEF LicenceRead, FilesSave, FormSave, Abort, tables
<1>3. CASE Create(h) \/ DeleteForm(h) \/ EditEmployee(h)
  BY <1>3 DEF Create, DeleteForm, EditEmployee, tables
<1>4. QED
  BY <1>1, <1>2, <1>3, StepsAre

LEMMA ExcusedGrows ==
    ASSUME TypeOK, CallsInv, NEW h \in Calls, Step(h), NEW e, NEW a, Excused(e, a)
    PROVE  Excused(e, a)'
<1>1. Moves(h) /\ overwritten \subseteq overwritten'
  BY StepMoves, OverwrittenGrows
<1>2. CASE a \in overwritten
  BY <1>1, <1>2 DEF Excused
<1>3. ASSUME NEW x \in DOMAIN call, e \in call[x].emps, call[x].op \in {"submit", "employee"},
             call[x].status = "removes" \/ {x, a} \in crossed
      PROVE  Excused(e, a)'
  <2>1. x \in DOMAIN call' /\ call'[x] = call[x] /\ crossed \subseteq crossed'
    BY <1>1 DEF Moves
  <2>2. QED
    BY <1>3, <2>1 DEF Excused
<1>4. QED
  BY <1>2, <1>3 DEF Excused

LEMMA WriteDoes ==
    ASSUME TypeOK, CallsInv, NEW h \in Calls, LicenceWrite(h)
    PROVE  /\ h \in DOMAIN call /\ pc[h] = "licence_write" /\ pc'[h] = "files_save"
           /\ call' = call /\ var' = var /\ call[h].op = "submit" /\ call[h].status = "approved"
           /\ \E e \in Employees :
                /\ call[h].emps = {e} /\ Keeps(h, e) /\ var[h].licences \in Licences(e)
                /\ h \in licence'[e] /\ licence'[e] \subseteq var[h].licences \cup {h}
                /\ var[h].licences \subseteq licence'[e] \cup overwritten'
                /\ \A x \in Employees : x # e => licence'[x] = licence[x]
<1>1. /\ pc[h] = "licence_write" /\ pc'[h] = "files_save" /\ call' = call /\ var' = var
      /\ \E gone : /\ licence' = [licence EXCEPT ![Of(h)] = (var[h].licences \ gone) \cup {h}]
                   /\ overwritten' = overwritten \cup gone
  BY GotoDoes DEF LicenceWrite, Same, Steps, InFlight
<1>2. h \in DOMAIN call
  BY <1>1 DEF CallsInv
<1>3. call[h].op = "submit" /\ call[h].status = "approved"
  BY <1>1, <1>2, CallIs DEF CallOK, Approving
<1>4. Of(h) \in Employees /\ call[h].emps = {Of(h)}
  BY <1>2, <1>3, OfIs
<1>5. Keeps(h, Of(h)) /\ var[h].licences \in Licences(Of(h))
  BY <1>1, <1>2, <1>4 DEF Keeps, Licences
<1>6. /\ h \in licence'[Of(h)] /\ licence'[Of(h)] \subseteq var[h].licences \cup {h}
      /\ var[h].licences \subseteq licence'[Of(h)] \cup overwritten'
      /\ \A x \in Employees : x # Of(h) => licence'[x] = licence[x]
  BY <1>1, <1>4 DEF TypeOK
<1>7. QED
  BY <1>1, <1>2, <1>3, <1>4, <1>5, <1>6

LEMMA SaveDoes ==
    ASSUME TypeOK, CallsInv, NEW h \in Calls, EmployeeSave(h), NEW e \in Employees
    PROVE  licence'[e] \in Licences(e) /\ pc'[h] = "done" /\ call' = call /\ var' = var
<1>1. /\ pc[h] = "employee_save" /\ pc'[h] = "done" /\ call' = call /\ var' = var
      /\ licence' = [licence EXCEPT ![Of(h)] = var[h].licences]
  BY GotoDoes DEF EmployeeSave, Same, Steps
<1>2. h \in DOMAIN call
  BY <1>1 DEF CallsInv
<1>3. call[h].op = "employee"
  BY <1>1, <1>2, CallIs DEF CallOK
<1>4. Of(h) \in Employees /\ call[h].emps = {Of(h)}
  BY <1>2, <1>3, OfIs
<1>5. var[h].licences \in Licences(Of(h))
  BY <1>1, <1>2, <1>4 DEF Keeps, Licences
<1>6. e = Of(h) => licence'[e] = var[h].licences
  BY <1>1, <1>4 DEF TypeOK
<1>7. e # Of(h) => licence'[e] = licence[e]
  BY <1>1, <1>4 DEF TypeOK
<1>8. licence[e] \in Licences(e)
  BY DEF Licences
<1>9. QED
  BY <1>1, <1>5, <1>6, <1>7, <1>8

LEMMA KeepersAre ==
    ASSUME TypeOK, CallsInv, NEW h \in Calls, Step(h), NEW x \in DOMAIN call',
           NEW e \in Employees, Keeps(x, e)'
    PROVE  \/ x = h /\ EditEmployee(h)
           \/ x = h /\ LicenceRead(h) /\ var'[x].licences = licence[e]
           \/ x # h /\ x \in DOMAIN call /\ Keeps(x, e) /\ var'[x].licences = var[x].licences
<1>1. Moves(h)
  BY StepMoves
<1>2. CASE x # h
  <2>1. x \in DOMAIN call /\ x \in Calls
    BY <1>1, <1>2, AskedOf DEF Moves
  <2>2. pc'[x] = pc[x] /\ var'[x] = var[x] /\ call'[x] = call[x]
    BY <2>1, <1>1, <1>2 DEF Moves
  <2>3. QED
    BY <2>1, <2>2, <1>2 DEF Keeps
<1>3. CASE x = h /\ ~EditEmployee(h)
  <2>1. pc'[h] \in {"licence_write", "employee_save"} /\ e \in call'[h].emps
    BY <1>3 DEF Keeps
  <2>2. ~Starts(h) /\ ~Create(h) /\ ~DeleteForm(h)
    BY <2>1, StartsMoves, CreateMoves, DeleteMoves
  <2>3. LicenceRead(h) \/ LicenceWrite(h) \/ FilesSave(h) \/ FormSave(h) \/ EmployeeSave(h)
           \/ Abort(h)
    BY <1>3, <2>2, StepsAre
  <2>4. LicenceRead(h) /\ pc[h] = "licence_read"
    BY <2>1, <2>3 DEF TypeOK, Goto, LicenceRead, LicenceWrite, FilesSave, FormSave,
                      EmployeeSave, Abort
  <2>5. h \in DOMAIN call /\ call' = call
    BY <2>4, <1>1 DEF Moves
  <2>6. call[h].emps = {Of(h)}
    BY <2>4, <2>5, CallIs, OfIs DEF CallOK, Approving
  <2>7. Of(h) = e /\ Set(h, "licences", licence[Of(h)])
    BY <2>1, <2>4, <2>5, <2>6 DEF LicenceRead
  <2>8. QED
    BY <2>4, <2>7, <1>3, SetLicences
<1>4. QED
  BY <1>2, <1>3

(* Every set of licences after a step is one there was, or that with the   *)
(* licence of an approval, or one of which some have been taken out.       *)
Entered(h, e, L) ==
    /\ LicenceWrite(h) /\ call[h].emps = {e}
    /\ L \subseteq var[h].licences \cup {h} /\ var[h].licences \subseteq L \cup overwritten'
    /\ var[h].licences \in Licences(e)

TakenOut(h, e, L) ==
    /\ L \subseteq licence[e] /\ call'[h].emps = {e} /\ call'[h].op = "employee"
    /\ call'[h].status = "removes" /\ h \in DOMAIN call' /\ licence' = licence

LEMMA LicencesAre ==
    ASSUME TypeOK, CallsInv, NEW h \in Calls, Step(h), NEW e \in Employees, NEW L \in Licences(e)'
    PROVE  L \in Licences(e) \/ Entered(h, e, L) \/ TakenOut(h, e, L)
<1>1. Moves(h) /\ licence[e] \in Licences(e)
  BY StepMoves DEF Licences
<1>2. CASE L = licence'[e]
  <2>1. CASE LicenceWrite(h)
    <3>1. PICK y \in Employees :
                /\ call[h].emps = {y} /\ var[h].licences \in Licences(y)
                /\ licence'[y] \subseteq var[h].licences \cup {h}
                /\ var[h].licences \subseteq licence'[y] \cup overwritten'
                /\ \A x \in Employees : x # y => licence'[x] = licence[x]
      BY <2>1, WriteDoes
    <3>2. QED
      BY <3>1, <2>1, <1>1, <1>2 DEF Entered
  <2>2. CASE EmployeeSave(h)
    BY <2>2, <1>2, SaveDoes
  <2>3. CASE licence' = licence
    BY <2>3, <1>1, <1>2
  <2>4. QED
    BY <2>1, <2>2, <2>3, LicenceSteps
<1>3. ASSUME NEW x \in DOMAIN call', Keeps(x, e)', L = var'[x].licences
      PROVE  L \in Licences(e) \/ Entered(h, e, L) \/ TakenOut(h, e, L)
  <2>1. CASE x = h /\ EditEmployee(h)
    <3>1. PICK y \in Employees : \E out \in SUBSET licence[y] :
                /\ call'[h].emps = {y} /\ var'[h].licences = licence[y] \ out
                /\ call'[h].status = IF out = {} THEN "keeps" ELSE "removes"
      BY <2>1, EditMoves
    <3>2. PICK out \in SUBSET licence[y] :
                /\ call'[h].emps = {y} /\ var'[h].licences = licence[y] \ out
                /\ call'[h].status = IF out = {} THEN "keeps" ELSE "removes"
      BY <3>1
    <3>3. y = e
      BY <3>2, <1>3, <2>1 DEF Keeps
    <3>4. CASE out = {}
      <4>1. L = licence[e]
        BY <3>2, <3>3, <3>4, <2>1, <1>3
      <4>2. QED
        BY <4>1, <1>1
    <3>5. CASE out # {}
      <4>1. call'[h].op = "employee" /\ licence' = licence
        BY <2>1, EditMoves DEF tables
      <4>2. QED
        BY <4>1, <3>2, <3>3, <3>5, <2>1, <1>3 DEF TakenOut
    <3>6. QED
      BY <3>4, <3>5
  <2>2. CASE x = h /\ LicenceRead(h) /\ var'[x].licences = licence[e]
    BY <2>2, <1>1, <1>3
  <2>3. CASE x # h /\ x \in DOMAIN call /\ Keeps(x, e) /\ var'[x].licences = var[x].licences
    BY <2>3, <1>3 DEF Licences
  <2>4. QED
    BY <2>1, <2>2, <2>3, <1>3, KeepersAre
<1>4. QED
  BY <1>2, <1>3 DEF Licences

LEMMA LostLicence ==
    ASSUME TypeOK, CallsInv, LicencesInv, NEW h \in Calls, Step(h), NEW e \in Employees,
           NEW L \in Licences(e), NEW M \in Licences(e)', NEW a \in L, a \notin M
    PROVE  Excused(e, a)'
<1>1. Moves(h)
  BY StepMoves
<1>2. CASE M \in Licences(e)
  <2>1. Excused(e, a)
    BY <1>2 DEF LicencesInv
  <2>2. QED
    BY <2>1, ExcusedGrows
<1>3. CASE Entered(h, e, M)
  <2>1. CASE a \in var[h].licences
    BY <2>1, <1>3 DEF Entered, Excused
  <2>2. CASE a \notin var[h].licences
    <3>1. Excused(e, a)
      BY <2>2, <1>3 DEF LicencesInv, Entered
    <3>2. QED
      BY <3>1, ExcusedGrows
  <2>3. QED
    BY <2>1, <2>2
<1>4. CASE TakenOut(h, e, M)
  BY <1>4 DEF TakenOut, Excused
<1>5. QED
  BY <1>2, <1>3, <1>4, LicencesAre

LEMMA WhereFrom ==
    ASSUME TypeOK, CallsInv, NEW h \in Calls, Step(h), NEW e \in Employees,
           NEW L \in Licences(e)', NEW a \in L
    PROVE  \/ \E M \in Licences(e) : a \in M
           \/ a = h /\ LicenceWrite(h) /\ call[h].emps = {e}
<1>1. licence[e] \in Licences(e)
  BY DEF Licences
<1>2. QED
  BY <1>1, LicencesAre DEF Entered, TakenOut

(* Past the write of its licence, a call never comes to it again.          *)
LEMMA PastWrite ==
    ASSUME TypeOK, CallsInv, NEW h \in Calls, Step(h), NEW a \in DOMAIN call,
           pc[a] \notin {"licence_read", "licence_write"}
    PROVE  pc'[a] \notin {"licence_read", "licence_write"}
<1>1. Moves(h) /\ a \in Calls /\ pc[a] # "idle"
  BY StepMoves, AskedOf DEF CallsInv
<1>2. CASE a # h
  BY <1>1, <1>2 DEF Moves
<1>3. CASE a = h
  <2>1. LicenceRead(h) \/ LicenceWrite(h) \/ FilesSave(h) \/ FormSave(h) \/ EmployeeSave(h)
           \/ Abort(h)
    BY <1>1, <1>3, StepsAre, CreateMoves, DeleteMoves, EditMoves, StartsAre, StartedMoves
  <2>2. QED
    BY <2>1, <1>3 DEF TypeOK, Goto, LicenceRead, LicenceWrite, FilesSave, FormSave,
                      EmployeeSave, Abort
<1>4. QED
  BY <1>2, <1>3

LEMMA LicencesNext ==
    ASSUME TypeOK, CallsInv, LicencesInv, NEW h \in Calls, Step(h), CallsInv'
    PROVE  LicencesInv'
<1>1. Moves(h)
  BY StepMoves
<1>2. ASSUME NEW e \in Employees, NEW L \in Licences(e)', NEW a \in L
      PROVE  /\ a \in DOMAIN call' /\ call'[a].op = "submit" /\ call'[a].emps = {e}
             /\ call'[a].status = "approved"
             /\ pc'[a] \notin {"licence_read", "licence_write"}
  <2>1. ASSUME NEW M \in Licences(e), a \in M
        PROVE  /\ a \in DOMAIN call' /\ call'[a].op = "submit" /\ call'[a].emps = {e}
               /\ call'[a].status = "approved"
               /\ pc'[a] \notin {"licence_read", "licence_write"}
    <3>1. /\ a \in DOMAIN call /\ call[a].op = "submit" /\ call[a].emps = {e}
          /\ call[a].status = "approved" /\ pc[a] \notin {"licence_read", "licence_write"}
      BY <2>1 DEF LicencesInv
    <3>2. a \in DOMAIN call' /\ call'[a] = call[a]
      BY <3>1, <1>1 DEF Moves
    <3>3. QED
      BY <3>1, <3>2, PastWrite
  <2>2. CASE a = h /\ LicenceWrite(h) /\ call[h].emps = {e}
    BY <2>2, WriteDoes
  <2>3. QED
    BY <2>1, <2>2, WhereFrom
<1>3. ASSUME NEW e \in Employees, NEW L \in Licences(e)', NEW M \in Licences(e)', NEW a \in L \ M
      PROVE  Excused(e, a)'
  <2>1. ASSUME NEW N \in Licences(e), a \in N
        PROVE  Excused(e, a)'
    BY <2>1, <1>3, LostLicence
  <2>2. CASE a = h /\ LicenceWrite(h) /\ call[h].emps = {e}
    <3>1. h \in licence'[e] /\ call' = call /\ h \in DOMAIN call /\ pc[h] = "licence_write"
      BY <2>2, WriteDoes
    <3>2. PICK x \in DOMAIN call' : Keeps(x, e)' /\ M = var'[x].licences
      BY <3>1, <2>2, <1>3 DEF Licences
    <3>3. x # h
      BY <3>2, <2>2, WriteDoes DEF Keeps
    <3>4. x \in DOMAIN call /\ Keeps(x, e)
      BY <3>2, <3>3, KeepersAre
    <3>5. x \in Busy /\ call[x].op \in {"submit", "employee"} /\ e \in call[x].emps
      BY <3>4, BusyIs DEF Keeps
    <3>6. h \in Busy
      BY <3>1 DEF Busy, InFlight
    <3>7. {x, h} \in crossed
      BY <3>3, <3>5, <3>6 DEF CallsInv
    <3>8. Excused(e, h)
      BY <3>4, <3>5, <3>7 DEF Excused
    <3>9. QED
      BY <3>8, <2>2, <1>1, ExcusedGrows
  <2>3. QED
    BY <2>1, <2>2, <1>3, WhereFrom
<1>4. QED
  BY <1>2, <1>3 DEF LicencesInv
-----------------------------------------------------------------------------
(* What an approval gives.                                                 *)
LicensedBy(e, a) == a \in filed /\ (a \in licence[e] \/ Excused(e, a))

LEMMA LicensedIs == \A e, r : Licensed(e, r) <=> LicensedBy(e, r.by)
  BY DEF Licensed, LicensedBy, Excused

LEMMA LicenceStays ==
    ASSUME TypeOK, CallsInv, LicencesInv, NEW h \in Calls, Step(h), NEW e \in Employees, NEW a
    PROVE  /\ a \in licence[e] \/ Excused(e, a) => a \in licence'[e] \/ Excused(e, a)'
           /\ LicensedBy(e, a) => LicensedBy(e, a)'
<1>1. Moves(h) /\ filed \subseteq filed'
  BY StepMoves, FiledGrows
<1>2. licence[e] \in Licences(e) /\ licence'[e] \in Licences(e)'
  BY DEF Licences
<1>3. a \in licence[e] \/ Excused(e, a) => a \in licence'[e] \/ Excused(e, a)'
  BY <1>2, LostLicence, ExcusedGrows
<1>4. QED
  BY <1>1, <1>3 DEF LicensedBy

(* What an answer approved by a is owed while call h still gives it.       *)
CoveredBy(h, e, a) ==
    \/ LicensedBy(e, a)
    \/ /\ a = h /\ e \in call[h].emps
       /\ \/ pc[h] \in {"licence_read", "licence_write"}
          \/ pc[h] = "files_save" /\ (h \in licence[e] \/ Excused(e, h))

LEMMA CoveredStays ==
    ASSUME TypeOK, CallsInv, LicencesInv, NEW h \in Calls, Step(h), NEW x \in DOMAIN call, x # h,
           NEW e \in Employees, NEW a, CoveredBy(x, e, a)
    PROVE  CoveredBy(x, e, a)'
<1>1. Moves(h) /\ x \in Calls
  BY StepMoves, AskedOf
<1>2. pc'[x] = pc[x] /\ call'[x] = call[x]
  BY <1>1 DEF Moves
<1>3. x \in licence[e] \/ Excused(e, x) => x \in licence'[e] \/ Excused(e, x)'
  BY LicenceStays
<1>4. LicensedBy(e, a) => LicensedBy(e, a)'
  BY LicenceStays
<1>5. QED
  BY <1>2, <1>3, <1>4 DEF CoveredBy

(* The steps of an approval between its start and its save.                *)
LEMMA CoveredOnTheWay ==
    ASSUME TypeOK, CallsInv, LicencesInv, NEW h \in DOMAIN call, Step(h), ~Starts(h),
           pc'[h] \in Approving \cup {"form_save"}, NEW e \in Employees, NEW a, CoveredBy(h, e, a)
    PROVE  CoveredBy(h, e, a)'
<1>1. h \in Calls /\ Moves(h)
  BY AskedOf, StepMoves
<1>2. CASE LicensedBy(e, a)
  BY <1>1, <1>2, LicenceStays DEF CoveredBy
<1>3. CASE ~LicensedBy(e, a)
  <2>1. /\ a = h /\ e \in call[h].emps
        /\ \/ pc[h] \in {"licence_read", "licence_write"}
           \/ pc[h] = "files_save" /\ (h \in licence[e] \/ Excused(e, h))
    BY <1>3 DEF CoveredBy
  <2>2. LicenceRead(h) \/ LicenceWrite(h) \/ FilesSave(h)
    <3>1. pc[h] # "idle" /\ pc[h] # "form_save" /\ pc[h] # "employee_save"
      BY <2>1
    <3>2. ~Create(h) /\ ~DeleteForm(h) /\ ~EditEmployee(h) /\ ~FormSave(h) /\ ~EmployeeSave(h)
      BY <3>1, <1>1 DEF Create, DeleteForm, EditEmployee, FormSave, EmployeeSave, Goto
    <3>3. ~Abort(h)
      BY <1>1 DEF Abort, TypeOK, Approving
    <3>4. QED
      BY <3>2, <3>3, StepsAre
  <2>3. call' = call
    BY <2>2, <1>1, LaterMoves
  <2>4. CASE LicenceRead(h)
    <3>1. pc'[h] = "licence_write"
      BY <1>1, <2>4, GotoDoes DEF LicenceRead, Steps, InFlight
    <3>2. QED
      BY <3>1, <2>1, <2>3 DEF CoveredBy
  <2>5. CASE LicenceWrite(h)
    <3>1. pc'[h] = "files_save" /\ h \in licence'[e]
      BY <1>1, <2>1, <2>5, WriteDoes
    <3>2. QED
      BY <3>1, <2>1, <2>3 DEF CoveredBy
  <2>6. CASE FilesSave(h)
    <3>1. pc[h] = "files_save" /\ h \in filed'
      BY <2>6 DEF FilesSave, Goto
    <3>2. h \in licence'[e] \/ Excused(e, h)'
      BY <2>1, <3>1, <1>1, LicenceStays
    <3>3. QED
      BY <2>1, <3>1, <3>2 DEF CoveredBy, LicensedBy
  <2>7. QED
    BY <2>2, <2>4, <2>5, <2>6
<1>4. QED
  BY <1>2, <1>3

(* LicensedInv, by the calls that approved.                                *)
ApprovedIn(line, e, a) ==
    /\ e \in DOMAIN line.responses /\ line.kind = "task"
    /\ line.responses[e].status = "approved" /\ line.responses[e].by = a /\ a # None

LicencesOf(f)     == \A e : \A a : ApprovedIn(form[f], e, a) => LicensedBy(e, a)
LicencesOwed(h)   == \A e : \A a : ApprovedIn(var[h].copy, e, a) => CoveredBy(h, e, a)

LicensedForm ==
    /\ \A f \in DOMAIN form : LicencesOf(f)
    /\ \A h \in DOMAIN call : pc[h] \in Approving \cup {"form_save"} => LicencesOwed(h)

LEMMA LicensedInvIs == LicensedInv <=> LicensedForm
<1>1. \A h, e, r : Covered(h, e, r) <=> CoveredBy(h, e, r.by)
  BY LicensedIs DEF Covered, CoveredBy
<1>2. \A f \in DOMAIN form : LicencesOf(f) <=>
        \A e \in DOMAIN form[f].responses :
          LET r == form[f].responses[e] IN
          form[f].kind = "task" /\ r.status = "approved" /\ r.by # None => Licensed(e, r)
  BY LicensedIs DEF LicencesOf, ApprovedIn
<1>3. \A h \in DOMAIN call : LicencesOwed(h) <=>
        \A e \in DOMAIN var[h].copy.responses :
          LET r == var[h].copy.responses[e] IN
          var[h].copy.kind = "task" /\ r.status = "approved" /\ r.by # None => Covered(h, e, r)
  BY <1>1 DEF LicencesOwed, ApprovedIn
<1>4. QED
  BY <1>2, <1>3 DEF LicensedInv, LicensedForm

LEMMA EmployeeOf ==
    ASSUME NEW line \in FormRow, NEW e, NEW a, ApprovedIn(line, e, a)
    PROVE  e \in Employees
  BY RowAnswers DEF ApprovedIn

LEMMA StoredLicences ==
    ASSUME TypeOK, CallsInv, LicencesInv, LicensedInv, NEW h \in Calls, Step(h),
           NEW f \in DOMAIN form'
    PROVE  LicencesOf(f)'
<1> SUFFICES ASSUME NEW e, NEW a, ApprovedIn(form'[f], e, a)
             PROVE  LicensedBy(e, a)'
  BY DEF LicencesOf
<1>1. CASE f \in DOMAIN form /\ form'[f] = form[f]
  <2>1. e \in Employees
    BY <1>1, FormIs, EmployeeOf
  <2>2. LicensedBy(e, a)
    BY <1>1, LicensedInvIs DEF LicensedForm, LicencesOf
  <2>3. QED
    BY <2>1, <2>2, LicenceStays
<1>2. CASE FormSave(h) /\ f = call[h].form
  <2>1. /\ h \in DOMAIN call /\ pc[h] = "form_save" /\ var[h].copy \in FormRow
        /\ form'[f] = var[h].copy
    BY <1>2, FormSaveDoes
  <2>2. CoveredBy(h, e, a)
    BY <2>1, LicensedInvIs DEF LicensedForm, LicencesOwed
  <2>3. LicensedBy(e, a) /\ e \in Employees
    BY <2>1, <2>2, EmployeeOf DEF CoveredBy
  <2>4. QED
    BY <2>3, LicenceStays
<1>3. CASE FormSave(h) /\ f # call[h].form
  <2>1. f \in DOMAIN form /\ form'[f] = form[f]
    BY <1>3, FormSaveDoes
  <2>2. QED
    BY <2>1, <1>1
<1>4. CASE ~FormSave(h)
  <2>1. DOMAIN form'[f].responses # {}
    BY DEF ApprovedIn
  <2>2. QED
    BY <2>1, <1>1, <1>4, FormStays
<1>5. QED
  BY <1>2, <1>3, <1>4

LEMMA OwedLicences ==
    ASSUME TypeOK, CallsInv, LicencesInv, LicensedInv, NEW h \in Calls, Step(h), CallsInv',
           NEW x \in DOMAIN call', pc'[x] \in Approving \cup {"form_save"}
    PROVE  LicencesOwed(x)'
<1> SUFFICES ASSUME NEW e, NEW a, ApprovedIn(var'[x].copy, e, a)
             PROVE  CoveredBy(x, e, a)'
  BY DEF LicencesOwed
<1>1. var'[x].copy \in FormRow
  BY DEF CallsInv
<1>2. e \in Employees
  BY <1>1, EmployeeOf
<1>3. PICK f : f = call'[x].form
  OBVIOUS
<1>4. Holds(x, f)'
  BY <1>3 DEF Holds
<1>5. CASE x = h /\ Starts(h)
  <2>1. PICK op, ff, emps, s, line, to : Started(h, op, ff, emps, s, line, to)
    BY <1>5, StartsAre
  <2>2. /\ call'[h] = [op |-> op, form |-> ff, emps |-> emps, status |-> s]
        /\ pc'[h] = to /\ var'[h].copy = line
    BY <2>1, StartedMoves
  <2>3. /\ ff \in DOMAIN form /\ line.kind = form[ff].kind
        /\ \/ IsApproved(form[ff], e) /\ line.responses[e].by = form[ff].responses[e].by
           \/ line.responses[e].by = h /\ e \in emps /\ to = "licence_read"
    BY <2>1, <2>2, <1>5 DEF Started, ApprovedIn
  <2>4. CASE IsApproved(form[ff], e) /\ line.responses[e].by = form[ff].responses[e].by
    <3>1. ApprovedIn(form[ff], e, a)
      BY <2>2, <2>3, <2>4, <1>5 DEF ApprovedIn, IsApproved
    <3>2. LicensedBy(e, a)
      BY <3>1, <2>3, LicensedInvIs DEF LicensedForm, LicencesOf
    <3>3. QED
      BY <3>2, <1>2, LicenceStays DEF CoveredBy
  <2>5. CASE line.responses[e].by = h /\ e \in emps /\ to = "licence_read"
    BY <2>2, <2>5, <1>5 DEF ApprovedIn, CoveredBy
  <2>6. QED
    BY <2>3, <2>4, <2>5
<1>6. CASE ~(x = h /\ Starts(h))
  <2>1. x \in DOMAIN call /\ Holds(x, f) /\ var'[x].copy = var[x].copy
    BY <1>4, <1>6, HoldersAre
  <2>2. CoveredBy(x, e, a)
    BY <2>1, LicensedInvIs DEF LicensedForm, LicencesOwed, Holds
  <2>3. CASE x = h
    BY <2>1, <2>2, <2>3, <1>2, <1>6, CoveredOnTheWay
  <2>4. CASE x # h
    BY <2>1, <2>2, <2>4, <1>2, CoveredStays
  <2>5. QED
    BY <2>3, <2>4
<1>7. QED
  BY <1>5, <1>6

LEMMA LicensedNext ==
    ASSUME TypeOK, CallsInv, LicencesInv, LicensedInv, NEW h \in Calls, Step(h), CallsInv'
    PROVE  LicensedInv'
<1>1. LicensedForm'
  BY StoredLicences, OwedLicences DEF LicensedForm
<1>2. (LicensedInv <=> LicensedForm)'
  BY LicensedInvIs, PTL
<1>3. QED
  BY <1>1, <1>2
-----------------------------------------------------------------------------
(* Approvals that nothing interferes with.                                 *)
LEMMA EndedStays ==
    ASSUME TypeOK, CallsInv, NEW h \in Calls, Step(h), NEW x \in DOMAIN call, pc[x] \notin InFlight
    PROVE  x # h /\ pc'[x] = pc[x] /\ x \in DOMAIN call' /\ call'[x] = call[x]
<1>1. Moves(h) /\ x \in Calls /\ pc[x] # "idle"
  BY StepMoves, AskedOf DEF CallsInv
<1>2. x # h
  BY <1>1 DEF Moves
<1>3. QED
  BY <1>1, <1>2 DEF Moves

LEMMA RefusedGrows ==
    ASSUME TypeOK, CallsInv, NEW h \in Calls, Step(h), NEW f, NEW e, Refused(f, e)
    PROVE  Refused(f, e)'
<1>1. PICK x \in DOMAIN call :
        /\ call[x].op \in Savers /\ call[x].form = f /\ e \in call[x].emps
        /\ call[x].status # "approved" /\ pc[x] = "done"
  BY DEF Refused, About
<1>2. pc[x] \notin InFlight
  BY <1>1 DEF InFlight
<1>3. x # h /\ pc'[x] = pc[x] /\ x \in DOMAIN call' /\ call'[x] = call[x]
  BY <1>1, <1>2, EndedStays
<1>4. QED
  BY <1>1, <1>3 DEF Refused, About

(* Where an approval was approved, it is so in what a start makes of it.   *)
LEMMA StillApproved ==
    ASSUME NEW h, NEW op, NEW f, NEW emps, NEW s, NEW line, NEW to,
           Started(h, op, f, emps, s, line, to), NEW e \in Employees, IsApproved(form[f], e)
    PROVE  IsApproved(line, e) \/ (e \in emps /\ s # "approved")
<1>1. CASE e \in emps
  BY <1>1 DEF Started
<1>2. CASE e \notin emps
  <2>1. Agree(line, form[f], e)
    BY <1>2 DEF Started
  <2>2. QED
    BY <2>1 DEF Agree, IsApproved
<1>3. QED
  BY <1>1, <1>2

(* What SettledInv says of one approval.                                   *)
Settled(h, f, e) ==
    /\ f \in DOMAIN form => IsApproved(form[f], e)
    /\ \A g \in DOMAIN call : Holds(g, f) =>
         \/ IsApproved(var[g].copy, e)
         \/ e \in call[g].emps /\ call[g].status # "approved"

LEMMA SettledIs ==
    ASSUME CallsInv, SettledInv, NEW h \in DOMAIN call, NEW e \in call[h].emps, Approval(h),
           NEW f, f = call[h].form
    PROVE  /\ f \in FormIds
           /\ Holds(h, f) => IsApproved(var[h].copy, e)
           /\ pc[h] = "done" /\ ~Crossed(h, Savers) /\ ~Refused(f, e) => Settled(h, f, e)
<1>1. f \in Posted
  BY CallIs DEF CallOK, Approval, Savers
<1>2. f \in FormIds
  BY <1>1 DEF Posted, FormIds, CallsInv, IsTable
<1>3. QED
  BY <1>2 DEF SettledInv, Settled

(* What a call holds on the way to its own save.                           *)
LEMMA OwnApproved ==
    ASSUME TypeOK, CallsInv, SettledInv, NEW h \in Calls, Step(h),
           NEW a \in DOMAIN call', NEW e \in call'[a].emps, Approval(a)',
           NEW f, f = call'[a].form, Holds(a, f)'
    PROVE  IsApproved(var'[a].copy, e)
<1>1. CASE a = h /\ Starts(h)
  <2>1. PICK op, ff, emps, s, line, to : Started(h, op, ff, emps, s, line, to)
    BY <1>1, StartsAre
  <2>2. /\ call'[h] = [op |-> op, form |-> ff, emps |-> emps, status |-> s]
        /\ pc'[h] = to /\ var'[h].copy = line
    BY <2>1, StartedMoves
  <2>3. s = "approved" /\ e \in emps
    BY <2>2, <1>1 DEF Approval
  <2>4. IsApproved(line, e)
    BY <2>1, <2>3 DEF Started
  <2>5. QED
    BY <2>2, <2>4, <1>1
<1>2. CASE ~(a = h /\ Starts(h))
  <2>1. a \in DOMAIN call /\ Holds(a, f) /\ call'[a] = call[a] /\ var'[a].copy = var[a].copy
    BY <1>2, HoldersAre
  <2>2. Approval(a) /\ e \in call[a].emps /\ f = call[a].form
    BY <2>1 DEF Approval
  <2>3. QED
    BY <2>1, <2>2, SettledIs
<1>3. QED
  BY <1>1, <1>2

(* The save that settles an approval.                                      *)
LEMMA SettlesNow ==
    ASSUME TypeOK, CallsInv, SettledInv, NEW h \in Calls, Step(h), CallsInv',
           h \in DOMAIN call', NEW e \in call'[h].emps, NEW f, f = call'[h].form,
           Approval(h)', pc'[h] = "done", ~Crossed(h, Savers)'
    PROVE  Settled(h, f, e)'
<1>1. FormSave(h)
  <2>1. call'[h].op = "submit"
    BY DEF Approval
  <2>2. ~Create(h) /\ ~DeleteForm(h) /\ ~EditEmployee(h)
    <3>1. Create(h) => call'[h].op = "create"
      BY CreateMoves
    <3>2. DeleteForm(h) => call'[h].op = "delete"
      BY DeleteMoves
    <3>3. EditEmployee(h) => call'[h].op = "employee"
      BY EditMoves
    <3>4. QED
      BY <2>1, <3>1, <3>2, <3>3
  <2>3. ~Starts(h)
    BY StartsMoves
  <2>4. LicenceRead(h) \/ LicenceWrite(h) \/ FilesSave(h) \/ FormSave(h) \/ EmployeeSave(h)
           \/ Abort(h)
    BY <2>2, <2>3, StepsAre
  <2>5. FormSave(h) \/ EmployeeSave(h)
    BY <2>4 DEF TypeOK, Goto, LicenceRead, LicenceWrite, FilesSave, Abort
  <2>6. ~EmployeeSave(h)
    <3>1. ASSUME EmployeeSave(h)
          PROVE  FALSE
      <4>1. pc[h] = "employee_save" /\ call' = call
        BY <3>1 DEF EmployeeSave, Goto, Same
      <4>2. h \in DOMAIN call /\ call[h].op = "employee"
        BY <4>1 DEF CallsInv
      <4>3. QED
        BY <4>1, <4>2 DEF Approval
    <3>2. QED
      BY <3>1
  <2>7. QED
    BY <2>5, <2>6
<1>2. /\ h \in DOMAIN call /\ Holds(h, call[h].form) /\ call' = call /\ var' = var
      /\ pc[h] = "form_save" /\ form'[call[h].form] = var[h].copy
  BY <1>1, FormSaveDoes
<1>3. IsApproved(form'[f], e)
  <2>1. Approval(h) /\ e \in call[h].emps /\ f = call[h].form
    BY <1>2 DEF Approval
  <2>2. IsApproved(var[h].copy, e)
    BY <2>1, <1>2, SettledIs
  <2>3. QED
    BY <2>1, <2>2, <1>2
<1>4. ASSUME NEW g \in DOMAIN call', Holds(g, f)'
      PROVE  FALSE
  <2>1. g # h
    BY <1>4 DEF Holds, Approving
  <2>2. g \in DOMAIN call /\ Holds(g, f)
    BY <1>4, <2>1, HoldersAre
  <2>3. g \in Busy /\ call[g].op \in Savers
    BY <2>2, BusyIs
  <2>4. h \in Busy
    BY <1>2 DEF Busy, InFlight
  <2>5. {h, g} \in crossed
    BY <2>1, <2>3, <2>4 DEF CallsInv
  <2>6. Crossed(h, Savers)
    BY <2>1, <2>2, <2>3, <2>5 DEF Crossed
  <2>7. QED
    BY <2>6, <1>2, StepMoves, CrossedGrows
<1>5. QED
  BY <1>3, <1>4 DEF Settled

LEMMA StaysSettled ==
    ASSUME TypeOK, CallsInv, SettledInv, NEW h \in Calls, Step(h), CallsInv',
           NEW a \in DOMAIN call, pc[a] = "done", NEW e \in call[a].emps, NEW f, f = call[a].form,
           Approval(a), Settled(a, f, e), ~Refused(f, e)'
    PROVE  Settled(a, f, e)'
<1>1. e \in Employees /\ f \in Posted
  BY AskedOf, CallIs DEF CallOK, Approval, Savers
<1>2. ASSUME f \in DOMAIN form'
      PROVE  IsApproved(form'[f], e)
  <2>1. CASE f \in DOMAIN form /\ form'[f] = form[f]
    BY <2>1 DEF Settled
  <2>2. CASE FormSave(h) /\ f = call[h].form
    <3>1. /\ h \in DOMAIN call /\ Holds(h, f) /\ pc'[h] = "done" /\ call' = call
          /\ form'[f] = var[h].copy /\ call[h].op \in Savers
      BY <2>2, FormSaveDoes
    <3>2. CASE IsApproved(var[h].copy, e)
      BY <3>1, <3>2
    <3>3. CASE e \in call[h].emps /\ call[h].status # "approved"
      <4>1. Refused(f, e)'
        BY <3>1, <3>3, <2>2 DEF Refused, About
      <4>2. QED
        BY <4>1
    <3>4. QED
      BY <3>1, <3>2, <3>3 DEF Settled
  <2>3. CASE FormSave(h) /\ f # call[h].form
    <3>1. f \in DOMAIN form /\ form'[f] = form[f]
      BY <2>3, <1>2, FormSaveDoes
    <3>2. QED
      BY <3>1, <2>1
  <2>4. CASE ~FormSave(h)
    BY <2>1, <2>4, <1>1, <1>2, FormStays
  <2>5. QED
    BY <2>2, <2>3, <2>4
<1>3. ASSUME NEW g \in DOMAIN call', Holds(g, f)'
      PROVE  IsApproved(var'[g].copy, e) \/ (e \in call'[g].emps /\ call'[g].status # "approved")
  <2>1. CASE g = h /\ Starts(h)
    <3>1. PICK op, ff, emps, s, line, to : Started(h, op, ff, emps, s, line, to)
      BY <2>1, StartsAre
    <3>2. /\ call'[h] = [op |-> op, form |-> ff, emps |-> emps, status |-> s]
          /\ pc'[h] = to /\ var'[h].copy = line
      BY <3>1, StartedMoves
    <3>3. ff = f
      BY <3>2, <2>1, <1>3 DEF Holds
    <3>4. f \in DOMAIN form
      BY <3>1, <3>3 DEF Started
    <3>5. IsApproved(form[f], e)
      BY <3>4 DEF Settled
    <3>6. IsApproved(line, e) \/ (e \in emps /\ s # "approved")
      BY <3>1, <3>3, <3>5, <1>1, StillApproved
    <3>7. QED
      BY <3>2, <3>6, <2>1
  <2>2. CASE ~(g = h /\ Starts(h))
    <3>1. /\ g \in DOMAIN call /\ Holds(g, f) /\ call'[g] = call[g]
          /\ var'[g].copy = var[g].copy
      BY <2>2, <1>3, HoldersAre
    <3>2. QED
      BY <3>1 DEF Settled
  <2>3. QED
    BY <2>1, <2>2
<1>4. QED
  BY <1>2, <1>3 DEF Settled

LEMMA SettledNext ==
    ASSUME TypeOK, CallsInv, SettledInv, NEW h \in Calls, Step(h), CallsInv'
    PROVE  SettledInv'
<1> SUFFICES ASSUME NEW a \in DOMAIN call', NEW e \in call'[a].emps, NEW f \in FormIds,
                    Approval(a)', call'[a].form = f
             PROVE  /\ Holds(a, f)' => IsApproved(var'[a].copy, e)
                    /\ pc'[a] = "done" /\ ~Crossed(a, Savers)' /\ ~Refused(f, e)' =>
                         Settled(a, f, e)'
  BY DEF SettledInv, Settled
<1>1. Holds(a, f)' => IsApproved(var'[a].copy, e)
  BY OwnApproved
<1>2. ASSUME pc'[a] = "done", ~Crossed(a, Savers)', ~Refused(f, e)'
      PROVE  Settled(a, f, e)'
  <2>1. CASE a = h
    BY <2>1, <1>2, SettlesNow
  <2>2. CASE a # h
    <3>1. Moves(h)
      BY StepMoves
    <3>2. a \in DOMAIN call /\ a \in Calls
      BY <3>1, <2>2, AskedOf DEF Moves
    <3>3. pc[a] = "done" /\ call'[a] = call[a]
      BY <3>1, <3>2, <2>2, <1>2 DEF Moves
    <3>4. ~Crossed(a, Savers)
      BY <3>1, <3>2, <1>2, CrossedGrows
    <3>5. ~Refused(f, e)
      BY <1>2, RefusedGrows
    <3>6. Approval(a) /\ e \in call[a].emps /\ f = call[a].form
      BY <3>2, <3>3 DEF Approval
    <3>7. Settled(a, f, e)
      BY <3>2, <3>3, <3>4, <3>5, <3>6, SettledIs
    <3>8. QED
      BY <3>2, <3>3, <3>6, <3>7, <1>2, StaysSettled
  <2>3. QED
    BY <2>1, <2>2
<1>3. QED
  BY <1>1, <1>2
-----------------------------------------------------------------------------
(* Two licences of one answer.                                             *)
LEMMA DoubledGrows ==
    ASSUME TypeOK, CallsInv, NEW h \in Calls, Step(h), NEW e, NEW g \in DOMAIN call,
           NEW x \in DOMAIN call, Doubled(e, g, x)
    PROVE  Doubled(e, g, x)'
<1>1. Moves(h)
  BY StepMoves
<1>2. ASSUME NEW y \in {g, x}, pc[y] = "failed" \/ Crossed(y, Savers)
      PROVE  pc'[y] = "failed" \/ Crossed(y, Savers)'
  <2>1. y \in DOMAIN call
    BY <1>2
  <2>2. pc[y] = "failed" => pc'[y] = "failed"
    BY <2>1, EndedStays DEF InFlight
  <2>3. Crossed(y, Savers) => Crossed(y, Savers)'
    BY <2>1, <1>1, CrossedGrows
  <2>4. QED
    BY <1>2, <2>2, <2>3
<1>3. PICK f : f = call[x].form
  OBVIOUS
<1>4. call'[x].form = f
  BY <1>1, <1>3 DEF Moves
<1>5. CASE \E y \in {g, x} : pc[y] = "failed" \/ Crossed(y, Savers)
  BY <1>2, <1>5 DEF Doubled
<1>6. CASE Refused(f, e)
  <2>1. Refused(f, e)'
    BY <1>6, RefusedGrows
  <2>2. QED
    BY <2>1, <1>4 DEF Doubled, Refused, About
<1>7. QED
  BY <1>3, <1>5, <1>6 DEF Doubled, Refused, About

(* A second approval begins with a cause.                                  *)
LEMMA SecondApproval ==
    ASSUME TypeOK, CallsInv, SettledInv, NEW h \in Calls, Starts(h), pc'[h] = "licence_read",
           NEW g \in DOMAIN call, NEW e \in Employees, Step(h), CallsInv',
           Approval(g), call[g].emps = {e}, call'[h].emps = {e}, call'[h].form = call[g].form
    PROVE  Doubled(e, g, h)'
<1>1. PICK op, f, emps, s, line, to : Started(h, op, f, emps, s, line, to)
  BY StartsAre
<1>2. /\ Moves(h) /\ call'[h] = [op |-> op, form |-> f, emps |-> emps, status |-> s]
      /\ pc'[h] = to /\ pc[h] = "idle"
  BY <1>1, StartedMoves
<1>3. f = call[g].form /\ emps = {e} /\ to = "licence_read" /\ call'[h].form = f
  BY <1>2
<1>4. f \in DOMAIN form /\ ~IsApproved(form[f], e)
  BY <1>1, <1>3 DEF Started
<1>5. g \in Calls /\ pc[g] # "idle" /\ g \in DOMAIN call' /\ call'[g] = call[g] /\ g # h
  BY <1>2, AskedOf DEF CallsInv, Moves
<1>6. CASE pc[g] = "failed"
  <2>1. pc'[g] = "failed"
    BY <1>2, <1>5, <1>6 DEF Moves
  <2>2. QED
    BY <2>1 DEF Doubled
<1>7. CASE pc[g] \in InFlight
  <2>1. {h, g} \in crossed'
    BY <1>2, <1>5, <1>7 DEF Moves, Busy
  <2>2. call'[g].op \in Savers
    BY <1>5 DEF Approval, Savers
  <2>3. Crossed(h, Savers)'
    BY <2>1, <2>2, <1>5 DEF Crossed
  <2>4. QED
    BY <2>3 DEF Doubled
<1>8. CASE pc[g] = "done"
  <2>1. CASE Crossed(g, Savers)
    <3>1. Crossed(g, Savers)'
      BY <2>1, <1>2, CrossedGrows
    <3>2. QED
      BY <3>1 DEF Doubled
  <2>2. CASE Refused(f, e)
    <3>1. Refused(f, e)'
      BY <2>2, RefusedGrows
    <3>2. QED
      BY <3>1, <1>3 DEF Doubled, Refused, About
  <2>3. CASE ~Crossed(g, Savers) /\ ~Refused(f, e)
    <3>1. Settled(g, f, e)
      BY <2>3, <1>3, <1>8, SettledIs
    <3>2. QED
      BY <3>1, <1>4 DEF Settled
  <2>4. QED
    BY <2>1, <2>2, <2>3
<1>9. QED
  BY <1>5, <1>6, <1>7, <1>8 DEF TypeOK, Steps

LEMMA DoubledPairs ==
    ASSUME TypeOK, CallsInv, SettledInv, DoubledInv, NEW h \in Calls, Step(h), CallsInv',
           NEW x \in DOMAIN call', pc'[x] \in {"licence_read", "licence_write"},
           NEW g \in DOMAIN call', g # x, Approval(g)', NEW e \in Employees,
           call'[g].form = call'[x].form, call'[g].emps = {e}, call'[x].emps = {e}
    PROVE  Doubled(e, g, x)'
<1>1. Moves(h)
  BY StepMoves
<1>2. CASE x = h /\ Starts(h)
  <2>1. g \in DOMAIN call /\ call'[g] = call[g]
    BY <1>1, <1>2 DEF Moves
  <2>2. Approval(g) /\ pc'[h] = "licence_read"
    BY <2>1, <1>2, StartsMoves DEF Approval
  <2>3. QED
    BY <2>1, <2>2, <1>2, SecondApproval
<1>3. CASE ~(x = h /\ Starts(h))
  <2>1. PICK f : f = call'[x].form
    OBVIOUS
  <2>2. Holds(x, f)'
    BY <2>1 DEF Holds, Approving
  <2>3. x \in DOMAIN call /\ call'[x] = call[x]
    BY <2>2, <1>3, HoldersAre
  <2>4. pc[x] \in {"licence_read", "licence_write"}
    BY <2>3, PastWrite
  <2>5. CASE g \in DOMAIN call
    <3>1. call'[g] = call[g]
      BY <2>5, <1>1 DEF Moves
    <3>2. Approval(g)
      BY <2>5, <3>1 DEF Approval
    <3>3. Doubled(e, g, x)
      BY <2>3, <2>4, <2>5, <3>1, <3>2 DEF DoubledInv
    <3>4. QED
      BY <3>3, <2>3, <2>5, DoubledGrows
  <2>6. CASE g \notin DOMAIN call
    <3>1. g = h /\ pc[h] = "idle"
      BY <2>6, <1>1 DEF Moves
    <3>2. x \in Busy
      BY <2>3, <2>4 DEF Busy, InFlight
    <3>3. {h, x} \in crossed'
      BY <3>1, <3>2, <1>1 DEF Moves
    <3>4. {x, g} \in crossed' /\ call'[g].op \in Savers
      BY <3>1, <3>3 DEF Approval, Savers
    <3>5. Crossed(x, Savers)'
      BY <3>4 DEF Crossed
    <3>6. QED
      BY <3>5 DEF Doubled
  <2>7. QED
    BY <2>5, <2>6
<1>4. QED
  BY <1>2, <1>3

LEMMA DoubledLicences ==
    ASSUME TypeOK, CallsInv, LicencesInv, DoubledInv, NEW h \in Calls, Step(h),
           NEW e \in Employees, NEW L \in Licences(e)', NEW g \in L, NEW x \in L, g # x,
           call'[g].form = call'[x].form
    PROVE  Doubled(e, g, x)'
<1>1. Moves(h)
  BY StepMoves
<1>2. \A M \in Licences(e) : \A y \in M :
        y \in DOMAIN call /\ call'[y] = call[y] /\ call[y].emps = {e} /\ Approval(y)
  BY <1>1 DEF LicencesInv, Moves, Approval
<1>3. ASSUME NEW M \in Licences(e), g \in M, x \in M
      PROVE  Doubled(e, g, x)'
  <2>1. Doubled(e, g, x)
    BY <1>2, <1>3 DEF DoubledInv
  <2>2. QED
    BY <2>1, <1>2, <1>3, DoubledGrows
<1>4. CASE Entered(h, e, L)
  <2>1. /\ h \in DOMAIN call /\ pc[h] = "licence_write" /\ call' = call /\ call[h].emps = {e}
        /\ L \subseteq var[h].licences \cup {h} /\ var[h].licences \in Licences(e)
        /\ call[h].op = "submit" /\ call[h].status = "approved"
    BY <1>4, WriteDoes DEF Entered
  <2>2. ASSUME NEW y \in var[h].licences, y # h, call[y].form = call[h].form
        PROVE  Doubled(e, y, h) /\ Doubled(e, h, y)
    <3>1. y \in DOMAIN call /\ call[y].emps = {e} /\ Approval(y)
      BY <1>2, <2>1
    <3>2. Doubled(e, y, h)
      BY <2>1, <2>2, <3>1 DEF DoubledInv
    <3>3. {y, h} = {h, y}
      OBVIOUS
    <3>4. QED
      BY <2>2, <3>2, <3>3 DEF Doubled
  <2>3. CASE g = h
    <3>1. Doubled(e, g, x) /\ x \in DOMAIN call
      BY <2>1, <2>2, <2>3, <1>2
    <3>2. QED
      BY <3>1, <2>1, <2>3, DoubledGrows
  <2>4. CASE x = h
    <3>1. Doubled(e, g, x) /\ g \in DOMAIN call
      BY <2>1, <2>2, <2>4, <1>2
    <3>2. QED
      BY <3>1, <2>1, <2>4, DoubledGrows
  <2>5. QED
    BY <2>1, <2>3, <2>4, <1>3
<1>5. CASE TakenOut(h, e, L)
  <2>1. licence[e] \in Licences(e)
    BY DEF Licences
  <2>2. QED
    BY <2>1, <1>3, <1>5 DEF TakenOut
<1>6. QED
  BY <1>3, <1>4, <1>5, LicencesAre

LEMMA DoubledNext ==
    ASSUME TypeOK, CallsInv, LicencesInv, SettledInv, DoubledInv, NEW h \in Calls, Step(h),
           CallsInv'
    PROVE  DoubledInv'
  BY DoubledPairs, DoubledLicences DEF DoubledInv
-----------------------------------------------------------------------------
(* The theorems.                                                           *)
LEMMA InitHolds == Init => IInv
<1> SUFFICES ASSUME Init
             PROVE  IInv
  OBVIOUS
<1>1. /\ DOMAIN call = {} /\ call = NoRows /\ crossed = {} /\ filed = {} /\ overwritten = {}
      /\ licence = [e \in Employees |-> {}] /\ pc = [h \in Calls |-> "idle"]
      /\ var = [h \in Calls |-> [copy |-> NoRows, licences |-> {}]]
  BY DEF Init, NoRows
<1>2. /\ DOMAIN form = Tasks \cup Trainings
      /\ \A f \in DOMAIN form : form[f].responses = NoRows /\ form[f] \in FormRow
      /\ form \in [DOMAIN form -> FormRow]
  <2>1. \A kind \in {"task", "training"} : [kind |-> kind, responses |-> NoRows] \in FormRow
    BY NoAnswers DEF FormRow, Answers
  <2>2. form = [f \in Tasks \cup Trainings |->
                 [kind |-> IF f \in Tasks THEN "task" ELSE "training", responses |-> NoRows]]
    BY DEF Init
  <2> HIDE DEF FormRow
  <2>3. QED
    BY <2>1, <2>2
<1>3. TypeOK
  <2>1. IsTable(form, FormIds, FormRow)
    BY <1>2 DEF IsTable, FormIds
  <2>2. QED
    BY <1>1, <2>1 DEF TypeOK, Steps
<1>4. CallsInv
  <2>1. IsTable(call, Calls, Asked)
    BY <1>1 DEF IsTable, NoRows
  <2>2. var \in VarType
    BY <1>1 DEF VarType
  <2>3. Busy = {} /\ Posted = Tasks \cup Trainings
    BY <1>1 DEF Busy, Posted
  <2>4. QED
    BY <1>1, <1>2, <2>1, <2>2, <2>3 DEF CallsInv, VarType
<1>5. \A e \in Employees : Licences(e) = {{}}
  BY <1>1 DEF Licences
<1>6. AnswersInv /\ LicencesInv /\ SettledInv /\ DoubledInv
  BY <1>1, <1>5 DEF AnswersInv, LicencesInv, SettledInv, DoubledInv
<1>7. LicensedInv
  BY <1>1, <1>2, NoAnswers DEF LicensedInv
<1>8. QED
  BY <1>3, <1>4, <1>6, <1>7 DEF IInv

LEMMA NextHolds == IInv /\ [Next]_vars => IInv'
<1> SUFFICES ASSUME IInv, [Next]_vars
             PROVE  IInv'
  OBVIOUS
<1> USE DEF IInv
<1>1. CASE Next
  <2>1. PICK h \in Calls : Step(h)
    BY <1>1 DEF Next, Step
  <2>2. TypeOK' /\ CallsInv'
    BY <2>1, CallsNext
  <2>3. QED
    BY <2>1, <2>2, AnswersNext, LicencesNext, LicensedNext, SettledNext, DoubledNext
<1>2. CASE UNCHANGED vars
  <2>1. /\ form' = form /\ licence' = licence /\ filed' = filed /\ overwritten' = overwritten /\ pc' = pc /\ call' = call
        /\ var' = var /\ crossed' = crossed
    BY <1>2 DEF vars, tables
  <2>2. TypeOK' /\ CallsInv'
    BY <2>1 DEF TypeOK, CallsInv, Posted, Busy
  <2>3. /\ \A h, f : (Holds(h, f)' <=> Holds(h, f)) /\ About(h, f)' = About(h, f)
        /\ \A h : Approval(h)' <=> Approval(h)
        /\ \A h, ops : Crossed(h, ops)' <=> Crossed(h, ops)
    BY <2>1 DEF Holds, About, Approval, Crossed
  <2>4. /\ \A f, e : Spoilt(f, e)' <=> Spoilt(f, e)
        /\ \A f, e : Refused(f, e)' <=> Refused(f, e)
        /\ \A e, a : Excused(e, a)' <=> Excused(e, a)
        /\ \A e : Licences(e)' = Licences(e)
    BY <2>1, <2>3 DEF Spoilt, Refused, Excused, Licences, Keeps
  <2>5. AnswersInv'
    BY <2>1, <2>3, <2>4 DEF AnswersInv
  <2>6. SettledInv'
    BY <2>1, <2>3, <2>4 DEF SettledInv
  <2>7. LicencesInv'
    BY <2>1, <2>4 DEF LicencesInv
  <2>8. \A e, a : LicensedBy(e, a)' <=> LicensedBy(e, a)
    BY <2>1, <2>4 DEF LicensedBy
  <2>9. LicensedInv'
    <3>1. \A h, e, a : CoveredBy(h, e, a)' <=> CoveredBy(h, e, a)
      BY <2>1, <2>4, <2>8 DEF CoveredBy
    <3>2. LicensedForm'
      BY <2>1, <2>8, <3>1, LicensedInvIs DEF LicensedForm, LicencesOf, LicencesOwed
    <3>3. (LicensedInv <=> LicensedForm)'
      BY LicensedInvIs, PTL
    <3>4. QED
      BY <3>2, <3>3
  <2>10. DoubledInv'
    <3>1. \A e, g, h : Doubled(e, g, h)' <=> Doubled(e, g, h)
      BY <2>1, <2>3 DEF Doubled, Refused
    <3>2. QED
      BY <2>1, <2>3, <2>4, <3>1 DEF DoubledInv
  <2>11. QED
    BY <2>2, <2>5, <2>6, <2>7, <2>9, <2>10
<1>3. QED
  BY <1>1, <1>2

(* The inductive invariant of the calls, the forms and the licences.       *)
THEOREM ResponsesInductive == Spec => []IInv
  BY InitHolds, NextHolds, PTL DEF Spec

(* Forms, licences, documents and calls have their types.                  *)
THEOREM ResponsesTypeCorrect == Spec => []TypeOK
<1>1. IInv => TypeOK
  BY DEF IInv
<1>2. QED
  BY <1>1, ResponsesInductive, PTL

(* The answers of an employee change only by a call about them, unless one *)
(* of those was in flight together with another call that saves the form.  *)
THEOREM AnswersAlwaysStay == Spec => AnswersStay
<1> DEFINE Stay == \A f \in DOMAIN form \cap DOMAIN form' : \A e \in DOMAIN form[f].responses :
         \/ e \in DOMAIN form'[f].responses /\ form'[f].responses[e] = form[f].responses[e]
         \/ \E h \in About(f, e) :
              (pc[h] = "form_save" /\ pc'[h] = "done") \/ Crossed(h, Savers)
<1>1. IInv /\ [Next]_vars => [Stay]_vars
  <2> SUFFICES ASSUME IInv, Next
               PROVE  Stay
    OBVIOUS
  <2>1. PICK h \in Calls : Step(h)
    BY DEF Next, Step
  <2>2. QED
    BY <2>1, AnswerChanges DEF IInv
<1>2. QED
  BY <1>1, ResponsesInductive, PTL DEF Spec, AnswersStay

(* An approved answer has the documents and the licence its approval       *)
(* brought, and no second licence, unless for one of the causes that       *)
(* LicencesAgree names.                                                    *)
THEOREM LicencesAlwaysAgree == Spec => []LicencesAgree
<1>1. IInv => LicencesAgree
  <2> SUFFICES ASSUME IInv
               PROVE  LicencesAgree
    OBVIOUS
  <2>1. \A e \in Employees : licence[e] \in Licences(e)
    BY DEF Licences
  <2>2. ASSUME NEW e \in Employees, NEW g \in licence[e], NEW h \in licence[e]
        PROVE  g = h \/ call[g].form # call[h].form \/ Doubled(e, g, h)
    BY <2>1 DEF IInv, DoubledInv
  <2>3. QED
    BY <2>2 DEF IInv, LicensedInv, LicencesAgree, Doubled, Refused
<1>2. QED
  BY <1>1, ResponsesInductive, PTL

-----------------------------------------------------------------------------
(* Boarding. *)

LEMMA Alone ==
    ASSUME NEW id, NEW x
    PROVE  DOMAIN B!One(id, x) = {id} /\ B!One(id, x)[id] = x
  BY DEF B!One

LEMMA Stored ==
    ASSUME NEW t, NEW id, NEW x
    PROVE  /\ DOMAIN B!Save(t, id, x) = DOMAIN t \cup {id}
           /\ B!Save(t, id, x)[id] = x
           /\ \A y \in DOMAIN t : y # id => B!Save(t, id, x)[y] = t[y]
  BY DEF B!Save

LEMMA StoredTable ==
    ASSUME NEW t, NEW Ids, NEW Row, B!IsTable(t, Ids, Row), NEW id \in Ids, NEW x \in Row
    PROVE  B!IsTable(B!Save(t, id, x), Ids, Row)
  BY DEF B!Save, B!IsTable

LEMMA AllStored ==
    ASSUME NEW t, NEW u, NEW Ids, NEW Row, B!IsTable(t, Ids, Row), B!IsTable(u, Ids, Row)
    PROVE  /\ B!IsTable(B!SaveAll(t, u), Ids, Row)
           /\ DOMAIN B!SaveAll(t, u) = DOMAIN t \cup DOMAIN u
  BY DEF B!SaveAll, B!IsTable

LEMMA Fewer ==
    ASSUME NEW t, NEW Rest, NEW Ids, NEW Row, B!IsTable(t, Ids, Row), Rest \subseteq DOMAIN t
    PROVE  /\ B!IsTable([x \in Rest |-> t[x]], Ids, Row)
           /\ DOMAIN [x \in Rest |-> t[x]] = Rest
           /\ \A y \in Rest : [x \in Rest |-> t[x]][y] = t[y]
  BY DEF B!IsTable

LEMMA IsRow ==
    ASSUME NEW t, NEW Ids, NEW Row, B!IsTable(t, Ids, Row), NEW x \in DOMAIN t
    PROVE  x \in Ids /\ t[x] \in Row
  BY DEF B!IsTable

LEMMA AloneTable ==
    ASSUME NEW Ids, NEW Row, NEW id \in Ids, NEW x \in Row
    PROVE  B!IsTable(B!One(id, x), Ids, Row)
  BY DEF B!IsTable, B!One

LEMMA LessTable ==
    ASSUME NEW t, NEW Ids, NEW Row, B!IsTable(t, Ids, Row), NEW id
    PROVE  /\ B!IsTable(B!Delete(t, id), Ids, Row)
           /\ DOMAIN B!Delete(t, id) = DOMAIN t \ {id}
           /\ \A y \in DOMAIN t \ {id} : B!Delete(t, id)[y] = t[y]
  BY DEF B!IsTable, B!Delete

-----------------------------------------------------------------------------
(* Of a step of call h, what it leaves of the other calls.                 *)
BoardStep(h) == B!OfRows(h) \/ B!OfTasks(h) \/ B!OfCategories(h) \/ B!Abort(h)

RowsKnown == B!TypeOK /\ B!VarsInv /\ B!CallsInv /\ B!HoldingInv /\ B!HadInv

OthersStay(h) == \A x \in Requests : x # h => boardVar'[x] = boardVar[x]

BoardMoves(h) ==
    /\ boardPc' \in [Requests -> B!Steps] /\ boardPc'[h] # "idle" /\ boardPc[h] \in {"idle"}
        \cup B!InFlight
    /\ \A x \in Requests : x # h => boardPc'[x] = boardPc[x]
    /\ OthersStay(h) /\ B!VarsInv'
    /\ DOMAIN boardCall' = DOMAIN boardCall \cup {h}
        /\ \A x \in DOMAIN boardCall : boardCall'[x] = boardCall[x]
    /\ boardPc[h] = "idle" => h \notin DOMAIN boardCall
        /\ \A x \in B!Busy : {h, x} \in boardCrossed'
    /\ boardPc[h] # "idle" => h \in DOMAIN boardCall /\ boardCall' = boardCall
    /\ boardCrossed \subseteq boardCrossed' /\ boardCrossed' \subseteq {{g, x} : g, x \in Requests}

LEMMA HoldsOf ==
    ASSUME RowsKnown, NEW h \in Requests
    PROVE  B!Holding(h) /\ (h \in DOMAIN boardCall => B!Placed(h))
               /\ (boardPc[h] # "idle" => h \in DOMAIN boardCall)
<1>1. B!CallsInv /\ B!HoldingInv
  BY DEF RowsKnown
<1>2. h \in DOMAIN boardCall => B!Placed(h)
  BY <1>1 DEF B!CallsInv
<1>3. boardPc[h] # "idle" => h \in DOMAIN boardCall
  BY <1>1 DEF B!CallsInv
<1>4. QED
  BY <1>1, <1>2, <1>3 DEF B!HoldingInv

LEMMA BoardGoto ==
    ASSUME B!TypeOK, NEW h \in Requests, NEW from, NEW to \in B!Steps, B!Goto(h, from, to)
    PROVE  /\ boardPc[h] = from /\ boardPc'[h] = to /\ boardPc' \in [Requests -> B!Steps]
           /\ \A x \in Requests : x # h => boardPc'[x] = boardPc[x]
  BY DEF B!TypeOK, B!Goto

(* What a step makes of the variables of its call.                         *)
LEMMA SetDoes ==
    ASSUME B!VarsInv, NEW h \in Requests, NEW todo \in SUBSET B!RowIds, NEW rows,
           boardVar' = [boardVar EXCEPT ![h].todo = todo, ![h].rows = rows]
    PROVE  boardVar'[h].todo = todo /\ boardVar'[h].rows = rows /\ OthersStay(h) /\ B!VarsInv'
<1> DEFINE A == SUBSET B!RowIds
           L == {boardVar[x].rows : x \in Requests}
<1>1. boardVar = [x \in Requests |-> [todo |-> boardVar[x].todo, rows |-> boardVar[x].rows]]
      /\ \A x \in Requests : boardVar[x].todo \in A
  BY DEF B!VarsInv
<1>2. \A x \in Requests : [todo |-> boardVar[x].todo, rows |-> boardVar[x].rows] \in [todo: A,
          rows: L]
  BY <1>1
<1>3. boardVar \in [Requests -> [todo: A, rows: L]]
  BY <1>1, <1>2
<1> HIDE DEF A, L
<1>4. /\ DOMAIN boardVar' = Requests /\ \A x \in Requests : x # h => boardVar'[x] = boardVar[x]
      /\ boardVar'[h] = [todo |-> todo, rows |-> rows]
      /\ boardVar' = [x \in Requests |-> boardVar'[x]]
  BY <1>3
<1>5. \A x \in Requests : boardVar[x] = [todo |-> boardVar[x].todo, rows |-> boardVar[x].rows]
  BY <1>3
<1>6. \A x \in Requests : boardVar'[x] = [todo |-> boardVar'[x].todo, rows |-> boardVar'[x].rows]
  BY <1>4, <1>5
<1>7. boardVar' = [x \in Requests |-> [todo |-> boardVar'[x].todo, rows |-> boardVar'[x].rows]]
  BY <1>4, <1>6
<1>8. boardVar'[h].todo = todo /\ boardVar'[h].rows = rows
  BY <1>4
<1>9. \A x \in Requests : boardVar'[x].todo \subseteq B!RowIds
  BY <1>1, <1>4, <1>8 DEF A
<1>10. QED
  BY <1>4, <1>7, <1>8, <1>9 DEF B!VarsInv, OthersStay

LEMMA SetTodo ==
    ASSUME B!VarsInv, NEW h \in Requests, NEW todo \in SUBSET B!RowIds, B!Set(h, "todo", todo)
    PROVE  boardVar'[h].todo = todo /\ boardVar'[h].rows = boardVar[h].rows /\ OthersStay(h)
               /\ B!VarsInv'
<1>1. boardVar' = [boardVar EXCEPT ![h].todo = todo, ![h].rows = boardVar[h].rows]
  BY DEF B!VarsInv, B!Set
<1>2. QED
  BY <1>1, SetDoes

LEMMA SetRows ==
    ASSUME B!VarsInv, NEW h \in Requests, NEW rows, B!Set(h, "rows", rows)
    PROVE  boardVar'[h].todo = boardVar[h].todo /\ boardVar'[h].rows = rows /\ OthersStay(h)
               /\ B!VarsInv'
<1>1. boardVar' = [boardVar EXCEPT ![h].todo = boardVar[h].todo, ![h].rows = rows]
          /\ boardVar[h].todo \in SUBSET B!RowIds
  BY DEF B!VarsInv, B!Set
<1>2. QED
  BY <1>1, SetDoes

LEMMA SetNone ==
    ASSUME B!VarsInv, NEW h, UNCHANGED boardVar
    PROVE  boardVar' = boardVar /\ OthersStay(h) /\ B!VarsInv'
  BY DEF B!VarsInv, OthersStay

(* The first step of a call, and a later one.                              *)
LEMMA BeginMoves ==
    ASSUME RowsKnown, NEW h \in Requests, NEW op, NEW ids, NEW flag, B!Begin(h, op, ids, flag),
           NEW to \in B!Steps \ {"idle"}, B!Goto(h, "idle", to), OthersStay(h), B!VarsInv'
    PROVE  /\ BoardMoves(h) /\ boardPc[h] = "idle" /\ boardPc'[h] = to /\ h \in DOMAIN boardCall'
           /\ h \notin DOMAIN boardCall
           /\ boardCall'[h].op = op /\ boardCall'[h].ids = ids /\ boardCall'[h].flag = flag
<1>1. B!TypeOK /\ B!CallsInv /\ (h \in DOMAIN boardCall => B!Placed(h))
  BY HoldsOf DEF RowsKnown
<1>2. h \notin DOMAIN boardCall /\ boardPc[h] = "idle" /\ boardPc'[h] = to
          /\ boardPc' \in [Requests -> B!Steps]
      /\ \A x \in Requests : x # h => boardPc'[x] = boardPc[x]
  BY <1>1, BoardGoto DEF B!CallsInv
<1>3. boardCall' = B!Save(boardCall, h, [op |-> op, ids |-> ids, flag |-> flag])
      /\ boardCrossed' = boardCrossed \cup {{h, x} : x \in B!Busy}
  BY DEF B!Begin
<1>4. DOMAIN boardCall' = DOMAIN boardCall \cup {h}
          /\ \A x \in DOMAIN boardCall : boardCall'[x] = boardCall[x]
  BY <1>2, <1>3 DEF B!Save
<1>5. boardCall'[h] = [op |-> op, ids |-> ids, flag |-> flag]
  BY <1>3 DEF B!Save
<1>6. B!Busy \subseteq Requests /\ boardCrossed \subseteq {{g, x} : g, x \in Requests}
  BY <1>1 DEF B!Busy, B!TypeOK
<1>7. boardCrossed \subseteq boardCrossed' /\ \A x \in B!Busy : {h, x} \in boardCrossed'
  BY <1>3
<1>8. boardCrossed' \subseteq {{g, x} : g, x \in Requests}
  BY <1>3, <1>6
<1>9. QED
  BY <1>2, <1>4, <1>5, <1>7, <1>8 DEF BoardMoves

LEMMA BoardLaterMoves ==
    ASSUME RowsKnown, NEW h \in Requests, NEW from \in B!InFlight,
           NEW to \in B!Steps \ {"idle"}, B!Goto(h, from, to), B!Same, OthersStay(h), B!VarsInv'
    PROVE  BoardMoves(h) /\ boardPc[h] = from /\ boardPc'[h] = to /\ h \in DOMAIN boardCall
               /\ boardCall' = boardCall /\ B!Placed(h)
<1>1. B!TypeOK /\ B!CallsInv /\ (h \in DOMAIN boardCall => B!Placed(h))
  BY HoldsOf DEF RowsKnown
<1>2. boardPc[h] = from /\ boardPc'[h] = to /\ boardPc' \in [Requests -> B!Steps]
      /\ \A x \in Requests : x # h => boardPc'[x] = boardPc[x]
  BY <1>1, BoardGoto
<1>3. from # "idle"
  BY DEF B!InFlight
<1>4. h \in DOMAIN boardCall
  BY <1>1, <1>2, <1>3 DEF B!CallsInv
<1>5. boardCrossed \subseteq {{g, x} : g, x \in Requests}
  BY <1>1 DEF B!TypeOK
<1>6. DOMAIN boardCall = DOMAIN boardCall \cup {h}
  BY <1>4
<1>7. boardCall' = boardCall /\ boardCrossed' = boardCrossed
  BY DEF B!Same
<1>8. \A x \in DOMAIN boardCall : boardCall'[x] = boardCall[x]
  BY <1>7
<1>9. boardPc[h] # "idle" /\ boardPc'[h] # "idle" /\ boardPc[h] \in {"idle"} \cup B!InFlight
  BY <1>2, <1>3
<1>10. BoardMoves(h)
  BY <1>2, <1>5, <1>7, <1>8, <1>9, <1>4, <1>6 DEF BoardMoves
<1>11. QED
  BY <1>1, <1>2, <1>7, <1>10, <1>4

(* A step that leaves its call where it is.                                *)
LEMMA StayMoves ==
    ASSUME RowsKnown, NEW h \in Requests, boardPc[h] \in B!InFlight, UNCHANGED boardPc, B!Same,
           OthersStay(h), B!VarsInv'
    PROVE  BoardMoves(h) /\ h \in DOMAIN boardCall /\ boardCall' = boardCall /\ B!Placed(h)
<1>1. B!TypeOK /\ B!CallsInv /\ (h \in DOMAIN boardCall => B!Placed(h))
  BY HoldsOf DEF RowsKnown
<1>2. boardPc[h] # "idle" /\ boardPc \in [Requests -> B!Steps]
  BY <1>1 DEF B!InFlight, B!TypeOK
<1>3. h \in DOMAIN boardCall
  BY <1>1, <1>2 DEF B!CallsInv
<1>4. boardCrossed \subseteq {{g, x} : g, x \in Requests}
  BY <1>1 DEF B!TypeOK
<1>5. boardCall' = boardCall /\ boardCrossed' = boardCrossed /\ boardPc' = boardPc
  BY DEF B!Same
<1>6. DOMAIN boardCall = DOMAIN boardCall \cup {h}
  BY <1>3
<1>7. \A x \in DOMAIN boardCall : boardCall'[x] = boardCall[x]
  BY <1>5
<1>8. BoardMoves(h)
  BY <1>2, <1>3, <1>5, <1>6, <1>7, <1>4 DEF BoardMoves
<1>9. QED
  BY <1>1, <1>3, <1>5, <1>8
-----------------------------------------------------------------------------
(* What holds of the call that steps.                                      *)
CategoriesOK == category \subseteq {Category} \cup Requests

Good(h) == BoardMoves(h) /\ B!Placed(h)' /\ B!Holding(h)' /\ CategoriesOK'

(* A step of a call that gives nothing, removes no row and writes none.    *)
Still(h) ==
    /\ row' = row /\ DOMAIN task \subseteq DOMAIN task'
    /\ DOMAIN task' \subseteq B!Seen' /\ B!IsTable(task', B!TaskIds, B!TaskRow)
    /\ boardPc'[h] \notin B!Giving \cup B!Removing
    /\ boardPc[h] \in B!Writing => boardPc'[h] = "failed"
    /\ boardPc'[h] \in B!Writing => boardCall'[h].ids \subseteq DOMAIN row
    /\ boardPc[h] \in {"idle", "category_find"} \/ boardVar' = boardVar
    /\ boardPc[h] = "idle" /\ boardCall'[h].op = "post_task" => h \in DOMAIN task'
    /\ boardCall'[h].op \in {"drop_task", "drop_category"} => boardPc'[h] # "done"

LEMMA SeenGrows ==
    ASSUME NEW h, BoardMoves(h)
    PROVE  B!Seen \subseteq B!Seen'
  BY DEF BoardMoves, B!Seen

LEMMA TaskSame ==
    ASSUME RowsKnown, NEW h, BoardMoves(h), task' = task
    PROVE  /\ DOMAIN task \subseteq DOMAIN task' /\ DOMAIN task' \subseteq B!Seen'
           /\ B!IsTable(task', B!TaskIds, B!TaskRow)
<1>1. B!Seen \subseteq B!Seen'
  BY SeenGrows
<1>2. DOMAIN task \subseteq B!Seen
  BY DEF RowsKnown, B!HadInv
<1>3. B!IsTable(task, B!TaskIds, B!TaskRow)
  BY DEF RowsKnown, B!TypeOK
<1>4. QED
  BY <1>1, <1>2, <1>3

(* A first step after which nothing has been read.                         *)
LEMMA FirstStill ==
    ASSUME RowsKnown, NEW h \in Requests, NEW op, NEW ids, NEW flag, B!Begin(h, op, ids, flag),
           NEW to, UNCHANGED <<B!tables, boardVar>>, B!Goto(h, "idle", to),
           <<op, to>> \in {<<"drop", "drop_remove">>, <<"drop_task", "strike_remove">>,
                            <<"put_category", "category_save">>,
                            <<"drop_category", "category_remove">>},
           to = "strike_remove" => \E t \in B!TaskIds : ids = {t},
           to = "category_save" => ids \subseteq {Category} \cup Requests
    PROVE  Good(h) /\ Still(h)
<1>1. B!TypeOK /\ B!VarsInv /\ B!CallsInv /\ B!Holding(h)
  BY HoldsOf DEF RowsKnown
<1>2. boardVar' = boardVar /\ OthersStay(h) /\ B!VarsInv'
  BY <1>1, SetNone
<1>3. to \in B!Steps \ {"idle"}
  BY DEF B!Steps, B!InFlight
<1>4. /\ BoardMoves(h) /\ boardPc[h] = "idle" /\ boardPc'[h] = to
      /\ boardCall'[h].op = op /\ boardCall'[h].ids = ids /\ boardCall'[h].flag = flag
  BY <1>2, <1>3, BeginMoves
<1>5. B!Placed(h)'
  BY <1>4 DEF B!Placed, B!Writing, B!Giving, B!Striking, B!Wiping
<1>6. DOMAIN boardVar[h].rows = {} /\ boardVar'[h] = boardVar[h]
  BY <1>1, <1>2, <1>4 DEF B!Holding
<1>7. B!Holding(h)'
  BY <1>4, <1>6 DEF B!Holding, B!Writing, B!Giving, B!Striking
<1>8. row' = row /\ task' = task /\ category' = category
  BY DEF B!tables
<1>9. CategoriesOK'
  BY <1>1, <1>8 DEF CategoriesOK, B!TypeOK
<1>10. Still(h)
  BY <1>4, <1>8, TaskSame DEF Still, B!Giving, B!Removing, B!Writing
<1>11. QED
  BY <1>4, <1>5, <1>7, <1>9, <1>10 DEF Good

LEMMA DropRowDoes ==
    ASSUME RowsKnown, NEW h \in Requests, B!DropRow(h)
    PROVE  Good(h) /\ Still(h)
<1>1. PICK r \in DOMAIN row : B!Begin(h, "drop", {r}, FALSE)
  BY DEF B!DropRow
<1>2. QED
  BY <1>1, FirstStill DEF B!DropRow

LEMMA DropTaskDoes ==
    ASSUME RowsKnown, NEW h \in Requests, B!DropTask(h)
    PROVE  Good(h) /\ Still(h)
<1>1. PICK t \in DOMAIN task, anywhere \in BOOLEAN : B!Begin(h, "drop_task", {t}, anywhere)
  BY DEF B!DropTask
<1>2. t \in B!TaskIds
  BY DEF RowsKnown, B!TypeOK, B!IsTable
<1>3. QED
  BY <1>1, <1>2, FirstStill DEF B!DropTask

LEMMA PutCategoryDoes ==
    ASSUME RowsKnown, NEW h \in Requests, B!PutCategory(h)
    PROVE  Good(h) /\ Still(h)
<1>1. PICK c \in category : B!Begin(h, "put_category", {c}, FALSE)
  BY DEF B!PutCategory
<1>2. {c} \subseteq {Category} \cup Requests
  BY DEF RowsKnown, B!TypeOK
<1>3. QED
  BY <1>1, <1>2, FirstStill DEF B!PutCategory

LEMMA DropCategoryDoes ==
    ASSUME RowsKnown, NEW h \in Requests, B!DropCategory(h)
    PROVE  Good(h) /\ Still(h)
<1>1. PICK c \in category : B!Begin(h, "drop_category", {c}, FALSE)
  BY DEF B!DropCategory
<1>2. QED
  BY <1>1, FirstStill DEF B!DropCategory

(* The tasks and categories.                                               *)
LEMMA PostTaskDoes ==
    ASSUME RowsKnown, NEW h \in Requests, B!PostTask(h)
    PROVE  Good(h) /\ Still(h)
<1>1. B!TypeOK /\ B!VarsInv /\ B!CallsInv /\ B!Holding(h)
  BY HoldsOf DEF RowsKnown
<1>2. OthersStay(h) /\ B!VarsInv'
  BY <1>1, SetNone DEF B!PostTask
<1>3. PICK ids, flag : B!Begin(h, "post_task", ids, flag)
  BY DEF B!PostTask
<1>4. "done" \in B!Steps \ {"idle"}
  BY DEF B!Steps
<1>5. B!Goto(h, "idle", "done")
  BY DEF B!Steps, B!PostTask
<1>6. /\ BoardMoves(h) /\ boardPc[h] = "idle" /\ boardPc'[h] = "done" /\ h \in DOMAIN boardCall'
      /\ boardCall'[h].op = "post_task"
  BY <1>2, <1>5, <1>4, <1>3, BeginMoves
<1>7. B!Placed(h)'
  BY <1>6 DEF B!Placed, B!Writing, B!Giving, B!Striking, B!Wiping
<1>8. B!Holding(h)'
  BY <1>6 DEF B!Holding, B!Writing, B!Giving, B!Striking
<1>9. PICK c \in category \cup {B!None} : task' = B!Save(task, h, [type |-> "off", category |-> c])
  BY DEF B!PostTask
<1>10. [type |-> "off", category |-> c] \in B!TaskRow
  BY <1>1 DEF B!TaskRow, B!TypeOK
<1>11. DOMAIN task' = DOMAIN task \cup {h}
  BY <1>9, Stored
<1>12. B!IsTable(task', B!TaskIds, B!TaskRow)
  BY <1>1, <1>9, <1>10, StoredTable DEF B!TypeOK, B!TaskIds
<1>13. h \in B!Seen' /\ B!Seen \subseteq B!Seen' /\ DOMAIN task \subseteq B!Seen
  BY <1>6, SeenGrows DEF B!Seen, RowsKnown, B!HadInv
<1>14. CategoriesOK' /\ row' = row
  BY <1>1 DEF CategoriesOK, B!TypeOK, B!PostTask
<1>15. Still(h)
  BY <1>6, <1>11, <1>12, <1>13, <1>14 DEF Still, B!Giving, B!Removing, B!Writing
<1>16. QED
  BY <1>6, <1>7, <1>8, <1>14, <1>15 DEF Good

LEMMA PutTaskDoes ==
    ASSUME RowsKnown, NEW h \in Requests, B!PutTask(h)
    PROVE  Good(h) /\ Still(h)
<1>1. B!TypeOK /\ B!VarsInv /\ B!CallsInv /\ B!Holding(h)
  BY HoldsOf DEF RowsKnown
<1>2. PICK t \in DOMAIN task, c \in category \cup {B!None} :
        /\ B!Begin(h, "put_task", {t}, FALSE)
        /\ B!Set(h, "rows", B!One(t, [task[t] EXCEPT !.category = c]))
  BY DEF B!PutTask
<1> DEFINE u == [task[t] EXCEPT !.category = c]
<1>3. OthersStay(h) /\ B!VarsInv'
  BY <1>1, <1>2, SetRows
<1>4. boardVar'[h].rows = B!One(t, u)
  BY <1>1, <1>2, SetRows
<1>5. PICK ids, flag : B!Begin(h, "put_task", ids, flag)
  BY <1>2
<1>6. "task_save" \in B!Steps \ {"idle"} /\ B!Goto(h, "idle", "task_save")
  BY DEF B!Steps, B!InFlight, B!PutTask
<1>7. /\ BoardMoves(h) /\ boardPc[h] = "idle" /\ boardPc'[h] = "task_save"
      /\ boardCall'[h].op = "put_task"
  BY <1>5, <1>3, <1>6, BeginMoves
<1>8. B!Placed(h)'
  BY <1>7 DEF B!Placed, B!Writing, B!Giving, B!Striking, B!Wiping
<1>9. t \in B!TaskIds /\ task[t] \in B!TaskRow
  BY <1>1, IsRow DEF B!TypeOK
<1>10. u \in B!TaskRow
  BY <1>1, <1>9 DEF B!TaskRow, B!TypeOK
<1>11. B!IsTable(boardVar'[h].rows, B!TaskIds, B!TaskRow) /\ DOMAIN boardVar'[h].rows = {t}
  <2> HIDE DEF u
  <2>1. B!IsTable(B!One(t, u), B!TaskIds, B!TaskRow)
    BY <1>9, <1>10, AloneTable
  <2>2. DOMAIN B!One(t, u) = {t}
    BY Alone
  <2>3. QED
    BY <1>4, <2>1, <2>2
<1>12. t \in B!Seen'
  BY <1>7, SeenGrows DEF RowsKnown, B!HadInv
<1>13. B!Holding(h)'
  BY <1>7, <1>11, <1>12 DEF B!Holding, B!Writing, B!Giving, B!Striking
<1>14. row' = row /\ task' = task /\ CategoriesOK'
  BY <1>1 DEF B!PutTask, B!tables, CategoriesOK, B!TypeOK
<1>15. Still(h)
  BY <1>7, <1>14, TaskSame DEF Still, B!Giving, B!Removing, B!Writing
<1>16. QED
  BY <1>7, <1>8, <1>13, <1>14, <1>15 DEF Good

LEMMA SaveTaskDoes ==
    ASSUME RowsKnown, NEW h \in Requests, B!SaveTask(h)
    PROVE  Good(h) /\ Still(h)
<1>1. B!TypeOK /\ B!VarsInv /\ B!CallsInv /\ B!Holding(h)
  BY HoldsOf DEF RowsKnown
<1>2. boardVar' = boardVar /\ OthersStay(h) /\ B!VarsInv'
  BY <1>1, SetNone DEF B!SaveTask
<1>3. "done" \in B!Steps \ {"idle"} /\ "task_save" \in B!InFlight
      /\ B!Goto(h, "task_save", "done") /\ B!Same
  BY DEF B!Steps, B!InFlight, B!SaveTask
<1>4. /\ BoardMoves(h) /\ boardPc[h] = "task_save" /\ boardPc'[h] = "done"
          /\ h \in DOMAIN boardCall /\ boardCall' = boardCall
  BY <1>2, <1>3, BoardLaterMoves
<1>5. B!Placed(h)
  BY <1>4, HoldsOf
<1>6. B!Placed(h)' /\ boardCall'[h].op \notin {"drop_task", "drop_category"}
  BY <1>4, <1>5 DEF B!Placed, B!Writing, B!Giving, B!Striking, B!Wiping
<1>7. B!Holding(h)'
  BY <1>4 DEF B!Holding, B!Writing, B!Giving, B!Striking
<1>8. B!IsTable(boardVar[h].rows, B!TaskIds, B!TaskRow) /\ DOMAIN boardVar[h].rows \subseteq B!Seen
  BY <1>1, <1>4 DEF B!Holding
<1>9. B!IsTable(task', B!TaskIds, B!TaskRow) /\ DOMAIN task' = DOMAIN task
          \cup DOMAIN boardVar[h].rows
  <2>1. B!IsTable(task, B!TaskIds, B!TaskRow) /\ B!IsTable(boardVar[h].rows, B!TaskIds, B!TaskRow)
    BY <1>1, <1>8 DEF B!TypeOK
  <2>2. task' = B!SaveAll(task, boardVar[h].rows)
    BY DEF B!SaveTask
  <2>3. QED
    BY <2>1, <2>2, AllStored
<1>10. B!Seen \subseteq B!Seen' /\ DOMAIN task \subseteq B!Seen
  BY <1>4, SeenGrows DEF RowsKnown, B!HadInv
<1>11. CategoriesOK' /\ row' = row /\ boardVar' = boardVar
  BY <1>1 DEF CategoriesOK, B!TypeOK, B!SaveTask
<1>12. Still(h)
  BY <1>4, <1>6, <1>8, <1>9, <1>10, <1>11 DEF Still, B!Giving, B!Removing, B!Writing
<1>13. QED
  BY <1>4, <1>6, <1>7, <1>11, <1>12 DEF Good

LEMMA PostCategoryDoes ==
    ASSUME RowsKnown, NEW h \in Requests, B!PostCategory(h)
    PROVE  Good(h) /\ Still(h)
<1>1. B!TypeOK /\ B!VarsInv /\ B!CallsInv /\ B!Holding(h)
  BY HoldsOf DEF RowsKnown
<1>2. OthersStay(h) /\ B!VarsInv'
  BY <1>1, SetNone DEF B!PostCategory
<1>3. PICK ids, flag : B!Begin(h, "post_category", ids, flag)
  BY DEF B!PostCategory
<1>4. "done" \in B!Steps \ {"idle"}
  BY DEF B!Steps
<1>5. B!Goto(h, "idle", "done")
  BY DEF B!Steps, B!PostCategory
<1>6. /\ BoardMoves(h) /\ boardPc[h] = "idle" /\ boardPc'[h] = "done"
      /\ boardCall'[h].op = "post_category"
  BY <1>2, <1>5, <1>4, <1>3, BeginMoves
<1>7. B!Placed(h)'
  BY <1>6 DEF B!Placed, B!Writing, B!Giving, B!Striking, B!Wiping
<1>8. B!Holding(h)'
  BY <1>6 DEF B!Holding, B!Writing, B!Giving, B!Striking
<1>9. CategoriesOK' /\ row' = row /\ task' = task
  BY <1>1 DEF CategoriesOK, B!TypeOK, B!PostCategory
<1>10. Still(h)
  BY <1>6, <1>9, TaskSame DEF Still, B!Giving, B!Removing, B!Writing
<1>11. QED
  BY <1>6, <1>7, <1>8, <1>9, <1>10 DEF Good

(* Later steps after which nothing new has been read.                      *)
LEMMA LaterStill ==
    ASSUME RowsKnown, NEW h \in Requests, NEW from \in B!InFlight, NEW to, B!Goto(h, from, to),
               B!Same,
           UNCHANGED <<task, row>>, CategoriesOK', OthersStay(h), B!VarsInv',
           \/ to = "failed" /\ boardVar' = boardVar
           \/ from = "category_save" /\ to = "done" /\ boardVar' = boardVar
           \/ from = "category_remove" /\ to = "category_find" /\ boardVar' = boardVar
           \/ from = "category_find" /\ to = "category_task"
    PROVE  Good(h) /\ Still(h)
<1>1. B!TypeOK /\ B!VarsInv /\ B!CallsInv /\ B!Holding(h)
  BY HoldsOf DEF RowsKnown
<1>2. to \in B!Steps \ {"idle"} /\ from # "idle"
  BY DEF B!Steps, B!InFlight
<1>3. BoardMoves(h) /\ boardPc[h] = from /\ boardPc'[h] = to /\ h \in DOMAIN boardCall
          /\ boardCall' = boardCall
  BY <1>2, BoardLaterMoves
<1>4. B!Placed(h)
  BY <1>3, HoldsOf
<1>5. B!Placed(h)'
  BY <1>3, <1>4 DEF B!Placed, B!Writing, B!Giving, B!Striking, B!Wiping
<1>6. B!Holding(h)'
  BY <1>1, <1>3 DEF B!Holding, B!Writing, B!Giving, B!Striking
<1>7. boardPc[h] \in B!Writing => boardPc'[h] = "failed"
  BY <1>3 DEF B!Writing
<1>8. boardPc'[h] = "done" => boardCall'[h].op \notin {"drop_task", "drop_category"}
  BY <1>3, <1>4 DEF B!Placed, B!Striking, B!Wiping
<1>9. row' = row /\ task' = task
  OBVIOUS
<1>10. boardPc'[h] \notin B!Giving \cup B!Removing \cup B!Writing
  BY <1>3 DEF B!Giving, B!Removing, B!Writing
<1>11. Still(h)
  BY <1>2, <1>3, <1>7, <1>8, <1>9, <1>10, TaskSame DEF Still
<1>12. QED
  BY <1>3, <1>5, <1>6, <1>11 DEF Good

LEMMA AbortDoes ==
    ASSUME RowsKnown, NEW h \in Requests, B!Abort(h)
    PROVE  Good(h) /\ Still(h)
<1>1. B!TypeOK /\ B!VarsInv
  BY DEF RowsKnown
<1>2. OthersStay(h) /\ B!VarsInv'
  BY <1>1, SetNone DEF B!Abort
<1>3. boardPc[h] \in B!InFlight /\ B!Goto(h, boardPc[h], "failed")
  BY DEF B!Abort, B!Goto
<1>4. B!Same /\ UNCHANGED <<task, row>> /\ boardVar' = boardVar
  BY DEF B!Same, B!Abort, B!tables
<1>5. CategoriesOK'
  BY <1>1 DEF CategoriesOK, B!TypeOK, B!Abort, B!tables
<1>6. QED
  BY <1>2, <1>3, <1>4, <1>5, LaterStill

LEMMA SaveCategoryDoes ==
    ASSUME RowsKnown, NEW h \in Requests, B!SaveCategory(h)
    PROVE  Good(h) /\ Still(h)
<1>1. B!TypeOK /\ B!VarsInv /\ B!Holding(h)
  BY HoldsOf DEF RowsKnown
<1>2. OthersStay(h) /\ B!VarsInv'
  BY <1>1, SetNone DEF B!SaveCategory
<1>3. "category_save" \in B!InFlight /\ B!Goto(h, "category_save", "done") /\ B!Same
  BY DEF B!InFlight, B!SaveCategory
<1>4. UNCHANGED <<task, row>> /\ boardVar' = boardVar
  BY DEF B!SaveCategory
<1>5. boardCall[h].ids \subseteq {Category} \cup Requests
  BY <1>1, <1>3 DEF B!Holding, B!Goto
<1>6. CategoriesOK'
  BY <1>1, <1>5 DEF CategoriesOK, B!TypeOK, B!SaveCategory
<1>7. QED
  BY <1>2, <1>3, <1>4, <1>6, LaterStill

LEMMA CategoryRemoveDoes ==
    ASSUME RowsKnown, NEW h \in Requests, B!CategoryRemove(h)
    PROVE  Good(h) /\ Still(h)
<1>1. B!TypeOK /\ B!VarsInv
  BY DEF RowsKnown
<1>2. OthersStay(h) /\ B!VarsInv'
  BY <1>1, SetNone DEF B!CategoryRemove
<1>3. "category_remove" \in B!InFlight /\ B!Goto(h, "category_remove", "category_find") /\ B!Same
  BY DEF B!InFlight, B!CategoryRemove
<1>4. UNCHANGED <<task, row>> /\ boardVar' = boardVar
  BY DEF B!CategoryRemove
<1>5. CategoriesOK'
  BY <1>1 DEF CategoriesOK, B!TypeOK, B!CategoryRemove
<1>6. QED
  BY <1>2, <1>3, <1>4, <1>5, LaterStill

LEMMA CategoryFindDoes ==
    ASSUME RowsKnown, NEW h \in Requests, B!CategoryFind(h) \/ B!OnboardingCategory(h)
    PROVE  Good(h) /\ Still(h)
<1>1. B!TypeOK /\ B!VarsInv
  BY DEF RowsKnown
<1>2. "category_find" \in B!InFlight /\ B!Same
  BY DEF B!InFlight, B!CategoryFind, B!OnboardingCategory
<1>3. UNCHANGED <<task, row>>
  BY DEF B!CategoryFind, B!OnboardingCategory, B!tables
<1>4. CategoriesOK'
  BY <1>1 DEF CategoriesOK, B!TypeOK, B!CategoryFind, B!OnboardingCategory, B!tables
<1>5. CASE B!Goto(h, "category_find", "failed") /\ UNCHANGED boardVar
  <2>1. OthersStay(h) /\ B!VarsInv'
    BY <1>1, <1>5, SetNone
  <2>2. B!Goto(h, "category_find", "failed") /\ boardVar' = boardVar
    BY <1>5
  <2>3. QED
    BY <1>2, <1>3, <1>4, <2>1, <2>2, LaterStill
<1>6. CASE B!Goto(h, "category_find", "category_task")
           /\ \E t \in B!Uncategorised : B!Set(h, "rows", B!One(t, task[t]))
  <2>1. PICK rows : B!Set(h, "rows", rows)
    BY <1>6
  <2>2. OthersStay(h) /\ B!VarsInv'
    BY <1>1, <2>1, SetRows
  <2>3. B!Goto(h, "category_find", "category_task")
    BY <1>6
  <2>4. QED
    BY <1>2, <1>3, <1>4, <2>2, <2>3, LaterStill
<1>7. QED
  BY <1>5, <1>6 DEF B!CategoryFind, B!OnboardingCategory
-----------------------------------------------------------------------------
(* The steps that write a row, and the look for its task.                  *)
LEMMA SeenTask ==
    ASSUME B!TypeOK, NEW t \in B!Seen
    PROVE  t \in B!TaskIds \cup {B!None}
  BY DEF B!TypeOK, B!Seen, B!TaskIds

(* A POST or PUT writes a row, whose task it has yet to look for.          *)
Tells(h) ==
    /\ task' = task
    /\ \E r \in B!RowIds, g \in B!GivenRow :
         /\ row' = B!Save(row, r, g) /\ g.task \in B!Seen'
         /\ boardPc'[h] = "check" /\ boardCall'[h].op \in {"post", "put"}
         /\ r \in boardCall'[h].ids /\ boardVar'[h].rows[r] = g
         /\ \/ boardPc[h] = "idle" /\ r = <<h, g.task>>
            \/ boardPc[h] = "put_save" /\ r \in boardCall[h].ids /\ boardVar' = boardVar
                /\ boardCall[h].op = "put"

(* The look for the task of the rows of a call.                            *)
Looks(h) ==
    /\ row' = row /\ task' = task /\ boardVar' = boardVar
    /\ boardPc[h] = "check" /\ boardCall[h].op \in {"post", "put"}
    /\ \/ boardPc'[h] = "failed"
       \/ /\ boardPc'[h] = "done"
          /\ \A r \in boardCall[h].ids : boardVar[h].rows[r].task \in DOMAIN task \cup {B!None}

LEMMA NewRow ==
    ASSUME B!TypeOK, NEW h, NEW r \in B!RowIds, NEW g \in B!GivenRow, g.task \in B!Seen',
           boardVar'[h].rows = B!One(r, g)
    PROVE  /\ B!IsTable(boardVar'[h].rows, B!RowIds, B!GivenRow) /\ DOMAIN boardVar'[h].rows = {r}
           /\ boardVar'[h].rows[r] = g
           /\ \A x \in DOMAIN boardVar'[h].rows : boardVar'[h].rows[x].task \in B!Seen'
<1>1. B!IsTable(B!One(r, g), B!RowIds, B!GivenRow)
  BY AloneTable
<1>2. DOMAIN B!One(r, g) = {r} /\ B!One(r, g)[r] = g
  BY Alone
<1>3. QED
  BY <1>1, <1>2

LEMMA PostRowDoes ==
    ASSUME RowsKnown, NEW h \in Requests, B!PostRow(h)
    PROVE  Good(h) /\ Tells(h)
<1>1. B!TypeOK /\ B!VarsInv
  BY DEF RowsKnown
<1>2. PICK e \in Employees, t \in B!Seen, done \in BOOLEAN :
        /\ B!Begin(h, "post", {<<h, t>>}, FALSE)
        /\ row' = B!Save(row, <<h, t>>, [emp |-> e, task |-> t, completed |-> done])
        /\ B!Set(h, "rows", B!One(<<h, t>>, [emp |-> e, task |-> t, completed |-> done]))
  BY DEF B!PostRow
<1> DEFINE r == <<h, t>>
           g == [emp |-> e, task |-> t, completed |-> done]
<1>3. t \in B!TaskIds \cup {B!None}
  BY <1>1, SeenTask
<1>4. r \in B!RowIds /\ g \in B!GivenRow /\ g.task = t
  BY <1>3 DEF B!RowIds, B!GivenRow
<1>5. PICK ids, flag : B!Begin(h, "post", ids, flag) /\ ids = {r}
  BY <1>2
<1>6. row' = B!Save(row, r, g) /\ B!Set(h, "rows", B!One(r, g)) /\ r = <<h, g.task>>
  BY <1>2, <1>4
<1> HIDE DEF r, g
<1>7. OthersStay(h) /\ B!VarsInv'
  BY <1>1, <1>6, SetRows
<1>8. boardVar'[h].rows = B!One(r, g)
  BY <1>1, <1>6, SetRows
<1>9. B!Goto(h, "idle", "check")
  BY DEF B!PostRow
<1>10. "check" \in B!Steps \ {"idle"}
  BY DEF B!Steps, B!InFlight
<1>11. /\ BoardMoves(h) /\ boardPc[h] = "idle" /\ boardPc'[h] = "check"
       /\ boardCall'[h].op = "post" /\ boardCall'[h].ids = ids
  BY <1>5, <1>7, <1>9, <1>10, BeginMoves
<1>12. g.task \in B!Seen'
  BY <1>4, <1>11, SeenGrows
<1>13. /\ B!IsTable(boardVar'[h].rows, B!RowIds, B!GivenRow) /\ DOMAIN boardVar'[h].rows = {r}
       /\ boardVar'[h].rows[r] = g
       /\ \A x \in DOMAIN boardVar'[h].rows : boardVar'[h].rows[x].task \in B!Seen'
  BY <1>1, <1>4, <1>8, <1>12, NewRow
<1>14. B!Placed(h)'
  BY <1>11 DEF B!Placed, B!Writing, B!Giving, B!Striking, B!Wiping
<1>15. B!Holding(h)'
  BY <1>4, <1>5, <1>11, <1>13 DEF B!Holding, B!Writing, B!Giving, B!Striking
<1>16. task' = task /\ CategoriesOK'
  BY <1>1 DEF B!PostRow, CategoriesOK, B!TypeOK
<1>17. Tells(h)
  BY <1>4, <1>5, <1>6, <1>11, <1>12, <1>13, <1>16 DEF Tells
<1>18. QED
  BY <1>11, <1>14, <1>15, <1>16, <1>17 DEF Good

LEMMA PutRowDoes ==
    ASSUME RowsKnown, NEW h \in Requests, B!PutRow(h)
    PROVE  Good(h) /\ Still(h)
<1>1. B!TypeOK /\ B!VarsInv /\ B!HadInv
  BY DEF RowsKnown
<1>2. PICK r \in DOMAIN row, e \in Employees, done \in BOOLEAN, t \in B!Seen :
        /\ B!Begin(h, "put", {r}, FALSE)
        /\ \/ B!Set(h, "rows", B!One(r, [row[r] EXCEPT !.emp = e, !.completed = done]))
           \/ B!Set(h, "rows", B!One(r, [row[r] EXCEPT !.task = t]))
  BY DEF B!PutRow
<1>3. r \in B!RowIds /\ row[r] \in B!GivenRow /\ row[r].task \in B!Seen
  BY <1>1, IsRow DEF B!TypeOK, B!HadInv
<1>4. t \in B!TaskIds \cup {B!None}
  BY <1>1, SeenTask
<1>5. PICK g \in B!GivenRow : B!Set(h, "rows", B!One(r, g)) /\ g.task \in B!Seen
  <2>1. CASE B!Set(h, "rows", B!One(r, [row[r] EXCEPT !.emp = e, !.completed = done]))
    <3>1. [row[r] EXCEPT !.emp = e, !.completed = done] \in B!GivenRow
          /\ [row[r] EXCEPT !.emp = e, !.completed = done].task = row[r].task
      BY <1>3 DEF B!GivenRow
    <3>2. QED
      BY <1>3, <2>1, <3>1
  <2>2. CASE B!Set(h, "rows", B!One(r, [row[r] EXCEPT !.task = t]))
    <3>1. [row[r] EXCEPT !.task = t] \in B!GivenRow /\ [row[r] EXCEPT !.task = t].task = t
      BY <1>3, <1>4 DEF B!GivenRow
    <3>2. QED
      BY <2>2, <3>1
  <2>3. QED
    BY <1>2, <2>1, <2>2
<1>6. PICK ids, flag : B!Begin(h, "put", ids, flag) /\ ids = {r}
  BY <1>2
<1>7. OthersStay(h) /\ B!VarsInv'
  BY <1>1, <1>5, SetRows
<1>8. boardVar'[h].rows = B!One(r, g)
  BY <1>1, <1>5, SetRows
<1>9. B!Goto(h, "idle", "put_save")
  BY DEF B!PutRow
<1>10. "put_save" \in B!Steps \ {"idle"}
  BY DEF B!Steps, B!InFlight
<1>11. /\ BoardMoves(h) /\ boardPc[h] = "idle" /\ boardPc'[h] = "put_save"
       /\ boardCall'[h].op = "put" /\ boardCall'[h].ids = ids
  BY <1>6, <1>7, <1>9, <1>10, BeginMoves
<1>12. g.task \in B!Seen'
  BY <1>5, <1>11, SeenGrows
<1>13. /\ B!IsTable(boardVar'[h].rows, B!RowIds, B!GivenRow) /\ DOMAIN boardVar'[h].rows = {r}
       /\ \A x \in DOMAIN boardVar'[h].rows : boardVar'[h].rows[x].task \in B!Seen'
  BY <1>1, <1>3, <1>8, <1>12, NewRow
<1>14. B!Placed(h)'
  BY <1>11 DEF B!Placed, B!Writing, B!Giving, B!Striking, B!Wiping
<1>15. B!Holding(h)'
  BY <1>3, <1>6, <1>11, <1>13 DEF B!Holding, B!Writing, B!Giving, B!Striking
<1>16. row' = row /\ task' = task /\ CategoriesOK'
  BY <1>1 DEF B!PutRow, CategoriesOK, B!TypeOK, B!tables
<1>17. Still(h)
  BY <1>6, <1>11, <1>16, TaskSame DEF Still, B!Giving, B!Removing, B!Writing
<1>18. QED
  BY <1>11, <1>14, <1>15, <1>16, <1>17 DEF Good

LEMMA PutSaveDoes ==
    ASSUME RowsKnown, NEW h \in Requests, B!PutSave(h)
    PROVE  Good(h) /\ Tells(h)
<1>1. B!TypeOK /\ B!VarsInv /\ B!Holding(h)
  BY HoldsOf DEF RowsKnown
<1>2. OthersStay(h) /\ B!VarsInv'
  BY <1>1, SetNone DEF B!PutSave
<1>3. B!Goto(h, "put_save", "check") /\ B!Same
  BY DEF B!PutSave
<1>4. "check" \in B!Steps \ {"idle"} /\ "put_save" \in B!InFlight
  BY DEF B!Steps, B!InFlight
<1>5. /\ BoardMoves(h) /\ boardPc[h] = "put_save" /\ boardPc'[h] = "check" /\ h \in DOMAIN boardCall
      /\ boardCall' = boardCall /\ B!Placed(h)
  BY <1>2, <1>3, <1>4, BoardLaterMoves
<1>6. boardCall[h].op = "put" /\ B!Placed(h)'
  BY <1>5 DEF B!Placed, B!Writing, B!Giving, B!Striking, B!Wiping
<1>7. /\ B!IsTable(boardVar[h].rows, B!RowIds, B!GivenRow)
          /\ DOMAIN boardVar[h].rows = boardCall[h].ids
      /\ \A r \in DOMAIN boardVar[h].rows : boardVar[h].rows[r].task \in B!Seen
      /\ \E r \in B!RowIds : boardCall[h].ids = {r}
  BY <1>1, <1>5 DEF B!Holding, B!Writing
<1>8. PICK r \in B!RowIds : boardCall[h].ids = {r}
  BY <1>7
<1>9. r \in DOMAIN boardVar[h].rows /\ boardVar[h].rows[r] \in B!GivenRow
          /\ boardVar[h].rows[r].task \in B!Seen
  BY <1>7, <1>8, IsRow
<1>10. row' = B!SaveAll(row, boardVar[h].rows) /\ boardVar' = boardVar /\ task' = task
  BY DEF B!PutSave
<1>11. DOMAIN boardVar[h].rows = {r}
  BY <1>7, <1>8
<1>12. B!SaveAll(row, boardVar[h].rows) = B!Save(row, r, boardVar[h].rows[r])
  BY <1>11 DEF B!SaveAll, B!Save
<1>13. B!Seen \subseteq B!Seen'
  BY <1>5, SeenGrows
<1>14. B!Holding(h)'
  BY <1>5, <1>7, <1>10, <1>13 DEF B!Holding, B!Writing, B!Giving, B!Striking
<1>15. Tells(h)
  BY <1>5, <1>6, <1>8, <1>9, <1>10, <1>12, <1>13 DEF Tells
<1>16. CategoriesOK'
  BY <1>1 DEF B!PutSave, CategoriesOK, B!TypeOK
<1>17. QED
  BY <1>5, <1>6, <1>14, <1>15, <1>16 DEF Good

LEMMA CheckDoes ==
    ASSUME RowsKnown, NEW h \in Requests, B!Check(h)
    PROVE  Good(h) /\ Looks(h)
<1>1. B!TypeOK /\ B!VarsInv /\ B!Holding(h)
  BY HoldsOf DEF RowsKnown
<1>2. OthersStay(h) /\ B!VarsInv'
  BY <1>1, SetNone DEF B!Check
<1> DEFINE found == \A r \in DOMAIN boardVar[h].rows : boardVar[h].rows[r].task \in DOMAIN task
    \cup {B!None}
<1>3. PICK to \in {"done", "failed"} : B!Goto(h, "check", to) /\ (to = "done" => found)
  BY DEF B!Check
<1>4. to \in B!Steps \ {"idle"} /\ "check" \in B!InFlight /\ B!Same
  BY DEF B!Steps, B!InFlight, B!Check
<1> HIDE DEF found
<1>5. /\ BoardMoves(h) /\ boardPc[h] = "check" /\ boardPc'[h] = to /\ h \in DOMAIN boardCall
      /\ boardCall' = boardCall /\ B!Placed(h)
  BY <1>2, <1>3, <1>4, BoardLaterMoves
<1>6. boardCall[h].op \in {"post", "put"} /\ B!Placed(h)'
  BY <1>5 DEF B!Placed, B!Writing, B!Giving, B!Striking, B!Wiping
<1>7. DOMAIN boardVar[h].rows = boardCall[h].ids
  BY <1>1, <1>5 DEF B!Holding, B!Writing
<1>8. B!Holding(h)'
  BY <1>5 DEF B!Holding, B!Writing, B!Giving, B!Striking
<1>9. row' = row /\ task' = task /\ boardVar' = boardVar /\ CategoriesOK'
  BY <1>1 DEF B!Check, CategoriesOK, B!TypeOK, B!tables
<1>10. Looks(h)
  BY <1>3, <1>5, <1>6, <1>7, <1>9 DEF Looks, found
<1>11. QED
  BY <1>5, <1>6, <1>8, <1>9, <1>10 DEF Good
-----------------------------------------------------------------------------
(* The steps that remove rows or tasks.                                    *)
LessRows ==
    /\ B!IsTable(row', B!RowIds, B!GivenRow)
    /\ DOMAIN row' \subseteq DOMAIN row /\ \A r \in DOMAIN row' : row'[r] = row[r]

Loses(h) ==
    /\ task' = task /\ LessRows /\ boardPc[h] \in {"idle", "drop_remove"} /\ boardPc'[h] = "done"
    /\ boardCall'[h].op \notin {"drop_task", "drop_category"}
    /\ boardPc[h] = "drop_remove" => DOMAIN row \ DOMAIN row' \subseteq boardCall[h].ids
    /\ boardPc[h] = "idle" =>
         /\ boardCall'[h].op = "leave"
         /\ \A r \in DOMAIN row \ DOMAIN row' : row[r].emp \in boardCall'[h].ids

Asks(h) ==
    /\ task' = task /\ row' = row /\ boardPc[h] = "idle" /\ boardPc'[h] = "sweep"
    /\ boardCall'[h].op = "remove_all"
    /\ boardVar'[h].todo = {r \in DOMAIN row : /\ row[r].emp \in boardCall'[h].ids
                                          /\ row[r].completed = boardCall'[h].flag}

Sheds(h) ==
    /\ task' = task /\ LessRows /\ boardCall' = boardCall /\ boardVar'[h].rows = boardVar[h].rows
    /\ boardVar'[h].todo \subseteq boardVar[h].todo
        /\ boardVar[h].todo \cap DOMAIN row' \subseteq boardVar'[h].todo
    /\ DOMAIN row \ DOMAIN row' \subseteq boardVar[h].todo
    /\ \/ boardPc[h] \in {"sweep", "wipe"} /\ boardPc'[h] = boardPc[h]
       \/ boardPc[h] \in {"sweep", "wipe"} /\ boardPc'[h] = "done" /\ row' = row
           /\ boardVar[h].todo = {}

Removes(h) ==
    /\ row' = row /\ boardVar' = boardVar /\ boardCall' = boardCall
    /\ B!IsTable(task', B!TaskIds, B!TaskRow) /\ DOMAIN task' \subseteq DOMAIN task
    /\ DOMAIN task \ DOMAIN task' \subseteq boardCall[h].ids \cup DOMAIN boardVar[h].rows
    /\ boardPc[h] \in {"strike_remove", "category_task"}
        /\ boardPc'[h] \in {"strike_find", "wipe_find"}
    /\ boardCall[h].op \in {"drop_task", "drop_category"}

Finds(h) ==
    /\ row' = row /\ task' = task /\ boardCall' = boardCall /\ boardVar'[h].rows = boardVar[h].rows
    /\ DOMAIN boardVar[h].rows = {}
    /\ boardPc[h] = "strike_find" /\ boardPc'[h] = "strike_rows" /\ boardCall[h].op = "drop_task"
    /\ \E t \in B!TaskIds : boardCall[h].ids = {t}
        /\ boardVar'[h].todo = B!Struck(t, boardCall[h].flag)

Strikes(h) ==
    /\ task' = task /\ LessRows /\ boardCall' = boardCall /\ boardVar' = boardVar
    /\ DOMAIN row' = DOMAIN row \ boardVar[h].todo
    /\ boardPc[h] = "strike_rows" /\ boardPc'[h] = "done"

FindsAll(h) ==
    /\ row' = row /\ task' = task /\ boardCall' = boardCall /\ boardVar'[h].rows = boardVar[h].rows
    /\ boardPc[h] = "wipe_find" /\ boardPc'[h] = "wipe" /\ boardVar'[h].todo = DOMAIN row

LEMMA LessIs ==
    ASSUME B!TypeOK, NEW Rest, Rest \subseteq DOMAIN row, row' = [r \in Rest |-> row[r]]
    PROVE  LessRows /\ DOMAIN row' = Rest
<1>1. B!IsTable(row, B!RowIds, B!GivenRow)
  BY DEF B!TypeOK
<1>2. QED
  BY <1>1, Fewer DEF LessRows

LEMMA DropRemoveDoes ==
    ASSUME RowsKnown, NEW h \in Requests, B!DropRemove(h)
    PROVE  Good(h) /\ Loses(h)
<1>1. B!TypeOK /\ B!VarsInv
  BY DEF RowsKnown
<1>2. OthersStay(h) /\ B!VarsInv'
  BY <1>1, SetNone DEF B!DropRemove
<1>3. B!Goto(h, "drop_remove", "done") /\ B!Same
  BY DEF B!DropRemove
<1>4. "done" \in B!Steps \ {"idle"} /\ "drop_remove" \in B!InFlight
  BY DEF B!Steps, B!InFlight
<1>5. /\ BoardMoves(h) /\ boardPc[h] = "drop_remove" /\ boardPc'[h] = "done"
          /\ h \in DOMAIN boardCall
      /\ boardCall' = boardCall /\ B!Placed(h)
  BY <1>2, <1>3, <1>4, BoardLaterMoves
<1>6. boardCall[h].op \notin {"drop_task", "drop_category"} /\ B!Placed(h)'
  BY <1>5 DEF B!Placed, B!Writing, B!Giving, B!Striking, B!Wiping
<1>7. B!Holding(h)'
  BY <1>5 DEF B!Holding, B!Writing, B!Giving, B!Striking
<1>8. LessRows /\ DOMAIN row' = DOMAIN row \ boardCall[h].ids
  <2>1. DOMAIN row \ boardCall[h].ids \subseteq DOMAIN row
        /\ row' = [r \in DOMAIN row \ boardCall[h].ids |-> row[r]]
    BY DEF B!DropRemove
  <2>2. QED
    BY <1>1, <2>1, LessIs
<1>9. task' = task /\ CategoriesOK'
  BY <1>1 DEF B!DropRemove, CategoriesOK, B!TypeOK
<1>10. QED
  BY <1>5, <1>6, <1>7, <1>8, <1>9 DEF Good, Loses

LEMMA DeleteEmployeeDoes ==
    ASSUME RowsKnown, NEW h \in Requests, B!DeleteEmployee(h)
    PROVE  Good(h) /\ Loses(h)
<1>1. B!TypeOK /\ B!VarsInv
  BY DEF RowsKnown
<1>2. OthersStay(h) /\ B!VarsInv'
  BY <1>1, SetNone DEF B!DeleteEmployee
<1>3. PICK e \in Employees :
        /\ B!Begin(h, "leave", {e}, FALSE)
        /\ row' = [r \in {x \in DOMAIN row : row[x].emp # e} |-> row[r]]
  BY DEF B!DeleteEmployee
<1>4. PICK ids, flag : B!Begin(h, "leave", ids, flag) /\ ids = {e}
  BY <1>3
<1>5. "done" \in B!Steps \ {"idle"}
  BY DEF B!Steps
<1>6. B!Goto(h, "idle", "done")
  BY DEF B!DeleteEmployee
<1>7. /\ BoardMoves(h) /\ boardPc[h] = "idle" /\ boardPc'[h] = "done" /\ h \in DOMAIN boardCall'
      /\ h \notin DOMAIN boardCall /\ boardCall'[h].op = "leave" /\ boardCall'[h].ids = ids
  BY <1>2, <1>4, <1>5, <1>6, BeginMoves
<1>8. B!Placed(h)'
  BY <1>7 DEF B!Placed, B!Writing, B!Giving, B!Striking, B!Wiping
<1>9. B!Holding(h)'
  BY <1>7 DEF B!Holding, B!Writing, B!Giving, B!Striking
<1>10. LessRows /\ DOMAIN row' = {x \in DOMAIN row : row[x].emp # e}
  BY <1>1, <1>3, LessIs
<1>11. \A r \in DOMAIN row \ DOMAIN row' : row[r].emp \in boardCall'[h].ids
  BY <1>4, <1>7, <1>10
<1>12. task' = task /\ CategoriesOK'
  BY <1>1 DEF B!DeleteEmployee, CategoriesOK, B!TypeOK
<1>13. QED
  BY <1>7, <1>8, <1>9, <1>10, <1>11, <1>12 DEF Good, Loses

LEMMA RemoveAllDoes ==
    ASSUME RowsKnown, NEW h \in Requests, B!RemoveAll(h)
    PROVE  Good(h) /\ Asks(h)
<1>1. B!TypeOK /\ B!VarsInv
  BY DEF RowsKnown
<1>2. PICK e \in Employees, done \in BOOLEAN :
        B!Begin(h, "remove_all", {e}, done) /\ B!Set(h, "todo", B!Matching(e, done))
  BY DEF B!RemoveAll
<1>3. B!Matching(e, done) \in SUBSET B!RowIds
  BY <1>1 DEF B!Matching, B!TypeOK, B!IsTable
<1>4. PICK ids : B!Begin(h, "remove_all", ids, done) /\ ids = {e}
  BY <1>2
<1>5. OthersStay(h) /\ B!VarsInv'
  BY <1>1, <1>2, <1>3, SetTodo
<1>6. boardVar'[h].todo = B!Matching(e, done)
  BY <1>1, <1>2, <1>3, SetTodo
<1>7. "sweep" \in B!Steps \ {"idle"}
  BY DEF B!Steps, B!InFlight
<1>8. B!Goto(h, "idle", "sweep")
  BY DEF B!RemoveAll
<1>9. /\ BoardMoves(h) /\ boardPc[h] = "idle" /\ boardPc'[h] = "sweep"
      /\ boardCall'[h].op = "remove_all" /\ boardCall'[h].ids = ids /\ boardCall'[h].flag = done
  BY <1>4, <1>5, <1>7, <1>8, BeginMoves
<1>10. B!Placed(h)'
  BY <1>9 DEF B!Placed, B!Writing, B!Giving, B!Striking, B!Wiping
<1>11. B!Holding(h)'
  BY <1>9 DEF B!Holding, B!Writing, B!Giving, B!Striking
<1>12. task' = task /\ row' = row /\ CategoriesOK'
  BY <1>1 DEF B!RemoveAll, CategoriesOK, B!TypeOK, B!tables
<1>13. boardVar'[h].todo = {r \in DOMAIN row : /\ row[r].emp \in boardCall'[h].ids
                                          /\ row[r].completed = boardCall'[h].flag}
  BY <1>4, <1>6, <1>9 DEF B!Matching
<1>14. QED
  BY <1>9, <1>10, <1>11, <1>12, <1>13 DEF Good, Asks

LEMMA RemoveEachDoes ==
    ASSUME RowsKnown, NEW h \in Requests, NEW at \in {"sweep", "wipe"}, B!RemoveEach(h, at)
    PROVE  Good(h) /\ Sheds(h)
<1>1. B!TypeOK /\ B!VarsInv
  BY DEF RowsKnown
<1>2. at \in B!InFlight /\ B!Same /\ CategoriesOK' /\ task' = task
  BY <1>1 DEF B!RemoveEach, B!InFlight, CategoriesOK, B!TypeOK, B!tables
<1>3. CASE boardPc[h] = at /\ UNCHANGED boardPc
           /\ \E r \in boardVar[h].todo : row' = B!Delete(row, r)
               /\ B!Set(h, "todo", boardVar[h].todo \ {r})
  <2>1. PICK r \in boardVar[h].todo : row' = B!Delete(row, r)
                                          /\ B!Set(h, "todo", boardVar[h].todo \ {r})
    BY <1>3
  <2>2. PICK rest \in SUBSET B!RowIds : B!Set(h, "todo", rest) /\ rest = boardVar[h].todo \ {r}
    BY <1>1, <2>1 DEF B!VarsInv
  <2>3. OthersStay(h) /\ B!VarsInv'
    BY <1>1, <2>2, SetTodo
  <2>4. boardVar'[h].todo = rest /\ boardVar'[h].rows = boardVar[h].rows
    BY <1>1, <2>2, SetTodo
  <2>5. BoardMoves(h) /\ h \in DOMAIN boardCall /\ boardCall' = boardCall /\ B!Placed(h)
    BY <1>2, <1>3, <2>3, StayMoves
  <2>6. boardPc' = boardPc /\ boardPc[h] = at
    BY <1>3
  <2>7. B!Placed(h)'
    BY <2>5, <2>6 DEF B!Placed
  <2>8. B!Holding(h)'
    BY <2>6 DEF B!Holding, B!Writing, B!Giving, B!Striking
  <2>9. DOMAIN row \ {r} \subseteq DOMAIN row /\ row' = [x \in DOMAIN row \ {r} |-> row[x]]
    BY <2>1 DEF B!Delete
  <2>10. LessRows /\ DOMAIN row' = DOMAIN row \ {r}
    BY <1>1, <2>9, LessIs
  <2>11. Sheds(h)
    BY <1>2, <2>2, <2>4, <2>5, <2>6, <2>10 DEF Sheds
  <2>12. QED
    BY <1>2, <2>5, <2>7, <2>8, <2>11 DEF Good
<1>4. CASE B!Goto(h, at, "done") /\ boardVar[h].todo = {} /\ UNCHANGED <<B!tables, boardVar>>
  <2>1. OthersStay(h) /\ B!VarsInv'
    BY <1>1, <1>4, SetNone
  <2>2. "done" \in B!Steps \ {"idle"}
    BY DEF B!Steps
  <2>3. B!Goto(h, at, "done")
    BY <1>4
  <2>4. /\ BoardMoves(h) /\ boardPc[h] = at /\ boardPc'[h] = "done" /\ h \in DOMAIN boardCall
            /\ boardCall' = boardCall
        /\ B!Placed(h)
    BY <1>2, <2>1, <2>2, <2>3, BoardLaterMoves
  <2>5. B!Placed(h)'
    BY <2>4 DEF B!Placed, B!Writing, B!Giving, B!Striking, B!Wiping
  <2>6. B!Holding(h)'
    BY <2>4 DEF B!Holding, B!Writing, B!Giving, B!Striking
  <2>7. row' = row /\ boardVar' = boardVar /\ boardVar[h].todo = {}
    BY <1>4 DEF B!tables
  <2>8. LessRows
    BY <1>1, <2>7 DEF LessRows, B!TypeOK
  <2>9. Sheds(h)
    BY <1>2, <2>4, <2>7, <2>8 DEF Sheds
  <2>10. QED
    BY <1>2, <2>4, <2>5, <2>6, <2>9 DEF Good
<1>5. QED
  BY <1>3, <1>4 DEF B!RemoveEach

LEMMA StrikeRemoveDoes ==
    ASSUME RowsKnown, NEW h \in Requests, B!StrikeRemove(h)
    PROVE  Good(h) /\ Removes(h)
<1>1. B!TypeOK /\ B!VarsInv /\ B!Holding(h) /\ B!IsTable(task, B!TaskIds, B!TaskRow)
  BY HoldsOf DEF RowsKnown, B!TypeOK
<1>2. OthersStay(h) /\ B!VarsInv'
  BY <1>1, SetNone DEF B!StrikeRemove
<1>3. B!Goto(h, "strike_remove", "strike_find") /\ B!Same
  BY DEF B!StrikeRemove
<1>4. "strike_find" \in B!Steps \ {"idle"} /\ "strike_remove" \in B!InFlight
  BY DEF B!Steps, B!InFlight
<1>5. /\ BoardMoves(h) /\ boardPc[h] = "strike_remove" /\ boardPc'[h] = "strike_find"
          /\ h \in DOMAIN boardCall
      /\ boardCall' = boardCall /\ B!Placed(h)
  BY <1>2, <1>3, <1>4, BoardLaterMoves
<1>6. boardCall[h].op = "drop_task" /\ B!Placed(h)'
  BY <1>5 DEF B!Placed, B!Writing, B!Giving, B!Striking, B!Wiping
<1>7. boardVar' = boardVar /\ row' = row /\ CategoriesOK'
  BY <1>1 DEF B!StrikeRemove, CategoriesOK, B!TypeOK
<1>8. B!Holding(h)'
  BY <1>1, <1>5, <1>7 DEF B!Holding, B!Writing, B!Giving, B!Striking
<1>9. task' = [t \in DOMAIN task \ boardCall[h].ids |-> task[t]]
  BY DEF B!StrikeRemove
<1>10. B!IsTable(task', B!TaskIds, B!TaskRow) /\ DOMAIN task' = DOMAIN task \ boardCall[h].ids
  BY <1>1, <1>9, Fewer
<1>11. Removes(h)
  BY <1>5, <1>6, <1>7, <1>10 DEF Removes
<1>12. QED
  BY <1>5, <1>6, <1>7, <1>8, <1>11 DEF Good

LEMMA CategoryTaskDoes ==
    ASSUME RowsKnown, NEW h \in Requests, B!CategoryTask(h)
    PROVE  Good(h) /\ Removes(h)
<1>1. B!TypeOK /\ B!VarsInv /\ B!IsTable(task, B!TaskIds, B!TaskRow)
  BY DEF RowsKnown, B!TypeOK
<1>2. OthersStay(h) /\ B!VarsInv'
  BY <1>1, SetNone DEF B!CategoryTask
<1>3. B!Goto(h, "category_task", "wipe_find") /\ B!Same
  BY DEF B!CategoryTask
<1>4. "wipe_find" \in B!Steps \ {"idle"} /\ "category_task" \in B!InFlight
  BY DEF B!Steps, B!InFlight
<1>5. /\ BoardMoves(h) /\ boardPc[h] = "category_task" /\ boardPc'[h] = "wipe_find"
          /\ h \in DOMAIN boardCall
      /\ boardCall' = boardCall /\ B!Placed(h)
  BY <1>2, <1>3, <1>4, BoardLaterMoves
<1>6. boardCall[h].op = "drop_category" /\ B!Placed(h)'
  BY <1>5 DEF B!Placed, B!Writing, B!Giving, B!Striking, B!Wiping
<1>7. boardVar' = boardVar /\ row' = row /\ CategoriesOK'
  BY <1>1 DEF B!CategoryTask, CategoriesOK, B!TypeOK
<1>8. B!Holding(h)'
  BY <1>5 DEF B!Holding, B!Writing, B!Giving, B!Striking
<1>9. task' = [t \in DOMAIN task \ DOMAIN boardVar[h].rows |-> task[t]]
  BY DEF B!CategoryTask
<1>10. B!IsTable(task', B!TaskIds, B!TaskRow)
           /\ DOMAIN task' = DOMAIN task \ DOMAIN boardVar[h].rows
  BY <1>1, <1>9, Fewer
<1>11. Removes(h)
  BY <1>5, <1>6, <1>7, <1>10 DEF Removes
<1>12. QED
  BY <1>5, <1>6, <1>7, <1>8, <1>11 DEF Good

LEMMA StrikeFindDoes ==
    ASSUME RowsKnown, NEW h \in Requests, B!StrikeFind(h)
    PROVE  Good(h) /\ Finds(h)
<1>1. B!TypeOK /\ B!VarsInv /\ B!Holding(h)
  BY HoldsOf DEF RowsKnown
<1>2. PICK t \in boardCall[h].ids : B!Set(h, "todo", B!Struck(t, boardCall[h].flag))
  BY DEF B!StrikeFind
<1>3. B!Struck(t, boardCall[h].flag) \in SUBSET B!RowIds
  BY <1>1 DEF B!Struck, B!TypeOK, B!IsTable
<1>4. OthersStay(h) /\ B!VarsInv'
  BY <1>1, <1>2, <1>3, SetTodo
<1>5. boardVar'[h].todo = B!Struck(t, boardCall[h].flag) /\ boardVar'[h].rows = boardVar[h].rows
  BY <1>1, <1>2, <1>3, SetTodo
<1>6. B!Goto(h, "strike_find", "strike_rows") /\ B!Same
  BY DEF B!StrikeFind
<1>7. "strike_rows" \in B!Steps \ {"idle"} /\ "strike_find" \in B!InFlight
  BY DEF B!Steps, B!InFlight
<1>8. /\ BoardMoves(h) /\ boardPc[h] = "strike_find" /\ boardPc'[h] = "strike_rows"
          /\ h \in DOMAIN boardCall
      /\ boardCall' = boardCall /\ B!Placed(h)
  BY <1>4, <1>6, <1>7, BoardLaterMoves
<1>9. boardCall[h].op = "drop_task" /\ B!Placed(h)'
  BY <1>8 DEF B!Placed, B!Writing, B!Giving, B!Striking, B!Wiping
<1>10. DOMAIN boardVar[h].rows = {} /\ \E u \in B!TaskIds : boardCall[h].ids = {u}
  BY <1>1, <1>8 DEF B!Holding, B!Striking
<1>11. t \in B!TaskIds /\ boardCall[h].ids = {t}
  BY <1>2, <1>10
<1>12. B!Holding(h)'
  BY <1>5, <1>8, <1>10 DEF B!Holding, B!Writing, B!Giving, B!Striking
<1>13. task' = task /\ row' = row /\ CategoriesOK'
  BY <1>1 DEF B!StrikeFind, CategoriesOK, B!TypeOK, B!tables
<1>14. Finds(h)
  BY <1>5, <1>8, <1>9, <1>10, <1>11, <1>13 DEF Finds
<1>15. QED
  BY <1>8, <1>9, <1>12, <1>13, <1>14 DEF Good

LEMMA StrikeRowsDoes ==
    ASSUME RowsKnown, NEW h \in Requests, B!StrikeRows(h)
    PROVE  Good(h) /\ Strikes(h)
<1>1. B!TypeOK /\ B!VarsInv
  BY DEF RowsKnown
<1>2. OthersStay(h) /\ B!VarsInv'
  BY <1>1, SetNone DEF B!StrikeRows
<1>3. B!Goto(h, "strike_rows", "done") /\ B!Same
  BY DEF B!StrikeRows
<1>4. "done" \in B!Steps \ {"idle"} /\ "strike_rows" \in B!InFlight
  BY DEF B!Steps, B!InFlight
<1>5. /\ BoardMoves(h) /\ boardPc[h] = "strike_rows" /\ boardPc'[h] = "done"
          /\ h \in DOMAIN boardCall
      /\ boardCall' = boardCall /\ B!Placed(h)
  BY <1>2, <1>3, <1>4, BoardLaterMoves
<1>6. B!Placed(h)'
  BY <1>5 DEF B!Placed, B!Writing, B!Giving, B!Striking, B!Wiping
<1>7. B!Holding(h)'
  BY <1>5 DEF B!Holding, B!Writing, B!Giving, B!Striking
<1>8. DOMAIN row \ boardVar[h].todo \subseteq DOMAIN row
      /\ row' = [x \in DOMAIN row \ boardVar[h].todo |-> row[x]]
  BY DEF B!StrikeRows
<1>9. LessRows /\ DOMAIN row' = DOMAIN row \ boardVar[h].todo
  BY <1>1, <1>8, LessIs
<1>10. task' = task /\ boardVar' = boardVar /\ CategoriesOK'
  BY <1>1 DEF B!StrikeRows, CategoriesOK, B!TypeOK
<1>11. Strikes(h)
  BY <1>5, <1>9, <1>10 DEF Strikes
<1>12. QED
  BY <1>5, <1>6, <1>7, <1>10, <1>11 DEF Good

LEMMA WipeFindDoes ==
    ASSUME RowsKnown, NEW h \in Requests, B!WipeFind(h)
    PROVE  Good(h) /\ FindsAll(h)
<1>1. B!TypeOK /\ B!VarsInv
  BY DEF RowsKnown
<1>2. PICK all : B!Set(h, "todo", all) /\ all = DOMAIN row
  BY DEF B!WipeFind
<1>3. all \in SUBSET B!RowIds
  BY <1>1, <1>2 DEF B!TypeOK, B!IsTable
<1>4. OthersStay(h) /\ B!VarsInv'
  BY <1>1, <1>2, <1>3, SetTodo
<1>5. boardVar'[h].todo = all /\ boardVar'[h].rows = boardVar[h].rows
  BY <1>1, <1>2, <1>3, SetTodo
<1>6. B!Goto(h, "wipe_find", "wipe") /\ B!Same
  BY DEF B!WipeFind
<1>7. "wipe" \in B!Steps \ {"idle"} /\ "wipe_find" \in B!InFlight
  BY DEF B!Steps, B!InFlight
<1>8. /\ BoardMoves(h) /\ boardPc[h] = "wipe_find" /\ boardPc'[h] = "wipe" /\ h \in DOMAIN boardCall
      /\ boardCall' = boardCall /\ B!Placed(h)
  BY <1>4, <1>6, <1>7, BoardLaterMoves
<1>9. B!Placed(h)'
  BY <1>8 DEF B!Placed, B!Writing, B!Giving, B!Striking, B!Wiping
<1>10. B!Holding(h)'
  BY <1>8 DEF B!Holding, B!Writing, B!Giving, B!Striking
<1>11. task' = task /\ row' = row /\ CategoriesOK'
  BY <1>1 DEF B!WipeFind, CategoriesOK, B!TypeOK, B!tables
<1>12. FindsAll(h)
  BY <1>2, <1>5, <1>8, <1>11 DEF FindsAll
<1>13. QED
  BY <1>8, <1>9, <1>10, <1>11, <1>12 DEF Good
-----------------------------------------------------------------------------
(* The steps that give several tasks.                                      *)
Assigns(h) ==
    /\ task' = task /\ row' = row /\ boardPc[h] = "idle" /\ boardPc'[h] = "assign_read"
    /\ boardCall'[h].op = "assign"
    /\ DOMAIN boardVar'[h].rows \subseteq boardVar'[h].todo

Reads(h) ==
    /\ task' = task /\ row' = row /\ boardCall' = boardCall /\ boardVar'[h].rows = boardVar[h].rows
    /\ boardPc[h] = "assign_read" /\ boardPc'[h] = "assign_save"
    /\ \E r \in boardVar[h].todo : r[2] \in DOMAIN task
        /\ boardVar'[h].todo = boardVar[h].todo \ {r}

Gives(h) ==
    /\ task' = task /\ boardCall' = boardCall /\ boardVar'[h].todo = boardVar[h].todo
    /\ boardPc[h] = "assign_save" /\ boardPc'[h] \in {"assign_read", "done"}
        /\ boardCall[h].op = "assign"
    /\ \E r \in DOMAIN boardVar[h].rows \ boardVar[h].todo :
         /\ r \in B!RowIds /\ boardVar[h].rows[r] \in B!GivenRow
             /\ boardVar[h].rows[r].task \in B!Seen
         /\ r = <<h, boardVar[h].rows[r].task>>
         /\ row' = B!Save(row, r, boardVar[h].rows[r])
             /\ DOMAIN boardVar'[h].rows = DOMAIN boardVar[h].rows \ {r}

LEMMA AssignDoes ==
    ASSUME RowsKnown, NEW h \in Requests, B!Assign(h)
    PROVE  Good(h) /\ Assigns(h)
<1>1. B!TypeOK /\ B!VarsInv /\ B!HadInv
  BY DEF RowsKnown
<1>2. PICK e \in Employees, ts \in SUBSET DOMAIN task :
        /\ B!Begin(h, "assign", {<<h, t>> : t \in ts}, FALSE)
        /\ boardVar' = [boardVar EXCEPT ![h].todo = {<<h, t>> : t \in ts},
               ![h].rows = [r \in {<<h, t>> : t \in ts} |->
                              [emp |-> e, task |-> r[2], completed |-> FALSE]]]
  BY DEF B!Assign
<1>3. PICK new : new = {<<h, t>> : t \in ts}
  OBVIOUS
<1>4. PICK rows : rows = [r \in new |-> [emp |-> e, task |-> r[2], completed |-> FALSE]]
  OBVIOUS
<1>5. ts \subseteq B!TaskIds /\ ts \subseteq B!Seen
  BY <1>1 DEF B!TypeOK, B!IsTable, B!HadInv
<1>6. new \in SUBSET B!RowIds
  BY <1>3, <1>5 DEF B!RowIds
<1>7. boardVar' = [boardVar EXCEPT ![h].todo = new, ![h].rows = rows]
  BY <1>2, <1>3, <1>4
<1>8. OthersStay(h) /\ B!VarsInv'
  BY <1>1, <1>6, <1>7, SetDoes
<1>9. boardVar'[h].todo = new /\ boardVar'[h].rows = rows
  BY <1>1, <1>6, <1>7, SetDoes
<1>10. PICK ids, flag : B!Begin(h, "assign", ids, flag)
  BY <1>2
<1>11. "assign_read" \in B!Steps \ {"idle"}
  BY DEF B!Steps, B!InFlight
<1>12. B!Goto(h, "idle", "assign_read")
  BY DEF B!Assign
<1>13. BoardMoves(h) /\ boardPc[h] = "idle" /\ boardPc'[h] = "assign_read"
           /\ boardCall'[h].op = "assign"
  BY <1>8, <1>10, <1>11, <1>12, BeginMoves
<1>14. B!Placed(h)'
  BY <1>13 DEF B!Placed, B!Writing, B!Giving, B!Striking, B!Wiping
<1>15. \A r \in new : /\ rows[r] \in B!GivenRow /\ rows[r].task \in B!Seen
                      /\ r = <<h, rows[r].task>>
  BY <1>3, <1>4, <1>5 DEF B!GivenRow
<1>16. DOMAIN rows = new /\ rows = [r \in new |-> rows[r]]
  BY <1>4
<1>17. B!IsTable(rows, B!RowIds, B!GivenRow)
  BY <1>6, <1>15, <1>16 DEF B!IsTable
<1>18. B!Seen \subseteq B!Seen'
  BY <1>13, SeenGrows
<1>19. B!Holding(h)'
  BY <1>9, <1>13, <1>15, <1>16, <1>17, <1>18 DEF B!Holding, B!Writing, B!Giving, B!Striking
<1>20. task' = task /\ row' = row /\ CategoriesOK'
  BY <1>1 DEF B!Assign, CategoriesOK, B!TypeOK, B!tables
<1>21. Assigns(h)
  BY <1>9, <1>13, <1>16, <1>20 DEF Assigns
<1>22. QED
  BY <1>13, <1>14, <1>19, <1>20, <1>21 DEF Good

LEMMA AssignReadDoes ==
    ASSUME RowsKnown, NEW h \in Requests, B!AssignRead(h)
    PROVE  Good(h) /\ Reads(h)
<1>1. B!TypeOK /\ B!VarsInv /\ B!Holding(h)
  BY HoldsOf DEF RowsKnown
<1>2. PICK r \in boardVar[h].todo : r[2] \in DOMAIN task /\ B!Set(h, "todo", boardVar[h].todo \ {r})
  BY DEF B!AssignRead
<1>3. PICK rest \in SUBSET B!RowIds : B!Set(h, "todo", rest) /\ rest = boardVar[h].todo \ {r}
  BY <1>1, <1>2 DEF B!VarsInv
<1>4. OthersStay(h) /\ B!VarsInv'
  BY <1>1, <1>3, SetTodo
<1>5. boardVar'[h].todo = rest /\ boardVar'[h].rows = boardVar[h].rows
  BY <1>1, <1>3, SetTodo
<1>6. B!Goto(h, "assign_read", "assign_save") /\ B!Same
  BY DEF B!AssignRead
<1>7. "assign_save" \in B!Steps \ {"idle"} /\ "assign_read" \in B!InFlight
  BY DEF B!Steps, B!InFlight
<1>8. /\ BoardMoves(h) /\ boardPc[h] = "assign_read" /\ boardPc'[h] = "assign_save"
          /\ h \in DOMAIN boardCall
      /\ boardCall' = boardCall /\ B!Placed(h)
  BY <1>4, <1>6, <1>7, BoardLaterMoves
<1>9. B!Placed(h)'
  BY <1>8 DEF B!Placed, B!Writing, B!Giving, B!Striking, B!Wiping
<1>10. B!Seen \subseteq B!Seen'
  BY <1>8, SeenGrows
<1>11. B!Holding(h)'
  BY <1>1, <1>5, <1>8, <1>10 DEF B!Holding, B!Writing, B!Giving, B!Striking
<1>12. task' = task /\ row' = row /\ CategoriesOK'
  BY <1>1 DEF B!AssignRead, CategoriesOK, B!TypeOK, B!tables
<1>13. Reads(h)
  BY <1>2, <1>3, <1>5, <1>8, <1>12 DEF Reads
<1>14. QED
  BY <1>8, <1>9, <1>11, <1>12, <1>13 DEF Good

LEMMA AssignSaveDoes ==
    ASSUME RowsKnown, NEW h \in Requests, B!AssignSave(h)
    PROVE  Good(h) /\ Gives(h)
<1>1. B!TypeOK /\ B!VarsInv /\ B!Holding(h)
  BY HoldsOf DEF RowsKnown
<1>2. PICK r \in DOMAIN boardVar[h].rows \ boardVar[h].todo :
        row' = B!Save(row, r, boardVar[h].rows[r])
            /\ B!Set(h, "rows", B!Delete(boardVar[h].rows, r))
  BY DEF B!AssignSave
<1>3. OthersStay(h) /\ B!VarsInv'
  BY <1>1, <1>2, SetRows
<1>4. boardVar'[h].todo = boardVar[h].todo /\ boardVar'[h].rows = B!Delete(boardVar[h].rows, r)
  BY <1>1, <1>2, SetRows
<1>5. PICK to \in {"assign_read", "done"} : B!Goto(h, "assign_save", to)
  BY DEF B!AssignSave
<1>6. to \in B!Steps \ {"idle"} /\ "assign_save" \in B!InFlight /\ B!Same
  BY DEF B!Steps, B!InFlight, B!AssignSave
<1>7. /\ BoardMoves(h) /\ boardPc[h] = "assign_save" /\ boardPc'[h] = to /\ h \in DOMAIN boardCall
      /\ boardCall' = boardCall /\ B!Placed(h)
  BY <1>3, <1>5, <1>6, BoardLaterMoves
<1>8. boardCall[h].op = "assign" /\ B!Placed(h)'
  BY <1>7 DEF B!Placed, B!Writing, B!Giving, B!Striking, B!Wiping
<1>9. /\ B!IsTable(boardVar[h].rows, B!RowIds, B!GivenRow)
      /\ \A x \in DOMAIN boardVar[h].rows : /\ boardVar[h].rows[x].task \in B!Seen
                                       /\ x = <<h, boardVar[h].rows[x].task>>
  BY <1>1, <1>7 DEF B!Holding, B!Giving
<1>10. r \in B!RowIds /\ boardVar[h].rows[r] \in B!GivenRow
  BY <1>2, <1>9, IsRow
<1>11. /\ B!IsTable(boardVar'[h].rows, B!RowIds, B!GivenRow)
       /\ DOMAIN boardVar'[h].rows = DOMAIN boardVar[h].rows \ {r}
       /\ \A y \in DOMAIN boardVar'[h].rows : boardVar'[h].rows[y] = boardVar[h].rows[y]
  <2> DEFINE rows == boardVar[h].rows
  <2>1. B!IsTable(rows, B!RowIds, B!GivenRow)
    BY <1>9
  <2> HIDE DEF rows
  <2>2. /\ B!IsTable(B!Delete(rows, r), B!RowIds, B!GivenRow)
        /\ DOMAIN B!Delete(rows, r) = DOMAIN rows \ {r}
        /\ \A y \in DOMAIN rows \ {r} : B!Delete(rows, r)[y] = rows[y]
    BY <2>1, LessTable
  <2>3. boardVar'[h].rows = B!Delete(rows, r)
    BY <1>4 DEF rows
  <2>4. QED
    BY <2>2, <2>3 DEF rows
<1>12. B!Seen \subseteq B!Seen'
  BY <1>7, SeenGrows
<1>13. B!Holding(h)'
  BY <1>7, <1>9, <1>11, <1>12 DEF B!Holding, B!Writing, B!Giving, B!Striking
<1>14. task' = task /\ CategoriesOK'
  BY <1>1 DEF B!AssignSave, CategoriesOK, B!TypeOK
<1>15. Gives(h)
  BY <1>2, <1>4, <1>5, <1>7, <1>8, <1>9, <1>10, <1>11, <1>14 DEF Gives
<1>16. QED
  BY <1>7, <1>8, <1>13, <1>14, <1>15 DEF Good
-----------------------------------------------------------------------------
(* What a step does to the tables.                                         *)
LEMMA StepIs ==
    ASSUME RowsKnown, NEW h \in Requests, BoardStep(h)
    PROVE  /\ Good(h)
           /\ \/ Still(h) \/ Tells(h) \/ Looks(h) \/ Loses(h) \/ Asks(h) \/ Sheds(h) \/ Removes(h)
              \/ Finds(h) \/ Strikes(h) \/ FindsAll(h) \/ Assigns(h) \/ Reads(h) \/ Gives(h)
<1>1. CASE B!OfRows(h)
  BY <1>1, PostRowDoes, CheckDoes, PutRowDoes, PutSaveDoes, DropRowDoes, DropRemoveDoes,
     RemoveAllDoes, RemoveEachDoes, AssignDoes, AssignReadDoes, AssignSaveDoes,
     DeleteEmployeeDoes DEF B!OfRows, B!Sweep
<1>2. CASE B!OfTasks(h)
  BY <1>2, PostTaskDoes, PutTaskDoes, SaveTaskDoes, DropTaskDoes, StrikeRemoveDoes,
     StrikeFindDoes, StrikeRowsDoes DEF B!OfTasks
<1>3. CASE B!OfCategories(h)
  BY <1>3, PostCategoryDoes, PutCategoryDoes, SaveCategoryDoes, DropCategoryDoes,
     CategoryRemoveDoes, CategoryFindDoes, CategoryTaskDoes, WipeFindDoes,
     RemoveEachDoes DEF B!OfCategories, B!Wipe
<1>4. CASE B!Abort(h)
  BY <1>4, AbortDoes
<1>5. QED
  BY <1>1, <1>2, <1>3, <1>4 DEF BoardStep
-----------------------------------------------------------------------------
(* Types.                                                                  *)
LEMMA RowTable ==
    ASSUME RowsKnown, NEW h \in Requests, BoardStep(h)
    PROVE  B!IsTable(row', B!RowIds, B!GivenRow)
<1>1. B!IsTable(row, B!RowIds, B!GivenRow)
  BY DEF RowsKnown, B!TypeOK
<1>2. ASSUME NEW r \in B!RowIds, NEW g \in B!GivenRow, row' = B!Save(row, r, g)
      PROVE  B!IsTable(row', B!RowIds, B!GivenRow)
  BY <1>1, <1>2, StoredTable
<1>3. CASE row' = row
  BY <1>1, <1>3
<1>4. CASE LessRows
  BY <1>4 DEF LessRows
<1>5. CASE Tells(h)
  BY <1>2, <1>5 DEF Tells
<1>6. CASE Gives(h)
  BY <1>2, <1>6 DEF Gives
<1>7. QED
  BY <1>3, <1>4, <1>5, <1>6, StepIs
     DEF Still, Looks, Loses, Asks, Sheds, Removes, Finds, Strikes, FindsAll, Assigns, Reads

LEMMA TaskTable ==
    ASSUME RowsKnown, NEW h \in Requests, BoardStep(h)
    PROVE  /\ B!IsTable(task', B!TaskIds, B!TaskRow) /\ DOMAIN task' \subseteq B!Seen'
           /\ DOMAIN task \subseteq DOMAIN task' \/ Removes(h)
<1>1. BoardMoves(h) /\ DOMAIN task \subseteq B!Seen
  BY StepIs DEF Good, RowsKnown, B!HadInv
<1>2. B!Seen \subseteq B!Seen'
  BY <1>1, SeenGrows
<1>3. CASE task' = task
  BY <1>1, <1>3, TaskSame
<1>4. CASE Still(h)
  BY <1>4 DEF Still
<1>5. CASE Removes(h)
  BY <1>1, <1>2, <1>5 DEF Removes
<1>6. QED
  BY <1>3, <1>4, <1>5, StepIs
     DEF Tells, Looks, Loses, Asks, Sheds, Finds, Strikes, FindsAll, Assigns, Reads, Gives

LEMMA TypesNext ==
    ASSUME RowsKnown, NEW h \in Requests, BoardStep(h)
    PROVE  B!TypeOK' /\ B!VarsInv'
<1>1. BoardMoves(h) /\ CategoriesOK'
  BY StepIs DEF Good
<1>2. DOMAIN boardCall \subseteq Requests
  BY DEF RowsKnown, B!TypeOK
<1>3. QED
  BY <1>1, <1>2, RowTable, TaskTable DEF B!TypeOK, BoardMoves, CategoriesOK
-----------------------------------------------------------------------------
(* The calls and what they hold.                                           *)
LEMMA OtherIs ==
    ASSUME NEW h \in Requests, BoardMoves(h), NEW x \in Requests, x # h
    PROVE  /\ boardPc'[x] = boardPc[x] /\ boardVar'[x] = boardVar[x]
           /\ x \in DOMAIN boardCall' <=> x \in DOMAIN boardCall
           /\ x \in DOMAIN boardCall => boardCall'[x] = boardCall[x]
  BY DEF BoardMoves, OthersStay

LEMMA BoardCallsNext ==
    ASSUME RowsKnown, NEW h \in Requests, BoardStep(h)
    PROVE  B!CallsInv'
<1>1. BoardMoves(h) /\ B!Placed(h)'
  BY StepIs DEF Good
<1>2. B!CallsInv /\ DOMAIN boardCall \subseteq Requests
  BY DEF RowsKnown, B!TypeOK
<1>3. \A x \in Requests : boardPc'[x] = "idle" <=> x \notin DOMAIN boardCall'
  <2>1. TAKE x \in Requests
  <2>2. CASE x = h
    BY <1>1, <2>2 DEF BoardMoves
  <2>3. CASE x # h
    BY <1>1, <1>2, <2>3, OtherIs DEF B!CallsInv
  <2>4. QED
    BY <2>2, <2>3
<1>4. \A x \in B!Busy' \ {h} : x \in B!Busy
  BY <1>1, <1>2, OtherIs DEF B!Busy, BoardMoves
<1>5. ASSUME NEW x \in B!Busy', x # h
      PROVE  {h, x} \in boardCrossed'
  <2>1. x \in B!Busy
    BY <1>4, <1>5
  <2>2. CASE boardPc[h] = "idle"
    BY <1>1, <2>1, <2>2 DEF BoardMoves
  <2>3. CASE boardPc[h] # "idle"
    <3>1. h \in B!Busy
      BY <1>1, <2>3 DEF BoardMoves, B!Busy
    <3>2. {h, x} \in boardCrossed
      BY <1>2, <1>5, <2>1, <3>1 DEF B!CallsInv
    <3>3. QED
      BY <1>1, <3>2 DEF BoardMoves
  <2>4. QED
    BY <2>2, <2>3
<1>6. \A g, x \in B!Busy' : g = x \/ {g, x} \in boardCrossed'
  <2>1. TAKE g, x \in B!Busy'
  <2>2. CASE g = h
    BY <1>5, <2>2
  <2>3. CASE x = h
    <3>1. {g, x} = {x, g}
      OBVIOUS
    <3>2. QED
      BY <1>5, <2>3, <3>1
  <2>4. CASE g # h /\ x # h
    <3>1. g \in B!Busy /\ x \in B!Busy
      BY <1>4, <2>4
    <3>2. QED
      BY <1>1, <1>2, <3>1 DEF B!CallsInv, BoardMoves
  <2>5. QED
    BY <2>2, <2>3, <2>4
<1>7. \A x \in DOMAIN boardCall' : B!Placed(x)'
  <2>1. TAKE x \in DOMAIN boardCall'
  <2>2. CASE x = h
    BY <1>1, <2>2
  <2>3. CASE x # h
    <3>1. x \in DOMAIN boardCall /\ x \in Requests
      BY <1>1, <1>2, <2>3 DEF BoardMoves
    <3>2. B!Placed(x) /\ boardPc'[x] = boardPc[x] /\ boardCall'[x] = boardCall[x]
      BY <1>1, <1>2, <2>3, <3>1, OtherIs DEF B!CallsInv
    <3>3. QED
      BY <3>2 DEF B!Placed
  <2>4. QED
    BY <2>2, <2>3
<1>8. QED
  BY <1>3, <1>6, <1>7 DEF B!CallsInv

LEMMA HoldingNext ==
    ASSUME RowsKnown, NEW h \in Requests, BoardStep(h)
    PROVE  B!HoldingInv'
<1>1. BoardMoves(h) /\ B!Holding(h)'
  BY StepIs DEF Good
<1>2. B!Seen \subseteq B!Seen'
  BY <1>1, SeenGrows
<1>3. ASSUME NEW x \in Requests, x # h
      PROVE  B!Holding(x)'
  <2>1. boardPc'[x] = boardPc[x] /\ boardVar'[x] = boardVar[x]
    BY <1>1, <1>3, OtherIs
  <2>2. boardPc[x] # "idle" => boardCall'[x] = boardCall[x]
    BY <1>1, <1>3, OtherIs, HoldsOf
  <2>3. B!Holding(x)
    BY HoldsOf
  <2>4. CASE boardPc[x] = "idle"
    BY <2>1, <2>3, <2>4 DEF B!Holding, B!Writing, B!Giving, B!Striking
  <2>5. CASE boardPc[x] # "idle"
    <3>1. boardCall'[x] = boardCall[x]
      BY <2>2, <2>5
    <3>2. QED
      BY <1>2, <2>1, <2>3, <3>1 DEF B!Holding
  <2>6. QED
    BY <2>4, <2>5
<1>4. QED
  BY <1>1, <1>3 DEF B!HoldingInv
-----------------------------------------------------------------------------
(* The rows that have been stored.                                         *)
LEMMA GivingIs ==
    ASSUME RowsKnown, NEW h \in Requests, BoardStep(h), NEW x \in Requests,
               boardPc'[x] \in B!Giving,
           NEW r \in DOMAIN boardVar'[x].rows
    PROVE  \E t \in B!TaskIds \cup {B!None} : r = <<x, t>>
<1>1. B!Holding(x)'
  BY HoldingNext DEF B!HoldingInv
<1>2. B!IsTable(boardVar'[x].rows, B!RowIds, B!GivenRow) /\ r = <<x, boardVar'[x].rows[r].task>>
  BY <1>1 DEF B!Holding
<1>3. boardVar'[x].rows[r] \in B!GivenRow
  BY <1>2, IsRow
<1>4. QED
  BY <1>2, <1>3 DEF B!GivenRow

LEMMA RowSaved ==
    ASSUME NEW q, NEW g, row' = B!Save(row, q, g)
    PROVE  /\ DOMAIN row' = DOMAIN row \cup {q} /\ row'[q] = g
           /\ \A y \in DOMAIN row : y # q => row'[y] = row[y]
  BY DEF B!Save

(* The id of a row a call would give is of no row that has been stored.    *)
LEMMA NotYet ==
    ASSUME RowsKnown, NEW h \in Requests, h \notin DOMAIN boardCall, NEW t \in B!TaskIds
               \cup {B!None}
    PROVE  ~B!Had(<<h, t>>)
<1>1. <<h, t>> \notin Given
  BY NewRowIds DEF B!TaskIds, B!None
<1>2. QED
  BY <1>1 DEF B!Had

LEMMA HadStays ==
    ASSUME RowsKnown, NEW h \in Requests, BoardStep(h), NEW r, B!Had(r)
    PROVE  B!Had(r)'
<1>1. BoardMoves(h) /\ DOMAIN boardCall \subseteq Requests
  BY StepIs DEF Good, RowsKnown, B!TypeOK
<1>2. r \in Given \/ \E x \in DOMAIN boardCall', t \in B!TaskIds \cup {B!None} : r = <<x, t>>
  BY <1>1 DEF B!Had, BoardMoves
<1>3. ASSUME NEW x \in DOMAIN boardCall', x # h, boardPc'[x] \in B!Giving
      PROVE  r \notin DOMAIN boardVar'[x].rows
  BY <1>1, <1>3, OtherIs DEF B!Had, BoardMoves
<1>4. ASSUME boardPc'[h] \in B!Giving
      PROVE  r \notin DOMAIN boardVar'[h].rows
  <2>1. Assigns(h) \/ Reads(h) \/ Gives(h)
    BY <1>4, StepIs DEF B!Giving, B!Removing, Still, Tells, Looks, Loses, Asks, Sheds, Removes,
        Finds,
       Strikes, FindsAll
  <2>2. CASE Assigns(h)
    <3>1. h \notin DOMAIN boardCall
      BY <1>1, <2>2 DEF Assigns, BoardMoves
    <3>2. SUFFICES ASSUME r \in DOMAIN boardVar'[h].rows
                   PROVE  FALSE
      OBVIOUS
    <3>3. QED
      BY <1>4, <3>1, <3>2, GivingIs, NotYet
  <2>3. CASE Reads(h) \/ Gives(h)
    <3>1. boardPc[h] \in B!Giving /\ h \in DOMAIN boardCall
              /\ DOMAIN boardVar'[h].rows \subseteq DOMAIN boardVar[h].rows
      BY <1>1, <2>3 DEF Reads, Gives, BoardMoves, B!Giving
    <3>2. QED
      BY <3>1 DEF B!Had
  <2>4. QED
    BY <2>1, <2>2, <2>3
<1>5. QED
  BY <1>2, <1>3, <1>4 DEF B!Had

LEMMA NowHad ==
    ASSUME RowsKnown, NEW h \in Requests, BoardStep(h), NEW t \in B!TaskIds \cup {B!None},
           boardPc'[h] \in B!Giving => <<h, t>> \notin DOMAIN boardVar'[h].rows
    PROVE  B!Had(<<h, t>>)'
<1>1. BoardMoves(h) /\ DOMAIN boardCall \subseteq Requests
  BY StepIs DEF Good, RowsKnown, B!TypeOK
<1>2. h \in DOMAIN boardCall'
  BY <1>1 DEF BoardMoves
<1>3. ASSUME NEW x \in DOMAIN boardCall', boardPc'[x] \in B!Giving
      PROVE  <<h, t>> \notin DOMAIN boardVar'[x].rows
  <2>1. x \in Requests
    BY <1>1 DEF BoardMoves
  <2>2. QED
    BY <1>3, <2>1, GivingIs
<1>4. QED
  BY <1>2, <1>3 DEF B!Had

LEMMA WrittenHad ==
    ASSUME RowsKnown, NEW h \in Requests, BoardStep(h), NEW r \in DOMAIN row'
    PROVE  B!Had(r)' /\ row'[r].task \in B!Seen'
<1>1. BoardMoves(h)
  BY StepIs DEF Good
<1>2. B!Seen \subseteq B!Seen'
  BY <1>1, SeenGrows
<1>3. CASE r \in DOMAIN row /\ row'[r] = row[r]
  <2>1. B!Had(r) /\ row[r].task \in B!Seen
    BY <1>3 DEF RowsKnown, B!HadInv
  <2>2. QED
    BY <1>2, <1>3, <2>1, HadStays
<1>4. CASE Tells(h)
  <2>1. PICK q \in B!RowIds, g \in B!GivenRow :
         /\ row' = B!Save(row, q, g) /\ g.task \in B!Seen'
         /\ boardPc'[h] = "check"
         /\ \/ boardPc[h] = "idle" /\ q = <<h, g.task>>
            \/ boardPc[h] = "put_save" /\ q \in boardCall[h].ids
    BY <1>4 DEF Tells
  <2>2. CASE r # q
    BY <1>3, <2>1, <2>2, RowSaved
  <2>3. CASE r = q
    <3>1. row'[r].task \in B!Seen'
      BY <2>1, <2>3, RowSaved
    <3>2. CASE boardPc[h] = "idle"
      <4>1. q = <<h, g.task>> /\ g.task \in B!TaskIds \cup {B!None} /\ boardPc'[h] \notin B!Giving
        BY <2>1, <3>2 DEF B!GivenRow, B!Giving
      <4>2. QED
        BY <2>3, <3>1, <4>1, NowHad
    <3>3. CASE boardPc[h] = "put_save"
      <4>1. B!Had(q)
        BY <1>1, <2>1, <3>3 DEF RowsKnown, B!HadInv, BoardMoves, B!Writing
      <4>2. QED
        BY <2>3, <3>1, <4>1, HadStays
    <3>4. QED
      BY <2>1, <3>2, <3>3
  <2>4. QED
    BY <2>2, <2>3
<1>5. CASE Gives(h)
  <2>1. PICK q \in B!RowIds, g \in B!GivenRow :
          /\ g.task \in B!Seen /\ q = <<h, g.task>>
          /\ row' = B!Save(row, q, g) /\ q \notin DOMAIN boardVar'[h].rows
    BY <1>5 DEF Gives
  <2>2. /\ DOMAIN row' = DOMAIN row \cup {q}
        /\ \A y \in DOMAIN row : y # q => row'[y] = row[y]
    BY <2>1, RowSaved
  <2>3. CASE r # q
    BY <1>3, <2>3, <2>2
  <2>4. CASE r = q
    <3>1. row'[r].task \in B!Seen'
      BY <1>2, <2>1, <2>4, RowSaved
    <3>2. g.task \in B!TaskIds \cup {B!None}
      BY <2>1 DEF B!GivenRow
    <3>3. QED
      BY <2>1, <2>4, <3>1, <3>2, NowHad
  <2>5. QED
    BY <2>3, <2>4
<1>6. QED
  BY <1>3, <1>4, <1>5, StepIs
     DEF Still, Looks, Loses, Asks, Sheds, Removes, Finds, Strikes, FindsAll, Assigns, Reads,
         LessRows

LEMMA HadNext ==
    ASSUME RowsKnown, NEW h \in Requests, BoardStep(h)
    PROVE  B!HadInv'
<1>1. BoardMoves(h) /\ B!Holding(h)' /\ DOMAIN boardCall \subseteq Requests /\ B!HadInv
  BY StepIs DEF Good, RowsKnown, B!TypeOK
<1>2. ASSUME NEW x \in DOMAIN boardCall', x # h
      PROVE  /\ boardPc'[x] \in B!Removing => \A r \in boardVar'[x].todo : B!Had(r)'
             /\ boardPc'[x] \in B!Writing => \A r \in boardCall'[x].ids : B!Had(r)'
  <2>1. /\ x \in DOMAIN boardCall /\ boardPc'[x] = boardPc[x] /\ boardVar'[x] = boardVar[x]
            /\ boardCall'[x] = boardCall[x]
    BY <1>1, <1>2, OtherIs DEF BoardMoves
  <2>2. /\ boardPc[x] \in B!Removing => \A r \in boardVar[x].todo : B!Had(r)
        /\ boardPc[x] \in B!Writing => \A r \in boardCall[x].ids : B!Had(r)
    BY <1>1, <2>1 DEF B!HadInv
  <2>3. QED
    BY <2>1, <2>2, HadStays
<1>3. ASSUME boardPc'[h] \in B!Removing, NEW r \in boardVar'[h].todo
      PROVE  B!Had(r)'
  <2>1. Asks(h) \/ Sheds(h) \/ Finds(h) \/ FindsAll(h)
    BY <1>3, StepIs DEF B!Giving, B!Removing, Still, Tells, Looks, Loses, Removes, Strikes, Assigns,
       Reads, Gives
  <2>2. CASE Asks(h) \/ Finds(h) \/ FindsAll(h)
    <3>1. r \in DOMAIN row
      BY <1>3, <2>2 DEF Asks, Finds, FindsAll, B!Struck
    <3>2. QED
      BY <1>1, <3>1, HadStays DEF B!HadInv
  <2>3. CASE Sheds(h)
    <3>1. h \in DOMAIN boardCall /\ boardPc[h] \in B!Removing /\ r \in boardVar[h].todo
      BY <1>1, <1>3, <2>3 DEF Sheds, BoardMoves, B!Removing
    <3>2. QED
      BY <1>1, <3>1, HadStays DEF B!HadInv
  <2>4. QED
    BY <2>1, <2>2, <2>3
<1>4. ASSUME boardPc'[h] \in B!Writing, NEW r \in boardCall'[h].ids
      PROVE  B!Had(r)'
  <2>1. Still(h) \/ Tells(h)
    BY <1>4, StepIs DEF B!Giving, B!Removing, B!Writing, Looks, Loses, Asks, Sheds, Removes, Finds,
       Strikes, FindsAll, Assigns, Reads, Gives
  <2>2. CASE Still(h)
    BY <1>1, <1>4, <2>2, HadStays DEF Still, B!HadInv
  <2>3. CASE Tells(h)
    <3>1. PICK q \in B!RowIds : boardCall'[h].ids = {q}
      BY <1>1, <1>4 DEF B!Holding
    <3>2. \E g : row' = B!Save(row, r, g)
      BY <1>4, <2>3, <3>1 DEF Tells
    <3>3. r \in DOMAIN row'
      BY <3>2, RowSaved
    <3>4. QED
      BY <3>3, WrittenHad
  <2>4. QED
    BY <2>1, <2>2, <2>3
<1>5. \A x \in DOMAIN boardCall' :
         /\ boardPc'[x] \in B!Removing => \A r \in boardVar'[x].todo : B!Had(r)'
         /\ boardPc'[x] \in B!Writing => \A r \in boardCall'[x].ids : B!Had(r)'
  BY <1>2, <1>3, <1>4
<1>6. DOMAIN task' \subseteq B!Seen'
  BY TaskTable
<1>7. QED
  BY <1>5, <1>6, WrittenHad DEF B!HadInv
-----------------------------------------------------------------------------
(* The rows to remove are those that were asked for.                       *)
LEMMA BoardCrossedGrows ==
    ASSUME NEW h, BoardMoves(h), NEW x, NEW ops, B!Crossed(x, ops)
    PROVE  B!Crossed(x, ops)'
<1>1. PICK y \in B!Made(ops) \ {x} : {x, y} \in boardCrossed
  BY DEF B!Crossed
<1>2. y \in B!Made(ops)' \ {x}
  BY <1>1 DEF B!Made, BoardMoves
<1>3. {x, y} \in boardCrossed'
  BY <1>1 DEF BoardMoves
<1>4. QED
  BY <1>2, <1>3 DEF B!Crossed

LEMMA BusyCross ==
    ASSUME RowsKnown, NEW h \in Requests, BoardMoves(h),
               boardPc[h] \in B!InFlight, NEW x \in B!Busy, x # h
    PROVE  {x, h} \in boardCrossed /\ {h, x} \in boardCrossed
<1>1. h \in DOMAIN boardCall /\ B!CallsInv
  BY DEF BoardMoves, B!InFlight, RowsKnown
<1>2. h \in B!Busy
  BY <1>1 DEF B!Busy
<1>3. QED
  BY <1>1, <1>2 DEF B!CallsInv

LEMMA OthersMeant ==
    ASSUME RowsKnown, B!RemovalInv, NEW h \in Requests, BoardStep(h), NEW x \in DOMAIN boardCall',
               x # h,
           NEW r \in boardVar'[x].todo \cap DOMAIN row'
    PROVE  B!Meant(x, r)'
<1>1. BoardMoves(h) /\ DOMAIN boardCall \subseteq Requests /\ B!HadInv
  BY StepIs DEF Good, RowsKnown, B!TypeOK
<1>2. x \in DOMAIN boardCall /\ x \in Requests /\ r \in boardVar[x].todo
      /\ boardPc'[x] = boardPc[x] /\ boardVar'[x] = boardVar[x] /\ boardCall'[x] = boardCall[x]
  BY <1>1, OtherIs DEF BoardMoves
<1>3. r \in DOMAIN row'
  OBVIOUS
<1>4. CASE r \in DOMAIN row /\ row'[r] = row[r]
  <2>1. B!Meant(x, r)
    BY <1>2, <1>4 DEF B!RemovalInv
  <2>2. B!Crossed(x, {"put"}) => B!Crossed(x, {"put"})'
    BY <1>1, BoardCrossedGrows
  <2>3. QED
    BY <1>2, <1>4, <2>1, <2>2 DEF B!Meant
<1>5. CASE boardPc[x] \in {"sweep", "strike_rows"}
  <2>1. B!Had(r) /\ x \in B!Busy
    BY <1>1, <1>2, <1>5 DEF B!HadInv, B!Removing, B!Busy, B!InFlight
  <2>2. CASE Tells(h)
    <3>1. PICK q \in B!RowIds, g \in B!GivenRow :
           /\ row' = B!Save(row, q, g)
           /\ \/ boardPc[h] = "idle" /\ q = <<h, g.task>>
              \/ boardPc[h] = "put_save" /\ boardCall[h].op = "put"
      BY <2>2 DEF Tells
    <3>2. /\ DOMAIN row' = DOMAIN row \cup {q}
          /\ \A y \in DOMAIN row : y # q => row'[y] = row[y]
      BY <3>1, RowSaved
    <3>3. CASE r # q
      <4>1. r \in DOMAIN row /\ row'[r] = row[r]
        BY <1>3, <3>3, <3>2
      <4>2. QED
        BY <1>4, <4>1
    <3>4. CASE r = q /\ boardPc[h] = "idle"
      <4>1. h \notin DOMAIN boardCall /\ r = <<h, g.task>> /\ g.task \in B!TaskIds \cup {B!None}
        BY <1>1, <3>1, <3>4 DEF BoardMoves, B!GivenRow
      <4>2. QED
        BY <2>1, <4>1, NotYet
    <3>5. CASE boardPc[h] = "put_save" /\ boardCall[h].op = "put"
      <4>1. boardPc[h] \in B!InFlight /\ h \in DOMAIN boardCall
        BY <1>1, <3>5 DEF B!InFlight, BoardMoves
      <4>2. {x, h} \in boardCrossed
        BY <1>1, <2>1, <4>1, BusyCross
      <4>3. B!Crossed(x, {"put"})
        BY <3>5, <4>1, <4>2 DEF B!Crossed, B!Made
      <4>4. B!Crossed(x, {"put"})'
        BY <1>1, <4>3, BoardCrossedGrows
      <4>5. QED
        BY <4>4 DEF B!Meant
    <3>6. QED
      BY <3>1, <3>3, <3>4, <3>5
  <2>3. CASE Gives(h)
    <3>1. PICK q, g : q \in DOMAIN boardVar[h].rows /\ row' = B!Save(row, q, g)
      BY <2>3 DEF Gives
    <3>2. /\ DOMAIN row' = DOMAIN row \cup {q}
          /\ \A y \in DOMAIN row : y # q => row'[y] = row[y]
      BY <3>1, RowSaved
    <3>3. h \in DOMAIN boardCall /\ boardPc[h] \in B!Giving
      BY <1>1, <2>3 DEF Gives, BoardMoves, B!Giving
    <3>4. r # q
      BY <2>1, <3>1, <3>3 DEF B!Had
    <3>5. r \in DOMAIN row /\ row'[r] = row[r]
      BY <1>3, <3>4, <3>2
    <3>6. QED
      BY <1>4, <3>5
  <2>4. QED
    BY <1>4, <2>2, <2>3, StepIs
       DEF Still, Looks, Loses, Asks, Sheds, Removes, Finds, Strikes, FindsAll, Assigns, Reads,
           LessRows
<1>6. CASE boardPc[x] \notin {"sweep", "strike_rows"}
  BY <1>2, <1>6 DEF B!Meant
<1>7. QED
  BY <1>5, <1>6

LEMMA RemovalNext ==
    ASSUME RowsKnown, B!RemovalInv, NEW h \in Requests, BoardStep(h)
    PROVE  B!RemovalInv'
<1>1. BoardMoves(h)
  BY StepIs DEF Good
<1>2. ASSUME NEW r \in boardVar'[h].todo \cap DOMAIN row'
      PROVE  B!Meant(h, r)'
  <2>1. CASE Asks(h)
    BY <1>2, <2>1 DEF Asks, B!Meant
  <2>2. CASE Sheds(h)
    <3>1. CASE boardPc'[h] = "done"
      BY <3>1 DEF B!Meant
    <3>2. CASE boardPc'[h] = boardPc[h]
      <4>1. /\ r \in boardVar[h].todo \cap DOMAIN row /\ row'[r] = row[r] /\ boardCall' = boardCall
            /\ boardPc[h] \in {"sweep", "wipe"}
        BY <1>2, <2>2, <3>2 DEF Sheds, LessRows
      <4>2. h \in DOMAIN boardCall
        BY <1>1, <4>1 DEF BoardMoves
      <4>3. B!Meant(h, r)
        BY <4>1, <4>2 DEF B!RemovalInv
      <4>4. B!Crossed(h, {"put"}) => B!Crossed(h, {"put"})'
        BY <1>1, BoardCrossedGrows
      <4>5. QED
        BY <3>2, <4>1, <4>3, <4>4 DEF B!Meant
    <3>3. QED
      BY <2>2, <3>1, <3>2 DEF Sheds
  <2>3. CASE Finds(h)
    BY <1>2, <2>3 DEF Finds, B!Meant, B!Struck
  <2>4. CASE boardPc'[h] \notin {"sweep", "strike_rows"}
    BY <2>4 DEF B!Meant
  <2>5. QED
    BY <2>1, <2>2, <2>3, <2>4, StepIs DEF B!Giving, B!Removing, Still, Tells, Looks, Loses, Removes,
       Strikes, FindsAll, Assigns, Reads, Gives
<1>3. QED
  BY <1>2, OthersMeant DEF B!RemovalInv
-----------------------------------------------------------------------------
(* A row names a stored task.                                              *)
LEMMA WrittenStays ==
    ASSUME RowsKnown, NEW h \in Requests, BoardStep(h), NEW r, NEW t, t \notin DOMAIN task
               \cup {B!None},
           B!Written(r, t)
    PROVE  B!Written(r, t)'
<1>1. BoardMoves(h) /\ DOMAIN boardCall \subseteq Requests
  BY StepIs DEF Good, RowsKnown, B!TypeOK
<1>2. PICK g \in B!Made({"post", "put"}) :
        /\ r \in boardCall[g].ids
        /\ boardPc[g] = "failed" \/ (boardPc[g] \in B!Writing /\ boardVar[g].rows[r].task = t)
  BY DEF B!Written
<1>3. g \in DOMAIN boardCall /\ boardCall[g].op \in {"post", "put"} /\ boardCall'[g] = boardCall[g]
      /\ g \in B!Made({"post", "put"})'
  BY <1>1, <1>2 DEF B!Made, BoardMoves
<1>4. boardPc'[g] = "failed" \/ (boardPc'[g] \in B!Writing /\ boardVar'[g].rows[r].task = t)
  <2>1. CASE g # h
    BY <1>1, <1>2, <1>3, <2>1, OtherIs
  <2>2. CASE g = h
    <3>1. boardPc[h] \in B!Writing /\ boardVar[h].rows[r].task = t
      BY <1>1, <1>2, <2>2 DEF BoardMoves, B!InFlight
    <3>2. Still(h) \/ Tells(h) \/ Looks(h)
      BY <3>1, StepIs DEF B!Writing, Loses, Asks, Sheds, Removes, Finds, Strikes, FindsAll, Assigns,
         Reads, Gives
    <3>3. CASE Still(h)
      BY <2>2, <3>1, <3>3 DEF Still
    <3>4. CASE Tells(h)
      <4>1. boardPc'[h] = "check" /\ boardVar' = boardVar
        BY <3>1, <3>4 DEF Tells, B!Writing
      <4>2. QED
        BY <2>2, <3>1, <4>1 DEF B!Writing
    <3>5. CASE Looks(h)
      <4>1. boardPc'[h] # "done"
        BY <1>2, <2>2, <3>1, <3>5 DEF Looks
      <4>2. QED
        BY <2>2, <3>5, <4>1 DEF Looks
    <3>6. QED
      BY <3>2, <3>3, <3>4, <3>5
  <2>3. QED
    BY <2>1, <2>2
<1>5. QED
  BY <1>2, <1>3, <1>4 DEF B!Written

LEMMA LeftStays ==
    ASSUME RowsKnown, NEW h \in Requests, BoardStep(h), NEW w \in DOMAIN boardCall,
           NEW r \in DOMAIN row \cap DOMAIN row', row'[r] = row[r],
           NEW t, t \notin DOMAIN task \cup {B!None}, B!Left(w, r, t),
           boardPc'[w] # "done" /\ r \in boardVar[w].todo => r \in boardVar'[w].todo,
           boardPc'[w] = "done" /\ boardPc[w] # "done" => r \notin boardVar[w].todo
    PROVE  B!Left(w, r, t)'
<1>1. BoardMoves(h)
  BY StepIs DEF Good
<1>2. boardCall'[w] = boardCall[w]
  BY <1>1 DEF BoardMoves
<1>3. CASE boardPc[w] # "done" /\ r \in boardVar[w].todo
  BY <1>3 DEF B!Left
<1>4. CASE B!Written(r, t)
  BY <1>4, WrittenStays DEF B!Left
<1>5. CASE B!Crossed(w, {"assign"})
  BY <1>1, <1>5, BoardCrossedGrows DEF B!Left
<1>6. CASE boardCall[w].op = "drop_task" /\ t \in boardCall[w].ids /\ ~boardCall[w].flag
               /\ row[r].completed
  BY <1>2, <1>6 DEF B!Left
<1>7. QED
  BY <1>3, <1>4, <1>5, <1>6 DEF B!Left

(* Of a call that removed a task: the rows that others write meanwhile.    *)
LEMMA OthersLeft ==
    ASSUME RowsKnown, NEW h \in Requests, BoardStep(h), NEW w \in DOMAIN boardCall, w # h,
           NEW t, t \notin DOMAIN task \cup {B!None}, NEW r \in DOMAIN row', row'[r].task = t,
           \A q \in DOMAIN row : row[q].task = t => B!Left(w, q, t),
           \A g \in DOMAIN boardCall : B!GivenBy(g, t) => {g, w} \in boardCrossed
    PROVE  B!Left(w, r, t)'
<1>1. BoardMoves(h) /\ DOMAIN boardCall \subseteq Requests
  BY StepIs DEF Good, RowsKnown, B!TypeOK
<1>2. boardPc'[w] = boardPc[w] /\ boardVar'[w] = boardVar[w]
  BY <1>1, OtherIs
<1>3. CASE r \in DOMAIN row /\ row'[r] = row[r]
  BY <1>2, <1>3, LeftStays
<1>4. CASE Tells(h)
  <2>1. PICK q \in B!RowIds, g \in B!GivenRow :
         /\ row' = B!Save(row, q, g) /\ boardPc'[h] = "check"
             /\ boardCall'[h].op \in {"post", "put"}
         /\ q \in boardCall'[h].ids /\ boardVar'[h].rows[q] = g
    BY <1>4 DEF Tells
  <2>2. /\ DOMAIN row' = DOMAIN row \cup {q} /\ row'[q] = g
        /\ \A y \in DOMAIN row : y # q => row'[y] = row[y]
    BY <2>1, RowSaved
  <2>3. CASE r # q
    BY <1>3, <2>2, <2>3
  <2>4. CASE r = q
    <3>1. h \in B!Made({"post", "put"})'
      BY <1>1, <2>1 DEF B!Made, BoardMoves
    <3>2. r \in boardCall'[h].ids /\ boardPc'[h] \in B!Writing /\ boardVar'[h].rows[r].task = t
      BY <2>1, <2>2, <2>4 DEF B!Writing
    <3>3. B!Written(r, t)'
      BY <3>1, <3>2 DEF B!Written
    <3>4. QED
      BY <3>3 DEF B!Left
  <2>5. QED
    BY <2>3, <2>4
<1>5. CASE Gives(h)
  <2>1. PICK q \in B!RowIds, g \in B!GivenRow :
         /\ row' = B!Save(row, q, g) /\ q = <<h, g.task>> /\ boardPc[h] = "assign_save"
         /\ boardCall[h].op = "assign" /\ q \in DOMAIN boardVar[h].rows \ boardVar[h].todo
    BY <1>5 DEF Gives
  <2>2. /\ DOMAIN row' = DOMAIN row \cup {q} /\ row'[q] = g
        /\ \A y \in DOMAIN row : y # q => row'[y] = row[y]
    <3>1. row' = B!Save(row, q, g)
      BY <2>1
    <3>2. QED
      BY <3>1, RowSaved
  <2>3. CASE r # q
    BY <1>3, <2>2, <2>3
  <2>4. CASE r = q
    <3>1. h \in DOMAIN boardCall /\ h \in B!Made({"assign"}) \ {w}
      BY <1>1, <2>1 DEF B!Made, BoardMoves
    <3>2. B!GivenBy(h, t)
      BY <2>1, <2>2, <2>4 DEF B!GivenBy, B!Giving
    <3>3. {h, w} \in boardCrossed /\ {h, w} = {w, h}
      BY <3>1, <3>2
    <3>4. B!Crossed(w, {"assign"})
      BY <3>1, <3>3 DEF B!Crossed
    <3>5. B!Crossed(w, {"assign"})'
      BY <1>1, <3>4, BoardCrossedGrows
    <3>6. QED
      BY <3>5 DEF B!Left
  <2>5. QED
    BY <2>3, <2>4
<1>6. QED
  BY <1>3, <1>4, <1>5, StepIs
     DEF Still, Looks, Loses, Asks, Sheds, Removes, Finds, Strikes, FindsAll, Assigns, Reads,
         LessRows

(* The rows that a step of the removing call itself leaves.                *)
LEMMA OwnLeft ==
    ASSUME RowsKnown, NEW h \in Requests, BoardStep(h),
               h \in B!Made({"drop_task", "drop_category"}),
           NEW t, t \notin DOMAIN task \cup {B!None}, NEW r \in DOMAIN row', row'[r].task = t,
           t \in boardCall[h].ids \cup DOMAIN boardVar[h].rows,
           boardPc'[h] \in {"strike_rows", "wipe", "done"},
           boardPc[h] \in {"strike_rows", "wipe", "done"} =>
             \A q \in DOMAIN row : row[q].task = t => B!Left(h, q, t)
    PROVE  B!Left(h, r, t)'
<1>1. BoardMoves(h) /\ h \in DOMAIN boardCall /\ boardCall[h].op \in {"drop_task", "drop_category"}
          /\ B!Placed(h)
  BY StepIs, HoldsOf DEF Good, B!Made
<1>2. boardCall' = boardCall /\ boardPc[h] # "idle"
  BY <1>1 DEF BoardMoves
<1>3. Sheds(h) \/ Finds(h) \/ Strikes(h) \/ FindsAll(h)
  <2>1. ~Still(h)
    BY <1>1, <1>2 DEF Still, B!Removing
  <2>2. ~Tells(h) /\ ~Looks(h) /\ ~Loses(h) /\ ~Asks(h) /\ ~Assigns(h) /\ ~Gives(h)
    BY <1>1, <1>2 DEF Tells, Looks, Loses, Asks, Assigns, Gives
  <2>3. ~Removes(h) /\ ~Reads(h)
    BY DEF Removes, Reads
  <2>4. QED
    BY <2>1, <2>2, <2>3, StepIs
<1>4. CASE Sheds(h)
  <2>1. boardPc[h] = "wipe"
    BY <1>1, <1>4 DEF Sheds, B!Placed
  <2>2. r \in DOMAIN row /\ row'[r] = row[r]
    BY <1>4 DEF Sheds, LessRows
  <2>3. B!Left(h, r, t)
    BY <2>1, <2>2
  <2>4. boardPc'[h] # "done" /\ r \in boardVar[h].todo => r \in boardVar'[h].todo
    BY <1>4 DEF Sheds
  <2>5. boardPc'[h] = "done" /\ boardPc[h] # "done" => r \notin boardVar[h].todo
    BY <1>4, <2>1 DEF Sheds
  <2>6. QED
    BY <1>1, <2>2, <2>3, <2>4, <2>5, LeftStays
<1>5. CASE Finds(h)
  <2>1. PICK u \in B!TaskIds : boardCall[h].ids = {u}
                                   /\ boardVar'[h].todo = B!Struck(u, boardCall[h].flag)
    BY <1>5 DEF Finds
  <2>2. t = u /\ row' = row /\ boardPc'[h] = "strike_rows" /\ boardCall[h].op = "drop_task"
    BY <1>5, <2>1 DEF Finds
  <2>3. CASE r \in boardVar'[h].todo
    BY <2>2, <2>3 DEF B!Left
  <2>4. CASE r \notin boardVar'[h].todo
    <3>1. ~boardCall[h].flag /\ row[r].completed
      BY <2>1, <2>2, <2>4 DEF B!Struck
    <3>2. QED
      BY <1>2, <2>1, <2>2, <3>1 DEF B!Left
  <2>5. QED
    BY <2>3, <2>4
<1>6. CASE Strikes(h)
  <2>1. boardPc[h] = "strike_rows" /\ boardPc'[h] = "done" /\ r \notin boardVar[h].todo
    BY <1>6 DEF Strikes
  <2>2. r \in DOMAIN row /\ row'[r] = row[r]
    BY <1>6 DEF Strikes, LessRows
  <2>3. B!Left(h, r, t)
    BY <2>1, <2>2
  <2>4. QED
    BY <1>1, <2>1, <2>2, <2>3, LeftStays
<1>7. CASE FindsAll(h)
  BY <1>7 DEF FindsAll, B!Left
<1>8. QED
  BY <1>3, <1>4, <1>5, <1>6, <1>7

LEMMA GivenByOf ==
    ASSUME RowsKnown, NEW h \in Requests, BoardStep(h), NEW t, t \notin DOMAIN task,
           NEW g \in DOMAIN boardCall', B!GivenBy(g, t)'
    PROVE  g \in DOMAIN boardCall /\ B!GivenBy(g, t)
<1>1. BoardMoves(h) /\ DOMAIN boardCall \subseteq Requests
  BY StepIs DEF Good, RowsKnown, B!TypeOK
<1>2. CASE g # h
  <2>1. g \in DOMAIN boardCall /\ boardPc'[g] = boardPc[g] /\ boardVar'[g] = boardVar[g]
    BY <1>1, <1>2, OtherIs DEF BoardMoves
  <2>2. QED
    BY <2>1 DEF B!GivenBy
<1>3. CASE g = h
  <2>1. boardPc'[h] \in B!Giving /\ <<h, t>> \in DOMAIN boardVar'[h].rows \ boardVar'[h].todo
    BY <1>3 DEF B!GivenBy
  <2>2. Reads(h) \/ Gives(h)
    BY <2>1, StepIs DEF B!Giving, B!Removing, Still, Tells, Looks, Loses, Asks, Sheds, Removes,
        Finds,
       Strikes, FindsAll, Assigns
  <2>3. boardPc[h] \in B!Giving /\ h \in DOMAIN boardCall
    BY <1>1, <2>2 DEF Reads, Gives, B!Giving, BoardMoves
  <2>4. CASE Reads(h)
    <3>1. PICK r \in boardVar[h].todo : r[2] \in DOMAIN task
                                            /\ boardVar'[h].todo = boardVar[h].todo \ {r}
      BY <2>4 DEF Reads
    <3>2. <<h, t>> # r
      BY <3>1
    <3>3. <<h, t>> \in DOMAIN boardVar[h].rows \ boardVar[h].todo
      BY <2>1, <2>4, <3>1, <3>2 DEF Reads
    <3>4. QED
      BY <1>3, <2>3, <3>3 DEF B!GivenBy
  <2>5. CASE Gives(h)
    <3>1. <<h, t>> \in DOMAIN boardVar[h].rows \ boardVar[h].todo
      BY <2>1, <2>5 DEF Gives
    <3>2. QED
      BY <1>3, <2>3, <3>1 DEF B!GivenBy
  <2>6. QED
    BY <2>2, <2>4, <2>5
<1>4. QED
  BY <1>2, <1>3

LEMMA CleansStays ==
    ASSUME RowsKnown, NEW h \in Requests, BoardStep(h), NEW t, t \notin DOMAIN task \cup {B!None},
           NEW w \in B!Made({"drop_task", "drop_category"}), B!Cleans(w, t)
    PROVE  B!Cleans(w, t)'
<1>1. /\ BoardMoves(h) /\ DOMAIN boardCall \subseteq Requests /\ w \in DOMAIN boardCall
          /\ w \in Requests
      /\ boardCall[w].op \in {"drop_task", "drop_category"} /\ B!Placed(w) /\ B!Holding(w)
  BY StepIs, HoldsOf DEF Good, RowsKnown, B!TypeOK, B!Made
<1>2. boardCall'[w] = boardCall[w]
          /\ (w # h => boardPc'[w] = boardPc[w] /\ boardVar'[w] = boardVar[w])
  BY <1>1, OtherIs DEF BoardMoves
<1>3. t \in boardCall'[w].ids \cup DOMAIN boardVar'[w].rows
  <2>1. t \in boardCall[w].ids \cup DOMAIN boardVar[w].rows
    BY DEF B!Cleans
  <2>2. CASE w # h
    BY <1>2, <2>1, <2>2
  <2>3. CASE w = h
    <3>1. boardPc[h] # "idle" /\ boardCall' = boardCall
      BY <1>1, <2>3 DEF BoardMoves
    <3>2. CASE boardPc[h] = "category_find"
      BY <1>1, <1>2, <2>1, <2>3, <3>2 DEF B!Holding
    <3>3. CASE boardPc[h] # "category_find"
      <4>1. ~Asks(h) /\ ~Assigns(h) /\ ~Loses(h) /\ ~Tells(h) /\ ~Gives(h)
        BY <1>1, <2>3, <3>1 DEF Asks, Assigns, Loses, Tells, Gives
      <4>2. boardVar'[h].rows = boardVar[h].rows
        BY <3>1, <3>3, <4>1, StepIs DEF Still, Looks, Sheds, Removes, Finds, Strikes, FindsAll,
            Reads
      <4>3. QED
        BY <1>2, <2>1, <2>3, <4>2
    <3>4. QED
      BY <3>2, <3>3
  <2>4. QED
    BY <2>2, <2>3
<1>4. \A g \in DOMAIN boardCall' : B!GivenBy(g, t)' => {g, w} \in boardCrossed'
  <2>1. SUFFICES ASSUME NEW g \in DOMAIN boardCall', B!GivenBy(g, t)'
                 PROVE  {g, w} \in boardCrossed'
    OBVIOUS
  <2>2. g \in DOMAIN boardCall /\ B!GivenBy(g, t)
    BY <2>1, GivenByOf
  <2>3. {g, w} \in boardCrossed
    BY <2>2 DEF B!Cleans
  <2>4. QED
    BY <1>1, <2>3 DEF BoardMoves
<1>5. ASSUME boardPc'[w] \in {"strike_rows", "wipe", "done"}, NEW r \in DOMAIN row',
                 row'[r].task = t
      PROVE  B!Left(w, r, t)'
  <2>1. CASE w # h
    <3>1. \A q \in DOMAIN row : row[q].task = t => B!Left(w, q, t)
      BY <1>2, <1>5, <2>1 DEF B!Cleans
    <3>2. \A g \in DOMAIN boardCall : B!GivenBy(g, t) => {g, w} \in boardCrossed
      BY DEF B!Cleans
    <3>3. QED
      BY <1>1, <1>5, <2>1, <3>1, <3>2, OthersLeft
  <2>2. CASE w = h
    <3>1. boardPc[h] \in {"strike_rows", "wipe", "done"} =>
             \A q \in DOMAIN row : row[q].task = t => B!Left(h, q, t)
      BY <2>2 DEF B!Cleans
    <3>2. t \in boardCall[h].ids \cup DOMAIN boardVar[h].rows
              /\ h \in B!Made({"drop_task", "drop_category"})
      BY <2>2 DEF B!Cleans
    <3>3. boardPc'[h] \in {"strike_rows", "wipe", "done"}
      BY <1>5, <2>2
    <3>4. B!Left(h, r, t)'
      BY <1>5, <3>1, <3>2, <3>3, OwnLeft
    <3>5. QED
      BY <2>2, <3>4
  <2>3. QED
    BY <2>1, <2>2
<1>6. QED
  BY <1>3, <1>4, <1>5 DEF B!Cleans

LEMMA NowCleans ==
    ASSUME RowsKnown, NEW h \in Requests, BoardStep(h),
               Removes(h), NEW t \in DOMAIN task \ DOMAIN task'
    PROVE  h \in B!Made({"drop_task", "drop_category"})' /\ B!Cleans(h, t)'
<1>1. BoardMoves(h) /\ DOMAIN boardCall \subseteq Requests
  BY StepIs DEF Good, RowsKnown, B!TypeOK
<1>2. h \in DOMAIN boardCall /\ boardPc[h] \in B!InFlight
  BY <1>1 DEF Removes, BoardMoves, B!InFlight
<1>3. h \in B!Made({"drop_task", "drop_category"})'
  BY <1>2 DEF Removes, B!Made
<1>4. t \in boardCall'[h].ids \cup DOMAIN boardVar'[h].rows
  BY DEF Removes
<1>5. ASSUME NEW g \in DOMAIN boardCall', B!GivenBy(g, t)'
      PROVE  {g, h} \in boardCrossed'
  <2>1. g # h
    BY <1>5 DEF B!GivenBy, Removes, B!Giving
  <2>2. g \in DOMAIN boardCall /\ boardPc[g] = boardPc'[g] /\ boardPc'[g] \in B!Giving
    BY <1>1, <1>5, <2>1, OtherIs DEF BoardMoves, B!GivenBy
  <2>3. g \in B!Busy
    BY <2>2 DEF B!Busy, B!Giving, B!InFlight
  <2>4. {g, h} \in boardCrossed
    BY <1>1, <1>2, <2>1, <2>3, BusyCross
  <2>5. QED
    BY <1>1, <2>4 DEF BoardMoves
<1>6. boardPc'[h] \notin {"strike_rows", "wipe", "done"}
  BY DEF Removes
<1>7. QED
  BY <1>3, <1>4, <1>5, <1>6 DEF B!Cleans

LEMMA StoredNext ==
    ASSUME RowsKnown, B!StoredInv, NEW h \in Requests, BoardStep(h)
    PROVE  B!StoredInv'
<1>1. BoardMoves(h)
  BY StepIs DEF Good
<1>2. ASSUME NEW t \in B!Seen' \ (DOMAIN task' \cup {B!None})
      PROVE  \E w \in B!Made({"drop_task", "drop_category"})' : B!Cleans(w, t)'
  <2>1. t \in B!Seen
    <3>1. SUFFICES ASSUME t \notin B!Seen
                   PROVE  FALSE
      OBVIOUS
    <3>2. t \in DOMAIN boardCall' /\ boardCall'[t].op = "post_task" /\ t \notin Tasks \cup {B!None}
      BY <3>1 DEF B!Seen
    <3>3. t = h /\ boardPc[h] = "idle"
      BY <1>1, <3>1, <3>2 DEF BoardMoves, B!Seen
    <3>4. Still(h)
      BY <3>2, <3>3, StepIs DEF Tells, Looks, Loses, Asks, Sheds, Removes, Finds, Strikes, FindsAll,
         Assigns, Reads, Gives
    <3>5. t \in DOMAIN task'
      BY <3>2, <3>3, <3>4 DEF Still
    <3>6. QED
      BY <3>5
  <2>2. CASE t \in DOMAIN task
    <3>1. Removes(h)
      BY <2>2, TaskTable
    <3>2. QED
      BY <2>2, <3>1, NowCleans
  <2>3. CASE t \notin DOMAIN task
    <3>1. PICK w \in B!Made({"drop_task", "drop_category"}) : B!Cleans(w, t)
      BY <2>1, <2>3 DEF B!StoredInv
    <3>2. w \in B!Made({"drop_task", "drop_category"})'
      BY <1>1 DEF B!Made, BoardMoves
    <3>3. B!Cleans(w, t)'
      BY <2>3, <3>1, CleansStays
    <3>4. QED
      BY <3>2, <3>3
  <2>4. QED
    BY <2>2, <2>3
<1>3. QED
  BY <1>2 DEF B!StoredInv
-----------------------------------------------------------------------------
(* The invariant.                                                          *)
LEMMA BoardInitHolds == B!Init => B!IInv
<1> SUFFICES ASSUME B!Init
             PROVE  B!IInv
  OBVIOUS
<1>1. /\ category = {Category} /\ boardPc = [h \in Requests |-> "idle"] /\ boardCall = B!NoRows
      /\ boardVar = [h \in Requests |-> B!Idle] /\ boardCrossed = {}
      /\ row \in [Given -> [emp: Employees, task: Tasks \cup {B!None}, completed: BOOLEAN]]
  BY DEF B!Init
<1>2. DOMAIN boardCall = {} /\ DOMAIN B!NoRows = {}
  BY <1>1 DEF B!NoRows
<1>3. PICK c \in [Tasks -> {Category, B!None}], type \in [Tasks -> {"on", "off"}] :
        task = [t \in Tasks |-> [type |-> type[t], category |-> c[t]]]
  BY DEF B!Init
<1>4. B!IsTable(task, B!TaskIds, B!TaskRow) /\ DOMAIN task = Tasks
  <2>1. \A t \in Tasks : [type |-> type[t], category |-> c[t]] \in B!TaskRow
    BY <1>3 DEF B!TaskRow
  <2>2. QED
    BY <1>3, <2>1 DEF B!IsTable, B!TaskIds
<1>5. B!IsTable(row, B!RowIds, B!GivenRow) /\ DOMAIN row = Given
      /\ \A r \in DOMAIN row : row[r].task \in Tasks \cup {B!None}
  <2>1. [emp: Employees, task: Tasks \cup {B!None}, completed: BOOLEAN] \subseteq B!GivenRow
    BY DEF B!GivenRow, B!TaskIds
  <2>2. DOMAIN row = Given /\ \A r \in Given :
          row[r] \in [emp: Employees, task: Tasks \cup {B!None}, completed: BOOLEAN]
    BY <1>1
  <2>3. row = [r \in Given |-> row[r]]
    BY <1>1
  <2>4. row \in [Given -> B!GivenRow]
    BY <2>1, <2>2, <2>3
  <2>5. QED
    BY <2>2, <2>4 DEF B!IsTable, B!RowIds
<1>6. B!TypeOK
  BY <1>1, <1>2, <1>4, <1>5 DEF B!TypeOK, B!Steps
<1>7. \A h \in Requests : boardVar[h] = B!Idle /\ boardVar[h].todo = {}
          /\ DOMAIN boardVar[h].rows = {}
                       /\ boardVar[h] = [todo |-> boardVar[h].todo, rows |-> boardVar[h].rows]
  BY <1>1, <1>2 DEF B!Idle
<1>8. B!VarsInv
  BY <1>1, <1>7 DEF B!VarsInv
<1>9. B!CallsInv
  BY <1>1, <1>2 DEF B!CallsInv, B!Busy
<1>10. B!HoldingInv
  BY <1>1, <1>7 DEF B!HoldingInv, B!Holding, B!Writing, B!Giving, B!Striking
<1>11. B!HadInv
  BY <1>2, <1>4, <1>5 DEF B!HadInv, B!Had, B!Seen
<1>12. B!RemovalInv
  BY <1>2 DEF B!RemovalInv
<1>13. B!Seen = {B!None} \cup Tasks
  BY <1>2 DEF B!Seen
<1>14. B!StoredInv
  BY <1>4, <1>13 DEF B!StoredInv
<1>15. QED
  BY <1>6, <1>8, <1>9, <1>10, <1>11, <1>12, <1>14 DEF B!IInv

LEMMA BoardNextHolds == B!IInv /\ [B!Next]_(B!vars) => B!IInv'
<1> SUFFICES ASSUME B!IInv, [B!Next]_(B!vars)
             PROVE  B!IInv'
  OBVIOUS
<1>1. RowsKnown /\ B!RemovalInv /\ B!StoredInv
  BY DEF B!IInv, RowsKnown
<1>2. CASE B!Next
  <2>1. PICK h \in Requests : BoardStep(h)
    BY <1>2 DEF B!Next, BoardStep
  <2>2. B!TypeOK' /\ B!VarsInv'
    BY <1>1, <2>1, TypesNext
  <2>3. B!CallsInv' /\ B!HoldingInv' /\ B!HadInv'
    BY <1>1, <2>1, BoardCallsNext, HoldingNext, HadNext
  <2>4. B!RemovalInv' /\ B!StoredInv'
    BY <1>1, <2>1, RemovalNext, StoredNext
  <2>5. QED
    BY <2>2, <2>3, <2>4 DEF B!IInv
<1>3. CASE UNCHANGED B!vars
  <2>1. /\ task' = task /\ category' = category /\ row' = row /\ boardPc' = boardPc
            /\ boardCall' = boardCall
        /\ boardVar' = boardVar /\ boardCrossed' = boardCrossed
    BY <1>3 DEF B!vars, B!tables
  <2>2. B!TypeOK' /\ B!VarsInv'
    BY <1>1, <2>1 DEF RowsKnown, B!TypeOK, B!VarsInv
  <2>3. B!CallsInv' /\ B!HoldingInv'
    BY <1>1, <2>1 DEF RowsKnown, B!CallsInv, B!Placed, B!Busy, B!HoldingInv, B!Holding, B!Seen
  <2>4. B!Seen' = B!Seen /\ \A ops : B!Made(ops)' = B!Made(ops)
    BY <2>1 DEF B!Seen, B!Made
  <2>5. \A r : B!Had(r)' = B!Had(r)
    BY <2>1 DEF B!Had
  <2>6. \A x, ops : B!Crossed(x, ops)' = B!Crossed(x, ops)
    BY <2>1, <2>4 DEF B!Crossed
  <2>7. B!HadInv' /\ B!RemovalInv'
    <3>1. B!HadInv'
      BY <1>1, <2>1, <2>4, <2>5 DEF RowsKnown, B!HadInv
    <3>2. B!RemovalInv'
      BY <1>1, <2>1, <2>6 DEF B!RemovalInv, B!Meant
    <3>3. QED
      BY <3>1, <3>2
  <2>8. B!StoredInv'
    <3>1. \A r, t : B!Written(r, t)' = B!Written(r, t)
      BY <2>1, <2>4 DEF B!Written
    <3>2. \A w, r, t : B!Left(w, r, t)' = B!Left(w, r, t)
      BY <2>1, <2>6, <3>1 DEF B!Left
    <3>3. \A w, t : B!Cleans(w, t)' = B!Cleans(w, t)
      BY <2>1, <3>2 DEF B!Cleans, B!GivenBy
    <3>4. QED
      BY <1>1, <2>1, <2>4, <3>3 DEF B!StoredInv
  <2>9. QED
    BY <2>2, <2>3, <2>7, <2>8 DEF B!IInv
<1>4. QED
  BY <1>2, <1>3

(* The inductive invariant of the tasks, the rows that give them and the   *)
(* calls.                                                                  *)
THEOREM BoardingInductive == B!Spec => []B!IInv
  BY BoardInitHolds, BoardNextHolds, PTL DEF B!Spec

(* Tasks, categories, rows and calls have their types.                     *)
THEOREM BoardingTypeCorrect == B!Spec => []B!TypeOK
<1>1. B!IInv => B!TypeOK
  BY DEF B!IInv
<1>2. QED
  BY <1>1, BoardingInductive, PTL

(* What is given to an employee stays until it is removed by a call for    *)
(* just that, unless for one of the causes that GivenStays names.          *)
LEMMA GoesFor ==
    ASSUME B!IInv, NEW h \in Requests, BoardStep(h), NEW r \in DOMAIN row \ DOMAIN row'
    PROVE  \E g \in DOMAIN boardCall' :
             \/ boardPc[g] = "drop_remove" /\ r \in boardCall[g].ids
             \/ boardPc[g] = "sweep" /\ row[r].emp \in boardCall[g].ids
                 /\ row[r].completed = boardCall[g].flag
             \/ boardPc[g] = "strike_rows" /\ row[r].task \in boardCall[g].ids
                  /\ (boardCall[g].flag \/ ~row[r].completed)
             \/ boardPc[g] \in {"sweep", "strike_rows"} /\ B!Crossed(g, {"put"})
             \/ boardPc[g] = "wipe"
             \/ g \notin DOMAIN boardCall /\ boardCall'[g].op = "leave"
                 /\ row[r].emp \in boardCall'[g].ids
<1>1. RowsKnown /\ B!RemovalInv
  BY DEF B!IInv, RowsKnown
<1>2. BoardMoves(h)
  BY <1>1, StepIs DEF Good
<1>3. BoardMoves(h) /\ h \in DOMAIN boardCall'
  BY <1>2 DEF BoardMoves
<1>4. Loses(h) \/ Sheds(h) \/ Strikes(h)
  <2>1. ASSUME NEW q, NEW g, row' = B!Save(row, q, g)
        PROVE  FALSE
    BY <2>1, RowSaved
  <2>2. ~Tells(h) /\ ~Gives(h)
    BY <2>1 DEF Tells, Gives
  <2>3. row' # row
    OBVIOUS
  <2>4. QED
    BY <1>1, <2>2, <2>3, StepIs DEF Still, Looks, Asks, Removes, Finds, FindsAll, Assigns, Reads
<1>5. CASE Loses(h)
  BY <1>3, <1>5 DEF Loses, BoardMoves
<1>6. ASSUME Sheds(h) \/ Strikes(h)
      PROVE  B!Meant(h, r) /\ boardPc[h] \in {"sweep", "strike_rows", "wipe"}
  <2>1. r \in boardVar[h].todo /\ boardPc[h] \in {"sweep", "strike_rows", "wipe"}
    BY <1>6 DEF Sheds, Strikes
  <2>2. h \in DOMAIN boardCall
    BY <1>3, <2>1 DEF BoardMoves
  <2>3. QED
    BY <1>1, <2>1, <2>2 DEF B!RemovalInv
<1>7. CASE Sheds(h) \/ Strikes(h)
  BY <1>3, <1>6, <1>7 DEF B!Meant
<1>8. QED
  BY <1>4, <1>5, <1>7

THEOREM WhatIsGivenStays == B!Spec => GivenStays
<1> DEFINE Stays == \A r \in DOMAIN row \ DOMAIN row' : \E h \in DOMAIN boardCall' :
         \/ boardPc[h] = "drop_remove" /\ r \in boardCall[h].ids
         \/ boardPc[h] = "sweep" /\ row[r].emp \in boardCall[h].ids
             /\ row[r].completed = boardCall[h].flag
         \/ boardPc[h] = "strike_rows" /\ row[r].task \in boardCall[h].ids
              /\ (boardCall[h].flag \/ ~row[r].completed)
         \/ boardPc[h] \in {"sweep", "strike_rows"} /\ B!Crossed(h, {"put"})
         \/ boardPc[h] = "wipe"
         \/ h \notin DOMAIN boardCall /\ boardCall'[h].op = "leave"
             /\ row[r].emp \in boardCall'[h].ids
<1>1. B!IInv /\ [B!Next]_(B!vars) => [Stays]_(B!vars)
  <2> SUFFICES ASSUME B!IInv, B!Next
               PROVE  Stays
    OBVIOUS
  <2>1. PICK h \in Requests : BoardStep(h)
    BY DEF B!Next, BoardStep
  <2>2. QED
    BY <2>1, GoesFor
<1>2. QED
  BY <1>1, BoardingInductive, PTL DEF B!Spec, GivenStays, B!GivenStays

(* A row that gives a task names a stored task, unless for one of the      *)
(* causes that GivenTasksAreStored names.                                  *)
THEOREM GivenTasksStored == B!Spec => []GivenTasksAreStored
<1>1. B!IInv => GivenTasksAreStored
  <2> SUFFICES ASSUME B!IInv, NEW r \in DOMAIN row, row[r].task \notin DOMAIN task \cup {B!None}
               PROVE  \/ \E h \in B!Made({"post", "put"}) : r \in boardCall[h].ids
                          /\ boardPc[h] # "done"
                      \/ \E h \in B!Made({"drop_task", "drop_category"}) :
                           /\ row[r].task \in boardCall[h].ids \cup DOMAIN boardVar[h].rows
                           /\ boardPc[h] # "done" \/ B!Crossed(h, {"assign"})
                      \/ \E h \in B!Made({"drop_task"}) :
                           row[r].task \in boardCall[h].ids /\ ~boardCall[h].flag
                               /\ row[r].completed
    BY DEF GivenTasksAreStored, B!GivenTasksAreStored
  <2>1. row[r].task \in B!Seen
    BY DEF B!IInv, B!HadInv
  <2>2. PICK w \in B!Made({"drop_task", "drop_category"}) : B!Cleans(w, row[r].task)
    BY <2>1 DEF B!IInv, B!StoredInv
  <2>3. row[r].task \in boardCall[w].ids \cup DOMAIN boardVar[w].rows
    BY <2>2 DEF B!Cleans
  <2>4. CASE boardPc[w] # "done"
    BY <2>3, <2>4
  <2>5. CASE boardPc[w] = "done"
    <3>1. B!Left(w, r, row[r].task)
      BY <2>2, <2>5 DEF B!Cleans
    <3>2. CASE B!Written(r, row[r].task)
      BY <3>2 DEF B!Written, B!Writing
    <3>3. CASE B!Crossed(w, {"assign"})
      BY <2>3, <3>3
    <3>4. CASE boardCall[w].op = "drop_task" /\ row[r].task \in boardCall[w].ids
                   /\ ~boardCall[w].flag
               /\ row[r].completed
      <4>1. w \in B!Made({"drop_task"})
        BY <3>4 DEF B!Made
      <4>2. QED
        BY <3>4, <4>1
    <3>5. QED
      BY <2>5, <3>1, <3>2, <3>3, <3>4 DEF B!Left
  <2>6. QED
    BY <2>4, <2>5
<1>2. QED
  BY <1>1, BoardingInductive, PTL

-----------------------------------------------------------------------------
(* Documents and files.                                                    *)

LEMMA PaperStoredTable ==
    ASSUME NEW t, NEW All, NEW Row, D!IsTable(t, All, Row), NEW id \in All, NEW x \in Row
    PROVE  D!IsTable(D!Save(t, id, x), All, Row)
  BY DEF D!Save, D!IsTable

LEMMA PaperAllStored ==
    ASSUME NEW t, NEW u, NEW All, NEW Row, D!IsTable(t, All, Row), D!IsTable(u, All, Row)
    PROVE  /\ D!IsTable(D!SaveAll(t, u), All, Row)
           /\ DOMAIN D!SaveAll(t, u) = DOMAIN t \cup DOMAIN u
  BY DEF D!SaveAll, D!IsTable

LEMMA PaperIsRow ==
    ASSUME NEW t, NEW All, NEW Row, D!IsTable(t, All, Row), NEW x \in DOMAIN t
    PROVE  x \in All /\ t[x] \in Row
  BY DEF D!IsTable

LEMMA PaperAloneTable ==
    ASSUME NEW All, NEW Row, NEW id \in All, NEW x \in Row
    PROVE  D!IsTable(D!One(id, x), All, Row)
  BY DEF D!IsTable, D!One

LEMMA PaperLessTable ==
    ASSUME NEW t, NEW All, NEW Row, D!IsTable(t, All, Row), NEW id
    PROVE  /\ D!IsTable(D!Delete(t, id), All, Row)
           /\ DOMAIN D!Delete(t, id) = DOMAIN t \ {id}
           /\ \A y \in DOMAIN t \ {id} : D!Delete(t, id)[y] = t[y]
  BY DEF D!IsTable, D!Delete

-----------------------------------------------------------------------------
(* Of a step of call h, what it leaves of the other calls.                 *)
PaperStep(h) == D!OfFolders(h) \/ D!Drop(h) \/ D!Upload(h) \/ D!OfDocuments(h) \/ D!OfFiles(h)
                    \/ D!Abort(h)

PaperOthersStay(h) == \A x \in Requests : x # h => paperVar'[x] = paperVar[x]

PaperMoves(h) ==
    /\ paperPc' \in [Requests -> D!Steps] /\ paperPc'[h] # "idle" /\ paperPc[h] \in {"idle"}
        \cup D!InFlight
    /\ \A x \in Requests : x # h => paperPc'[x] = paperPc[x]
    /\ PaperOthersStay(h) /\ D!VarsInv'
    /\ DOMAIN paperCall' = DOMAIN paperCall \cup {h}
        /\ \A x \in DOMAIN paperCall : paperCall'[x] = paperCall[x]
    /\ paperPc[h] = "idle" => h \notin DOMAIN paperCall
        /\ \A x \in D!Busy : {h, x} \in paperCrossed'
    /\ paperPc[h] # "idle" => h \in DOMAIN paperCall /\ paperCall' = paperCall
    /\ paperCrossed \subseteq paperCrossed' /\ paperCrossed' \subseteq {{g, x} : g, x \in Requests}

LEMMA PaperHoldsOf ==
    ASSUME D!IInv, NEW h \in Requests
    PROVE  /\ D!TypeOK /\ D!VarsInv /\ D!CallsInv
           /\ D!Holding(h) /\ (h \in DOMAIN paperCall => D!Placed(h))
               /\ (paperPc[h] # "idle" => h \in DOMAIN paperCall)
<1>1. D!TypeOK /\ D!VarsInv /\ D!CallsInv /\ D!HoldingInv
  BY DEF D!IInv
<1>2. h \in DOMAIN paperCall => D!Placed(h)
  BY <1>1 DEF D!CallsInv
<1>3. paperPc[h] # "idle" => h \in DOMAIN paperCall
  BY <1>1 DEF D!CallsInv
<1>4. D!Holding(h)
  BY <1>1 DEF D!HoldingInv
<1>5. QED
  BY <1>1, <1>2, <1>3, <1>4

LEMMA PaperGotoDoes ==
    ASSUME D!TypeOK, NEW h \in Requests, NEW from, NEW to \in D!Steps, D!Goto(h, from, to)
    PROVE  /\ paperPc[h] = from /\ paperPc'[h] = to /\ paperPc' \in [Requests -> D!Steps]
           /\ \A x \in Requests : x # h => paperPc'[x] = paperPc[x]
  BY DEF D!TypeOK, D!Goto

(* What a step makes of the variables of its call.                         *)
Sets(h, todo, subs, rows, r) ==
    paperVar' = [paperVar EXCEPT ![h].todo = todo, ![h].subs = subs, ![h].rows = rows, ![h].row = r]

LEMMA PaperSetDoes ==
    ASSUME D!VarsInv, NEW h \in Requests, NEW todo, NEW subs, NEW rows, NEW r,
           Sets(h, todo, subs, rows, r)
    PROVE  /\ paperVar'[h].todo = todo /\ paperVar'[h].subs = subs /\ paperVar'[h].rows = rows
               /\ paperVar'[h].row = r
           /\ PaperOthersStay(h) /\ D!VarsInv'
<1> DEFINE A == {paperVar[x].todo : x \in Requests}
           S == {paperVar[x].subs : x \in Requests}
           R == {paperVar[x].rows : x \in Requests}
           O == {paperVar[x].row : x \in Requests}
<1>1. paperVar = [x \in Requests |-> [todo |-> paperVar[x].todo, subs |-> paperVar[x].subs,
                             rows |-> paperVar[x].rows, row |-> paperVar[x].row]]
  BY DEF D!VarsInv
<1>2. \A x \in Requests : [todo |-> paperVar[x].todo, subs |-> paperVar[x].subs,
          rows |-> paperVar[x].rows,
                        row |-> paperVar[x].row] \in [todo: A, subs: S, rows: R, row: O]
  OBVIOUS
<1>3. paperVar \in [Requests -> [todo: A, subs: S, rows: R, row: O]]
  BY <1>1, <1>2
<1> HIDE DEF A, S, R, O
<1>4. /\ DOMAIN paperVar' = Requests /\ \A x \in Requests : x # h => paperVar'[x] = paperVar[x]
      /\ paperVar'[h] = [todo |-> todo, subs |-> subs, rows |-> rows, row |-> r]
      /\ paperVar' = [x \in Requests |-> paperVar'[x]]
  BY <1>3 DEF Sets
<1>5. \A x \in Requests : paperVar[x] = [todo |-> paperVar[x].todo, subs |-> paperVar[x].subs,
                                rows |-> paperVar[x].rows, row |-> paperVar[x].row]
  BY <1>3
<1>6. \A x \in Requests : paperVar'[x] = [todo |-> paperVar'[x].todo, subs |-> paperVar'[x].subs,
                                 rows |-> paperVar'[x].rows, row |-> paperVar'[x].row]
  BY <1>4, <1>5
<1>7. paperVar' = [x \in Requests |-> [todo |-> paperVar'[x].todo, subs |-> paperVar'[x].subs,
                              rows |-> paperVar'[x].rows, row |-> paperVar'[x].row]]
  BY <1>4, <1>6
<1>8. /\ paperVar'[h].todo = todo /\ paperVar'[h].subs = subs /\ paperVar'[h].rows = rows
      /\ paperVar'[h].row = r
  BY <1>4
<1>9. QED
  BY <1>4, <1>7, <1>8 DEF D!VarsInv, PaperOthersStay

LEMMA PaperSetTodo ==
    ASSUME D!VarsInv, NEW h \in Requests, NEW todo, D!Set(h, "todo", todo)
    PROVE  paperVar'[h].todo = todo /\ paperVar'[h].rows = paperVar[h].rows /\ PaperOthersStay(h)
               /\ D!VarsInv'
<1>1. PICK s, q, o : s = paperVar[h].subs /\ q = paperVar[h].rows /\ o = paperVar[h].row
  OBVIOUS
<1>2. Sets(h, todo, s, q, o)
  BY <1>1 DEF Sets, D!VarsInv, D!Set
<1>3. paperVar'[h].todo = todo /\ paperVar'[h].rows = q
  BY <1>2, PaperSetDoes
<1>4. PaperOthersStay(h) /\ D!VarsInv'
  BY <1>2, PaperSetDoes
<1>5. QED
  BY <1>1, <1>3, <1>4

LEMMA SetSubs ==
    ASSUME D!VarsInv, NEW h \in Requests, NEW subs, D!Set(h, "subs", subs)
    PROVE  PaperOthersStay(h) /\ D!VarsInv'
<1>1. PICK a, q, o : a = paperVar[h].todo /\ q = paperVar[h].rows /\ o = paperVar[h].row
  OBVIOUS
<1>2. Sets(h, a, subs, q, o)
  BY <1>1 DEF Sets, D!VarsInv, D!Set
<1>3. QED
  BY <1>1, <1>2, PaperSetDoes

LEMMA PaperSetRows ==
    ASSUME D!VarsInv, NEW h \in Requests, NEW rows, D!Set(h, "rows", rows)
    PROVE  paperVar'[h].todo = paperVar[h].todo /\ paperVar'[h].rows = rows /\ PaperOthersStay(h)
               /\ D!VarsInv'
<1>1. PICK a, s, o : a = paperVar[h].todo /\ s = paperVar[h].subs /\ o = paperVar[h].row
  OBVIOUS
<1>2. Sets(h, a, s, rows, o)
  BY <1>1 DEF Sets, D!VarsInv, D!Set
<1>3. paperVar'[h].todo = a /\ paperVar'[h].rows = rows
  BY <1>2, PaperSetDoes
<1>4. PaperOthersStay(h) /\ D!VarsInv'
  BY <1>2, PaperSetDoes
<1>5. QED
  BY <1>1, <1>3, <1>4

LEMMA PaperSetNone ==
    ASSUME D!VarsInv, NEW h, UNCHANGED paperVar
    PROVE  paperVar' = paperVar /\ PaperOthersStay(h) /\ D!VarsInv'
  BY DEF D!VarsInv, PaperOthersStay

(* Two fields set at once.                                                 *)
SetsRow(h, todo, r)     == paperVar' = [paperVar EXCEPT ![h].todo = todo, ![h].row = r]
SetsRows(h, todo, rows) == paperVar' = [paperVar EXCEPT ![h].todo = todo, ![h].rows = rows]

LEMMA SetTodoRow ==
    ASSUME D!VarsInv, NEW h \in Requests, NEW todo, NEW r, SetsRow(h, todo, r)
    PROVE  /\ paperVar'[h].todo = todo /\ paperVar'[h].rows = paperVar[h].rows
               /\ paperVar'[h].row = r
           /\ PaperOthersStay(h) /\ D!VarsInv'
<1>1. PICK s, q : s = paperVar[h].subs /\ q = paperVar[h].rows
  OBVIOUS
<1>2. Sets(h, todo, s, q, r)
  BY <1>1 DEF Sets, D!VarsInv, SetsRow
<1>3. paperVar'[h].todo = todo /\ paperVar'[h].rows = q
  BY <1>2, PaperSetDoes
<1>4. paperVar'[h].row = r
  BY <1>2, PaperSetDoes
<1>5. PaperOthersStay(h) /\ D!VarsInv'
  BY <1>2, PaperSetDoes
<1>6. QED
  BY <1>1, <1>3, <1>5, <1>4

LEMMA SetTodoRows ==
    ASSUME D!VarsInv, NEW h \in Requests, NEW todo, NEW rows, SetsRows(h, todo, rows)
    PROVE  /\ paperVar'[h].todo = todo /\ paperVar'[h].rows = rows
               /\ paperVar'[h].row = paperVar[h].row
           /\ PaperOthersStay(h) /\ D!VarsInv'
<1>1. PICK s, o : s = paperVar[h].subs /\ o = paperVar[h].row
  OBVIOUS
<1>2. Sets(h, todo, s, rows, o)
  BY <1>1 DEF Sets, D!VarsInv, SetsRows
<1>3. paperVar'[h].todo = todo /\ paperVar'[h].rows = rows
  BY <1>2, PaperSetDoes
<1>4. paperVar'[h].row = o
  BY <1>2, PaperSetDoes
<1>5. PaperOthersStay(h) /\ D!VarsInv'
  BY <1>2, PaperSetDoes
<1>6. QED
  BY <1>1, <1>3, <1>5, <1>4

(* The first step of a call, and a later one.                              *)
LEMMA PaperBeginMoves ==
    ASSUME D!IInv, NEW h \in Requests, NEW op, NEW ids, D!Begin(h, op, ids),
           NEW to \in D!Steps \ {"idle"}, D!Goto(h, "idle", to), PaperOthersStay(h), D!VarsInv'
    PROVE  /\ PaperMoves(h) /\ paperPc[h] = "idle" /\ paperPc'[h] = to /\ h \in DOMAIN paperCall'
           /\ h \notin DOMAIN paperCall
           /\ paperCall'[h].op = op /\ paperCall'[h].ids = ids
<1>1. D!TypeOK /\ D!CallsInv /\ (h \in DOMAIN paperCall => D!Placed(h))
  BY PaperHoldsOf
<1>2. h \notin DOMAIN paperCall /\ paperPc[h] = "idle" /\ paperPc'[h] = to
          /\ paperPc' \in [Requests -> D!Steps]
      /\ \A x \in Requests : x # h => paperPc'[x] = paperPc[x]
  BY <1>1, PaperGotoDoes DEF D!CallsInv
<1>3. paperCall' = D!Save(paperCall, h, [op |-> op, ids |-> ids])
      /\ paperCrossed' = paperCrossed \cup {{h, x} : x \in D!Busy}
  BY DEF D!Begin
<1>4. DOMAIN paperCall' = DOMAIN paperCall \cup {h}
          /\ \A x \in DOMAIN paperCall : paperCall'[x] = paperCall[x]
  BY <1>2, <1>3 DEF D!Save
<1>5. paperCall'[h] = [op |-> op, ids |-> ids]
  BY <1>3 DEF D!Save
<1>6. D!Busy \subseteq Requests /\ paperCrossed \subseteq {{g, x} : g, x \in Requests}
  BY <1>1 DEF D!Busy, D!TypeOK
<1>7. paperCrossed \subseteq paperCrossed' /\ \A x \in D!Busy : {h, x} \in paperCrossed'
  BY <1>3
<1>8. paperCrossed' \subseteq {{g, x} : g, x \in Requests}
  BY <1>3, <1>6
<1>9. QED
  BY <1>2, <1>4, <1>5, <1>7, <1>8 DEF PaperMoves

LEMMA PaperLaterMoves ==
    ASSUME D!IInv, NEW h \in Requests, NEW from \in D!InFlight,
           NEW to \in D!Steps \ {"idle"}, D!Goto(h, from, to), D!Same, PaperOthersStay(h),
               D!VarsInv'
    PROVE  PaperMoves(h) /\ paperPc[h] = from /\ paperPc'[h] = to /\ h \in DOMAIN paperCall
               /\ paperCall' = paperCall /\ D!Placed(h)
<1>1. D!TypeOK /\ D!CallsInv /\ (h \in DOMAIN paperCall => D!Placed(h))
  BY PaperHoldsOf
<1>2. paperPc[h] = from /\ paperPc'[h] = to /\ paperPc' \in [Requests -> D!Steps]
      /\ \A x \in Requests : x # h => paperPc'[x] = paperPc[x]
  BY <1>1, PaperGotoDoes
<1>3. from # "idle"
  BY DEF D!InFlight
<1>4. h \in DOMAIN paperCall
  BY <1>1, <1>2, <1>3 DEF D!CallsInv
<1>5. paperCrossed \subseteq {{g, x} : g, x \in Requests}
  BY <1>1 DEF D!TypeOK
<1>6. DOMAIN paperCall = DOMAIN paperCall \cup {h}
  BY <1>4
<1>7. paperCall' = paperCall /\ paperCrossed' = paperCrossed
  BY DEF D!Same
<1>8. \A x \in DOMAIN paperCall : paperCall'[x] = paperCall[x]
  BY <1>7
<1>9. paperPc[h] # "idle" /\ paperPc'[h] # "idle" /\ paperPc[h] \in {"idle"} \cup D!InFlight
  BY <1>2, <1>3
<1>10. PaperMoves(h)
  BY <1>2, <1>5, <1>7, <1>8, <1>9, <1>4, <1>6 DEF PaperMoves
<1>11. QED
  BY <1>1, <1>2, <1>7, <1>10, <1>4

(* A step that leaves its call where it is.                                *)
LEMMA PaperStayMoves ==
    ASSUME D!IInv, NEW h \in Requests, paperPc[h] \in D!InFlight, UNCHANGED paperPc, D!Same,
           PaperOthersStay(h), D!VarsInv'
    PROVE  PaperMoves(h) /\ h \in DOMAIN paperCall /\ paperCall' = paperCall /\ D!Placed(h)
<1>1. D!TypeOK /\ D!CallsInv /\ (h \in DOMAIN paperCall => D!Placed(h))
  BY PaperHoldsOf
<1>2. paperPc[h] # "idle" /\ paperPc \in [Requests -> D!Steps]
  BY <1>1 DEF D!InFlight, D!TypeOK
<1>3. h \in DOMAIN paperCall
  BY <1>1, <1>2 DEF D!CallsInv
<1>4. paperCrossed \subseteq {{g, x} : g, x \in Requests}
  BY <1>1 DEF D!TypeOK
<1>5. paperCall' = paperCall /\ paperCrossed' = paperCrossed /\ paperPc' = paperPc
  BY DEF D!Same
<1>6. DOMAIN paperCall = DOMAIN paperCall \cup {h}
  BY <1>3
<1>7. \A x \in DOMAIN paperCall : paperCall'[x] = paperCall[x]
  BY <1>5
<1>8. PaperMoves(h)
  BY <1>2, <1>3, <1>5, <1>6, <1>7, <1>4 DEF PaperMoves
<1>9. QED
  BY <1>1, <1>3, <1>5, <1>8
-----------------------------------------------------------------------------
(* What a step of call h makes of the tables and of the bucket.            *)
Adds(h) == paperPc[h] \in {"add_save", "change_save"}

DocStep(h) ==
    /\ \A d \in DOMAIN document' :
         \/ d \in DOMAIN document /\ document'[d] = document[d]
         \/ Adds(h) /\ d \in DOMAIN paperVar[h].rows /\ document'[d] = paperVar[h].rows[d]
         \/ /\ d = h /\ paperPc[h] = "upload_save" /\ paperPc'[h] = "done"
             /\ paperCall[h].ids = {"document"}
            /\ document'[d] = D!Uploaded("document", h)
    /\ \A d \in DOMAIN document \ DOMAIN document' :
         \/ paperPc[h] = "remove_act" /\ d \in paperCall[h].ids
         \/ paperPc[h] = "drop_documents" /\ d \in paperVar[h].todo
         \/ paperPc[h] = "drop_wipe"

FileStep(h) ==
    \A f \in DOMAIN file' :
      \/ f \in DOMAIN file /\ file'[f] = file[f]
      \/ paperPc[h] = "file_save" /\ f \in DOMAIN paperVar[h].rows /\ file'[f] = paperVar[h].rows[f]
      \/ /\ f = h /\ paperPc[h] = "upload_save" /\ paperPc'[h] = "done"
          /\ paperCall[h].ids = {"file"}
         /\ file'[f] = D!Uploaded("file", h)

Inside(h, ds) == \A d \in ds : d \in DOMAIN document /\ document[d].folder = D!Dropped(h)

FolderStep(h) ==
    paperPc'[h] = "drop_documents" =>
      \/ paperPc[h] = "drop_documents" /\ paperVar'[h].todo \subseteq paperVar[h].todo
      \/ paperPc[h] = "drop_find" /\ document' = document /\ Inside(h, paperVar'[h].todo)

DoomStep(h) ==
    /\ object \subseteq object' /\ object' \subseteq D!Keys /\ doomed \subseteq doomed'
    /\ \A key \in doomed' \ doomed :
         \/ \E d \in paperCall[h].ids :
              key = <<"document", d>> /\ paperPc[h] = "remove_act" /\ d \notin DOMAIN document'
         \/ \E f \in paperVar'[h].todo :
              key = <<"file", f>> /\ paperPc[h] = "shelf_files" /\ paperPc'[h] = "done"
                  /\ f \in DOMAIN file
         \/ \E f \in paperCall[h].ids :
              key = <<"file", f>> /\ paperPc[h] = "file_delete" /\ f \notin DOMAIN file'

AskStep(h) ==
    /\ paperPc[h] = "idle" =>
         /\ paperCall'[h].op \in D!OfDocument => paperCall'[h].ids \subseteq DOMAIN document
         /\ paperCall'[h].op \in D!OfFile => paperCall'[h].ids \subseteq DOMAIN file
         /\ paperCall'[h].op = "upload" => paperPc'[h] = "upload_save"
    /\ paperPc'[h] = "upload_save" =>
         \E kind \in {"document", "file"} : paperCall'[h].ids = {kind} /\ <<kind, h>> \in object'

FoldersOK == D!IsTable(folder, D!Ids, D!FolderRow) /\ shelf \subseteq D!Ids
TablesOK  == FoldersOK /\ D!IsTable(document, D!Ids, D!FileRow) /\ D!IsTable(file, D!Ids, D!FileRow)

PaperGood(h) ==
    /\ PaperMoves(h) /\ D!Placed(h)' /\ D!Holding(h)' /\ TablesOK'
    /\ DocStep(h) /\ FileStep(h) /\ FolderStep(h) /\ DoomStep(h) /\ AskStep(h)

LEMMA PaperHadStays ==
    ASSUME D!TypeOK, NEW h \in Requests, PaperMoves(h), NEW kind, NEW d, D!Had(kind, d)
    PROVE  D!Had(kind, d)'
<1>1. CASE d \in Known
  BY <1>1 DEF D!Had
<1>2. CASE d \in DOMAIN paperCall /\ paperCall[d].op = "upload" /\ paperCall[d].ids = {kind}
               /\ paperPc[d] = "done"
  <2>1. d \in Requests /\ "done" \notin {"idle"} \cup D!InFlight
    BY <1>2 DEF D!TypeOK, D!InFlight
  <2>2. d # h
    BY <1>2, <2>1 DEF PaperMoves
  <2>3. paperPc'[d] = paperPc[d] /\ paperCall'[d] = paperCall[d] /\ d \in DOMAIN paperCall'
    BY <1>2, <2>1, <2>2 DEF PaperMoves
  <2>4. QED
    BY <1>2, <2>3 DEF D!Had
<1>3. QED
  BY <1>1, <1>2 DEF D!Had

(* A step that changes no document, no file and no object.                 *)
LEMMA QuietGood ==
    ASSUME D!IInv, NEW h \in Requests, PaperMoves(h), D!Placed(h)', D!Holding(h)', FoldersOK',
           UNCHANGED <<document, file, object, doomed>>, FolderStep(h), AskStep(h)
    PROVE  PaperGood(h)
<1>1. D!TypeOK
  BY DEF D!IInv
<1>2. document' = document /\ file' = file /\ object' = object /\ doomed' = doomed
  OBVIOUS
<1>3. TablesOK'
  BY <1>1, <1>2 DEF D!TypeOK, TablesOK
<1>4. DocStep(h) /\ FileStep(h)
  BY <1>2 DEF DocStep, FileStep
<1>5. DoomStep(h)
  BY <1>1, <1>2 DEF DoomStep, D!TypeOK
<1>6. QED
  BY <1>3, <1>4, <1>5 DEF PaperGood

PaperStarts == {<<"folder_post", "folder_save">>, <<"folder_put", "folder_save">>,
           <<"folder_drop", "drop_remove">>, <<"add", "add_read">>, <<"put", "change_save">>,
           <<"move", "change_save">>, <<"remove", "remove_read">>, <<"shelf_post", "done">>,
           <<"shelf_put", "shelf_save">>, <<"shelf_drop", "shelf_files">>,
           <<"file_post", "file_read">>, <<"file_put", "file_save">>,
           <<"file_drop", "file_delete">>}

LEMMA FirstGood ==
    ASSUME D!IInv, NEW h \in Requests, NEW op, NEW ids, NEW to, D!Begin(h, op, ids),
           D!Goto(h, "idle", to), <<op, to>> \in PaperStarts, PaperOthersStay(h), D!VarsInv',
               FoldersOK',
           UNCHANGED <<document, file, object, doomed>>,
           to = "folder_save" => D!IsTable(paperVar'[h].rows, D!Ids, D!FolderRow),
           to = "shelf_save" => ids \subseteq D!Ids,
           to \in {"add_read", "file_read"} => paperVar'[h].row \in D!Ids,
           to \in {"add_read", "remove_read", "file_read"} => paperVar'[h].todo \subseteq ids,
           to = "file_save" => paperVar'[h].todo = {},
           op \in D!OfDocument => /\ ids \subseteq DOMAIN document
                                /\ DOMAIN paperVar'[h].rows \subseteq ids
                                    /\ D!Own("document", paperVar'[h].rows),
           op \in D!OfFile => /\ ids \subseteq DOMAIN file
                            /\ DOMAIN paperVar'[h].rows \subseteq ids /\ D!Files(paperVar'[h].rows)
    PROVE  PaperGood(h)
<1>1. to \in D!Steps \ {"idle"}
  BY DEF PaperStarts, D!Steps, D!InFlight
<1>2. /\ PaperMoves(h) /\ paperPc[h] = "idle" /\ paperPc'[h] = to
      /\ paperCall'[h].op = op /\ paperCall'[h].ids = ids
  BY <1>1, PaperBeginMoves
<1>3. D!Placed(h)'
  BY <1>2 DEF D!Placed, PaperStarts, D!Adding, D!Removing, D!Filing, D!FileSavers
<1>4. paperPc'[h] \notin {"drop_documents", "upload_save"} /\ paperCall'[h].op # "upload"
  BY <1>2 DEF PaperStarts
<1>5. /\ to \in D!Adding \cup {"change_save"} \cup D!Removing => op \in D!OfDocument
      /\ to \in D!Filing \cup {"file_delete"} => op \in D!OfFile
  BY DEF PaperStarts, D!Adding, D!Removing, D!Filing, D!OfDocument, D!OfFile, D!Changers,
      D!FileSavers
<1>6. to \in D!Adding \cup D!Removing \cup D!Filing =>
        to \in {"add_read", "remove_read", "file_read", "file_save"}
  BY DEF PaperStarts, D!Adding, D!Removing, D!Filing
<1>7. D!Own("document", paperVar[h].rows)' = D!Own("document", paperVar'[h].rows)
      /\ D!Files(paperVar[h].rows)' = D!Files(paperVar'[h].rows)
  BY DEF D!Own, D!Files
<1>8. D!Holding(h)'
  BY <1>1, <1>2, <1>4, <1>5, <1>6, <1>7 DEF D!Holding
<1>9. AskStep(h)
  BY <1>2, <1>4 DEF AskStep
<1>10. FolderStep(h)
  BY <1>4 DEF FolderStep
<1>11. QED
  BY <1>2, <1>3, <1>8, <1>9, <1>10, QuietGood

Goes == {<<"folder_save", "done">>, <<"drop_remove", "drop_find">>, <<"drop_find",
            "drop_documents">>,
         <<"drop_documents", "drop_all">>, <<"drop_all", "drop_sub">>, <<"drop_sub", "drop_every">>,
         <<"drop_sub", "done">>, <<"drop_every", "drop_wipe">>, <<"drop_wipe", "drop_sub">>,
         <<"add_read", "add_read">>, <<"add_read", "add_save">>, <<"remove_read", "remove_act">>,
         <<"shelf_save", "done">>, <<"file_read", "file_save">>} \cup {<<s,
             "failed">> : s \in D!InFlight}

(* What a step leaves its call to hold.                                    *)
LEMMA PlacedLater ==
    ASSUME D!IInv, NEW h \in Requests, h \in DOMAIN paperCall,
               paperCall' = paperCall, NEW from, NEW to,
           paperPc[h] = from, paperPc'[h] = to, <<from, to>> \in Goes
    PROVE  D!Placed(h)'
<1>1. D!Placed(h)
  BY PaperHoldsOf
<1>2. CASE to = "failed"
  BY <1>1, <1>2 DEF D!Placed, D!Adding, D!Removing, D!Filing
<1>3. CASE to # "failed"
  BY <1>1, <1>3 DEF D!Placed, Goes, D!Adding, D!Removing, D!Filing
<1>4. QED
  BY <1>2, <1>3

LEMMA LaterGood ==
    ASSUME D!IInv, NEW h \in Requests, NEW from \in D!InFlight, NEW to, D!Goto(h, from, to), D!Same,
           <<from, to>> \in Goes, PaperOthersStay(h), D!VarsInv', FoldersOK',
           UNCHANGED <<document, file, object, doomed>>,
           to = "drop_documents" => Inside(h, paperVar'[h].todo),
           to = "add_read" => paperVar'[h].row = paperVar[h].row,
           to \in {"add_read", "add_save", "remove_act"} =>
             /\ DOMAIN paperVar'[h].rows \subseteq paperCall[h].ids
                 /\ D!Own("document", paperVar'[h].rows)
             /\ paperVar'[h].todo \subseteq paperVar[h].todo,
           to = "file_save" =>
             /\ DOMAIN paperVar'[h].rows \subseteq paperCall[h].ids /\ D!Files(paperVar'[h].rows)
             /\ paperVar'[h].todo \subseteq paperVar[h].todo /\ paperVar'[h].row = paperVar[h].row
    PROVE  PaperGood(h)
<1>1. to \in D!Steps \ {"idle"}
          /\ to \notin {"folder_save", "shelf_save", "file_read", "remove_read",
                                            "change_save", "file_delete", "upload_save"}
      /\ from # "idle"
  BY DEF Goes, D!Steps, D!InFlight
<1>2. PaperMoves(h) /\ paperPc[h] = from /\ paperPc'[h] = to /\ h \in DOMAIN paperCall
          /\ paperCall' = paperCall
  BY <1>1, PaperLaterMoves
<1>3. D!Placed(h)'
  BY <1>2, PlacedLater
<1>4. D!Holding(h) /\ D!TypeOK
  BY PaperHoldsOf
<1>5. to = "drop_documents" => \A d \in paperVar'[h].todo : D!Had("document", d)'
  <2>1. ASSUME to = "drop_documents", NEW d \in paperVar'[h].todo
        PROVE  D!Had("document", d)'
    <3>1. D!Had("document", d)
      BY <2>1 DEF Inside, D!IInv, D!HadInv
    <3>2. QED
      BY <1>2, <1>4, <3>1, PaperHadStays
  <2>2. QED
    BY <2>1
<1>6. D!Own("document", paperVar[h].rows)' = D!Own("document", paperVar'[h].rows)
      /\ D!Files(paperVar[h].rows)' = D!Files(paperVar'[h].rows)
  BY DEF D!Own, D!Files
<1>7. to \in {"add_read", "add_save"} => from = "add_read"
  BY <1>1 DEF Goes
<1>8. to = "remove_act" => from = "remove_read"
  BY DEF Goes
<1>9. to = "file_save" => from = "file_read"
  BY DEF Goes
<1>10. to \in {"add_read", "add_save", "remove_act", "file_save"}
           => paperVar[h].todo \subseteq paperCall[h].ids
  BY <1>2, <1>4, <1>7, <1>8, <1>9 DEF D!Holding, D!Adding, D!Removing, D!Filing
<1>11. to \in {"add_read", "file_save"} => paperVar'[h].row \in D!Ids
  BY <1>2, <1>4, <1>7, <1>9 DEF D!Holding
<1>12. D!Holding(h)'
  BY <1>1, <1>2, <1>5, <1>6, <1>10, <1>11 DEF D!Holding, D!Adding, D!Removing, D!Filing
<1>13. AskStep(h)
  BY <1>1, <1>2 DEF AskStep
<1>14. from = "drop_find" \/ to # "drop_documents"
  BY DEF Goes
<1>15. FolderStep(h)
  BY <1>2, <1>14 DEF FolderStep
<1>16. QED
  BY <1>2, <1>3, <1>12, <1>13, <1>15, QuietGood
-----------------------------------------------------------------------------
(* The steps one by one.  Those of the folders:                            *)
LEMMA FoldersStay ==
    ASSUME D!IInv, UNCHANGED <<folder, shelf>>
    PROVE  FoldersOK'
  BY DEF D!IInv, D!TypeOK, FoldersOK

LEMMA FolderIs ==
    ASSUME D!IInv, NEW f \in DOMAIN folder
    PROVE  /\ f \in D!Ids /\ folder[f] \in D!FolderRow
           /\ folder[f].parent \in D!Ids \cup {D!None} /\ folder[f].path \subseteq D!Ids
<1>1. D!IsTable(folder, D!Ids, D!FolderRow)
  BY DEF D!IInv, D!TypeOK
<1>2. f \in D!Ids /\ folder[f] \in D!FolderRow
  BY <1>1, PaperIsRow
<1>3. QED
  BY <1>2 DEF D!FolderRow

LEMMA PostFolderDoes ==
    ASSUME D!IInv, NEW h \in Requests, D!PostFolder(h)
    PROVE  PaperGood(h)
<1>1. PICK p \in DOMAIN folder \cup {D!None} :
        D!Begin(h, "folder_post", {h}) /\ D!Set(h, "rows", D!One(h, D!NewFolder(p)))
  BY DEF D!PostFolder
<1>2. D!NewFolder(p) \in D!FolderRow
  BY FolderIs DEF D!NewFolder, D!FolderRow
<1>3. PICK ids, line : ids = {h} /\ line = D!NewFolder(p)
  OBVIOUS
<1>4. PaperOthersStay(h) /\ D!VarsInv' /\ paperVar'[h].rows = D!One(h, line)
  BY <1>1, <1>3, PaperHoldsOf, PaperSetRows
<1>5. D!IsTable(paperVar'[h].rows, D!Ids, D!FolderRow)
  BY <1>2, <1>3, <1>4, PaperAloneTable DEF D!Ids
<1>6. FoldersOK' /\ UNCHANGED <<document, file, object, doomed>>
  BY FoldersStay DEF D!PostFolder, D!tables
<1>7. <<"folder_post", "folder_save">> \in PaperStarts /\ "folder_post" \notin D!OfDocument
          \cup D!OfFile
  BY DEF PaperStarts, D!OfDocument, D!OfFile, D!Changers, D!FileSavers
<1>8. D!Begin(h, "folder_post", ids) /\ D!Goto(h, "idle", "folder_save")
  BY <1>1, <1>3 DEF D!PostFolder
<1>9. QED
  BY <1>4, <1>5, <1>6, <1>7, <1>8, FirstGood

LEMMA PutFolderDoes ==
    ASSUME D!IInv, NEW h \in Requests, D!PutFolder(h)
    PROVE  PaperGood(h)
<1>1. PICK f \in DOMAIN folder, p \in DOMAIN folder \cup {D!None} :
        D!Begin(h, "folder_put", {f}) /\ D!Set(h, "rows", D!One(f, [folder[f] EXCEPT !.parent = p]))
  BY DEF D!PutFolder
<1>2. f \in D!Ids /\ [folder[f] EXCEPT !.parent = p] \in D!FolderRow
  BY FolderIs DEF D!FolderRow
<1>3. PICK ids, line : ids = {f} /\ line = [folder[f] EXCEPT !.parent = p]
  OBVIOUS
<1>4. PaperOthersStay(h) /\ D!VarsInv' /\ paperVar'[h].rows = D!One(f, line)
  BY <1>1, <1>3, PaperHoldsOf, PaperSetRows
<1>5. D!IsTable(paperVar'[h].rows, D!Ids, D!FolderRow)
  BY <1>2, <1>3, <1>4, PaperAloneTable
<1>6. FoldersOK' /\ UNCHANGED <<document, file, object, doomed>>
  BY FoldersStay DEF D!PutFolder, D!tables
<1>7. <<"folder_put", "folder_save">> \in PaperStarts /\ "folder_put" \notin D!OfDocument
          \cup D!OfFile
  BY DEF PaperStarts, D!OfDocument, D!OfFile, D!Changers, D!FileSavers
<1>8. D!Begin(h, "folder_put", ids) /\ D!Goto(h, "idle", "folder_save")
  BY <1>1, <1>3 DEF D!PutFolder
<1>9. QED
  BY <1>4, <1>5, <1>6, <1>7, <1>8, FirstGood

(* A first step that reads nothing, of a call about folders.               *)
LEMMA AskGood ==
    ASSUME D!IInv, NEW h \in Requests, NEW op, NEW ids, NEW to, D!Begin(h, op, ids),
           D!Goto(h, "idle", to), UNCHANGED <<document, file, object, doomed, paperVar>>,
               FoldersOK',
           <<op, to>> \in {<<"folder_drop", "drop_remove">>, <<"shelf_post", "done">>,
                            <<"shelf_put", "shelf_save">>, <<"shelf_drop", "shelf_files">>},
           to = "shelf_save" => ids \subseteq D!Ids
    PROVE  PaperGood(h)
<1>1. PaperOthersStay(h) /\ D!VarsInv'
  BY PaperHoldsOf, PaperSetNone
<1>2. <<op, to>> \in PaperStarts /\ op \notin D!OfDocument \cup D!OfFile
  BY DEF PaperStarts, D!OfDocument, D!OfFile, D!Changers, D!FileSavers
<1>3. to \notin {"folder_save", "add_read", "remove_read", "file_read"}
  OBVIOUS
<1>4. QED
  BY <1>1, <1>2, <1>3, FirstGood

LEMMA DropFolderDoes ==
    ASSUME D!IInv, NEW h \in Requests, D!DropFolder(h)
    PROVE  PaperGood(h)
<1>1. PICK ids : D!Begin(h, "folder_drop", ids)
  BY DEF D!DropFolder
<1>2. FoldersOK' /\ UNCHANGED <<document, file, object, doomed, paperVar>>
  BY FoldersStay DEF D!DropFolder, D!tables
<1>3. QED
  BY <1>1, <1>2, AskGood DEF D!DropFolder

LEMMA PostShelfDoes ==
    ASSUME D!IInv, NEW h \in Requests, D!PostShelf(h)
    PROVE  PaperGood(h)
<1>1. PICK ids : D!Begin(h, "shelf_post", ids)
  BY DEF D!PostShelf
<1>2. FoldersOK' /\ UNCHANGED <<document, file, object, doomed, paperVar>>
  BY DEF D!PostShelf, D!Docs, D!Bucket, FoldersOK, D!IInv, D!TypeOK, D!Ids
<1>3. QED
  BY <1>1, <1>2, AskGood DEF D!PostShelf

LEMMA PutShelfDoes ==
    ASSUME D!IInv, NEW h \in Requests, D!PutShelf(h)
    PROVE  PaperGood(h)
<1>1. PICK s \in shelf : D!Begin(h, "shelf_put", {s})
  BY DEF D!PutShelf
<1>2. PICK ids : ids = {s}
  OBVIOUS
<1>3. ids \subseteq D!Ids
  BY <1>2 DEF D!IInv, D!TypeOK
<1>4. FoldersOK' /\ UNCHANGED <<document, file, object, doomed, paperVar>>
  BY FoldersStay DEF D!PutShelf, D!tables
<1>5. D!Begin(h, "shelf_put", ids) /\ D!Goto(h, "idle", "shelf_save")
  BY <1>1, <1>2 DEF D!PutShelf
<1>6. QED
  BY <1>3, <1>4, <1>5, AskGood

LEMMA DeleteShelfDoes ==
    ASSUME D!IInv, NEW h \in Requests, D!DeleteShelf(h)
    PROVE  PaperGood(h)
<1>1. PICK s \in shelf : D!Begin(h, "shelf_drop", {s}) /\ shelf' = shelf \ {s}
  BY DEF D!DeleteShelf
<1>2. PICK ids : D!Begin(h, "shelf_drop", ids)
  BY <1>1
<1>3. FoldersOK' /\ UNCHANGED <<document, file, object, doomed, paperVar>>
  BY <1>1 DEF D!DeleteShelf, D!Docs, D!Bucket, FoldersOK, D!IInv, D!TypeOK
<1>4. QED
  BY <1>2, <1>3, AskGood DEF D!DeleteShelf

(* A later step of a call about folders, or one that fails.                *)
LEMMA FolderGood ==
    ASSUME D!IInv, NEW h \in Requests, NEW from \in D!InFlight, NEW to, D!Goto(h, from, to), D!Same,
           <<from, to>> \in Goes,
           to \notin {"add_read", "add_save", "remove_act", "file_save", "drop_documents"},
           UNCHANGED <<document, file, object, doomed>>, FoldersOK', PaperOthersStay(h), D!VarsInv'
    PROVE  PaperGood(h)
  BY LaterGood

LEMMA SaveFolderDoes ==
    ASSUME D!IInv, NEW h \in Requests, D!SaveFolder(h)
    PROVE  PaperGood(h)
<1>1. PaperOthersStay(h) /\ D!VarsInv'
  BY PaperHoldsOf, PaperSetNone DEF D!SaveFolder
<1>2. D!IsTable(paperVar[h].rows, D!Ids, D!FolderRow) /\ D!IsTable(folder, D!Ids, D!FolderRow)
  BY PaperHoldsOf DEF D!SaveFolder, D!Goto, D!Holding, D!TypeOK
<1>3. folder' = D!SaveAll(folder, paperVar[h].rows)
  BY DEF D!SaveFolder
<1>4. D!IsTable(folder', D!Ids, D!FolderRow)
  BY <1>2, <1>3, PaperAllStored
<1>5. FoldersOK' /\ UNCHANGED <<document, file, object, doomed>>
  BY <1>4 DEF FoldersOK, D!SaveFolder, D!Newer, D!Bucket, D!IInv, D!TypeOK
<1>6. "folder_save" \in D!InFlight /\ <<"folder_save", "done">> \in Goes
  BY DEF D!InFlight, Goes
<1>7. QED
  BY <1>1, <1>5, <1>6, FolderGood DEF D!SaveFolder

LEMMA PaperDropRemoveDoes ==
    ASSUME D!IInv, NEW h \in Requests, D!DropRemove(h)
    PROVE  PaperGood(h)
<1>1. PaperOthersStay(h) /\ D!VarsInv'
  BY PaperHoldsOf, PaperSetNone DEF D!DropRemove
<1>2. D!IsTable(folder, D!Ids, D!FolderRow)
  BY DEF D!IInv, D!TypeOK
<1>3. PICK x : folder' = D!Delete(folder, x)
  BY DEF D!DropRemove
<1>4. D!IsTable(folder', D!Ids, D!FolderRow)
  BY <1>2, <1>3, PaperLessTable
<1>5. FoldersOK' /\ UNCHANGED <<document, file, object, doomed>>
  BY <1>4 DEF FoldersOK, D!DropRemove, D!Newer, D!Bucket, D!IInv, D!TypeOK
<1>6. "drop_remove" \in D!InFlight /\ <<"drop_remove", "drop_find">> \in Goes
  BY DEF D!InFlight, Goes
<1>7. QED
  BY <1>1, <1>5, <1>6, FolderGood DEF D!DropRemove

LEMMA DropFindDoes ==
    ASSUME D!IInv, NEW h \in Requests, D!DropFind(h)
    PROVE  PaperGood(h)
<1>1. PICK ds : ds = D!InFolder(D!Dropped(h))
  OBVIOUS
<1>2. PaperOthersStay(h) /\ D!VarsInv' /\ paperVar'[h].todo = ds
  BY <1>1, PaperHoldsOf, PaperSetTodo DEF D!DropFind
<1>3. Inside(h, paperVar'[h].todo)
  BY <1>1, <1>2 DEF Inside, D!InFolder
<1>4. FoldersOK' /\ UNCHANGED <<document, file, object, doomed>>
  BY FoldersStay DEF D!DropFind, D!tables
<1>5. "drop_find" \in D!InFlight /\ <<"drop_find", "drop_documents">> \in Goes
  BY DEF D!InFlight, Goes
<1>6. QED
  BY <1>2, <1>3, <1>4, <1>5, LaterGood DEF D!DropFind

LEMMA DropAllDoes ==
    ASSUME D!IInv, NEW h \in Requests, D!DropAll(h)
    PROVE  PaperGood(h)
<1>1. PICK fs : D!Set(h, "subs", fs)
  BY DEF D!DropAll
<1>2. PaperOthersStay(h) /\ D!VarsInv'
  BY <1>1, PaperHoldsOf, SetSubs
<1>3. FoldersOK' /\ UNCHANGED <<document, file, object, doomed>>
  BY FoldersStay DEF D!DropAll, D!tables
<1>4. "drop_all" \in D!InFlight /\ <<"drop_all", "drop_sub">> \in Goes
  BY DEF D!InFlight, Goes
<1>5. QED
  BY <1>2, <1>3, <1>4, FolderGood DEF D!DropAll

LEMMA DropSubDoes ==
    ASSUME D!IInv, NEW h \in Requests, D!DropSub(h)
    PROVE  PaperGood(h)
<1>1. /\ "drop_sub" \in D!InFlight /\ <<"drop_sub", "drop_every">> \in Goes
      /\ <<"drop_sub", "done">> \in Goes
  BY DEF D!InFlight, Goes
<1>2. CASE D!Goto(h, "drop_sub", "drop_every") /\ D!Same /\ UNCHANGED <<document, D!Newer,
               D!Bucket>>
           /\ \E f \in paperVar[h].subs :
                folder' = D!Delete(folder, f) /\ D!Set(h, "subs", paperVar[h].subs \ {f})
  <2>1. PICK f, fs : folder' = D!Delete(folder, f) /\ D!Set(h, "subs", fs)
    BY <1>2
  <2>2. PaperOthersStay(h) /\ D!VarsInv'
    BY <2>1, PaperHoldsOf, SetSubs
  <2>3. D!IsTable(folder, D!Ids, D!FolderRow)
    BY DEF D!IInv, D!TypeOK
  <2>4. D!IsTable(folder', D!Ids, D!FolderRow)
    BY <2>1, <2>3, PaperLessTable
  <2>5. FoldersOK' /\ UNCHANGED <<document, file, object, doomed>>
    BY <1>2, <2>4 DEF FoldersOK, D!Newer, D!Bucket, D!IInv, D!TypeOK
  <2>6. D!Goto(h, "drop_sub", "drop_every") /\ D!Same
    BY <1>2
  <2>7. QED
    BY <1>1, <2>2, <2>5, <2>6, FolderGood
<1>3. CASE D!Goto(h, "drop_sub", "done") /\ D!Same /\ UNCHANGED <<D!tables, paperVar>>
  <2>1. PaperOthersStay(h) /\ D!VarsInv'
    BY <1>3, PaperHoldsOf, PaperSetNone
  <2>2. FoldersOK' /\ UNCHANGED <<document, file, object, doomed>>
    BY <1>3, FoldersStay DEF D!tables
  <2>3. D!Goto(h, "drop_sub", "done") /\ D!Same
    BY <1>3
  <2>4. QED
    BY <1>1, <2>1, <2>2, <2>3, FolderGood
<1>4. QED
  BY <1>2, <1>3 DEF D!DropSub

LEMMA DropEveryDoes ==
    ASSUME D!IInv, NEW h \in Requests, D!DropEvery(h)
    PROVE  PaperGood(h)
<1>1. PICK ds : D!Set(h, "todo", ds)
  BY DEF D!DropEvery
<1>2. PaperOthersStay(h) /\ D!VarsInv'
  BY <1>1, PaperHoldsOf, PaperSetTodo
<1>3. FoldersOK' /\ UNCHANGED <<document, file, object, doomed>>
  BY FoldersStay DEF D!DropEvery, D!tables
<1>4. "drop_every" \in D!InFlight /\ <<"drop_every", "drop_wipe">> \in Goes
  BY DEF D!InFlight, Goes
<1>5. QED
  BY <1>2, <1>3, <1>4, FolderGood DEF D!DropEvery

LEMMA ShelfSaveDoes ==
    ASSUME D!IInv, NEW h \in Requests, D!ShelfSave(h)
    PROVE  PaperGood(h)
<1>1. PaperOthersStay(h) /\ D!VarsInv'
  BY PaperHoldsOf, PaperSetNone DEF D!ShelfSave
<1>2. paperCall[h].ids \subseteq D!Ids
  BY PaperHoldsOf DEF D!ShelfSave, D!Goto, D!Holding
<1>3. FoldersOK' /\ UNCHANGED <<document, file, object, doomed>>
  BY <1>2 DEF FoldersOK, D!ShelfSave, D!Docs, D!Bucket, D!IInv, D!TypeOK
<1>4. "shelf_save" \in D!InFlight /\ <<"shelf_save", "done">> \in Goes
  BY DEF D!InFlight, Goes
<1>5. QED
  BY <1>1, <1>3, <1>4, FolderGood DEF D!ShelfSave

LEMMA PaperAbortDoes ==
    ASSUME D!IInv, NEW h \in Requests, D!Abort(h)
    PROVE  PaperGood(h)
<1>1. PaperOthersStay(h) /\ D!VarsInv'
  BY PaperHoldsOf, PaperSetNone DEF D!Abort
<1>2. FoldersOK' /\ UNCHANGED <<document, file, object, doomed>>
  BY FoldersStay DEF D!Abort, D!tables
<1>3. paperPc[h] \in D!InFlight /\ <<paperPc[h], "failed">> \in Goes
          /\ D!Goto(h, paperPc[h], "failed") /\ D!Same
  BY DEF D!Abort, D!Goto, Goes, D!Same
<1>4. QED
  BY <1>1, <1>2, <1>3, FolderGood
-----------------------------------------------------------------------------
(* Those of the documents and the files that only read.                    *)
LEMMA DocumentIs ==
    ASSUME D!IInv, NEW d \in DOMAIN document
    PROVE  d \in D!Ids /\ document[d] \in D!FileRow
               /\ document[d].link \in {<<"document", d>>, D!Renamed}
  BY DEF D!IInv, D!TypeOK, D!IsTable, D!LinksInv, D!Own

LEMMA FileIs ==
    ASSUME D!IInv, NEW f \in DOMAIN file
    PROVE  f \in D!Ids /\ file[f] \in D!FileRow /\ file[f].link = <<"file", f>>
  BY DEF D!IInv, D!TypeOK, D!IsTable, D!LinksInv, D!Files

LEMMA Moved ==
    ASSUME NEW x \in D!FileRow, NEW f \in D!Ids \cup {D!None}
    PROVE  [x EXCEPT !.folder = f] \in D!FileRow /\ [x EXCEPT !.folder = f].link = x.link
  BY DEF D!FileRow

LEMMA GivenName ==
    ASSUME NEW x \in D!FileRow
    PROVE  [x EXCEPT !.link = D!Renamed] \in D!FileRow
               /\ [x EXCEPT !.link = D!Renamed].link = D!Renamed
  BY DEF D!FileRow

LEMMA OwnOne ==
    ASSUME NEW rows, NEW d, NEW x \in D!FileRow, rows = D!One(d, x),
           x.link \in {<<"document", d>>, D!Renamed}
    PROVE  DOMAIN rows = {d} /\ D!Own("document", rows)
  BY DEF D!Own, D!One

LEMMA FilesOne ==
    ASSUME NEW rows, NEW f, NEW x \in D!FileRow, rows = D!One(f, x), x.link = <<"file", f>>
    PROVE  DOMAIN rows = {f} /\ D!Files(rows)
  BY DEF D!Files, D!One

LEMMA OwnSaved ==
    ASSUME NEW rows, NEW t, D!Own("document", t), NEW d, NEW x \in D!FileRow,
               rows = D!Save(t, d, x),
           x.link \in {<<"document", d>>, D!Renamed}
    PROVE  DOMAIN rows = DOMAIN t \cup {d} /\ D!Own("document", rows)
  BY DEF D!Own, D!Save

LEMMA Quiet ==
    ASSUME D!IInv, UNCHANGED D!tables
    PROVE  FoldersOK' /\ UNCHANGED <<document, file, object, doomed>>
  BY FoldersStay DEF D!tables

LEMMA AddDocumentsDoes ==
    ASSUME D!IInv, NEW h \in Requests, D!AddDocuments(h)
    PROVE  PaperGood(h)
<1>1. PICK ds \in (SUBSET DOMAIN document) \ {{}}, f \in DOMAIN folder :
        D!Begin(h, "add", ds) /\ paperVar' = [paperVar EXCEPT ![h].todo = ds, ![h].row = f]
  BY DEF D!AddDocuments
<1>2. SetsRow(h, ds, f) /\ f \in D!Ids
  BY <1>1, FolderIs DEF SetsRow
<1>3. /\ PaperOthersStay(h) /\ D!VarsInv'
      /\ paperVar'[h].todo = ds /\ paperVar'[h].rows = paperVar[h].rows /\ paperVar'[h].row = f
  BY <1>2, PaperHoldsOf, SetTodoRow
<1>4. DOMAIN paperVar[h].rows = {} /\ D!Goto(h, "idle", "add_read")
  BY PaperHoldsOf DEF D!AddDocuments, D!Goto, D!Holding
<1>5. DOMAIN paperVar'[h].rows \subseteq ds /\ D!Own("document", paperVar'[h].rows)
  BY <1>3, <1>4 DEF D!Own
<1>6. FoldersOK' /\ UNCHANGED <<document, file, object, doomed>>
  BY Quiet DEF D!AddDocuments
<1>7. <<"add", "add_read">> \in PaperStarts /\ "add" \notin D!OfFile
  BY DEF PaperStarts, D!OfFile, D!FileSavers
<1>8. QED
  BY <1>1, <1>2, <1>3, <1>4, <1>5, <1>6, <1>7, FirstGood

LEMMA PostFilesDoes ==
    ASSUME D!IInv, NEW h \in Requests, D!PostFiles(h)
    PROVE  PaperGood(h)
<1>1. PICK fs \in (SUBSET DOMAIN file) \ {{}}, s \in shelf :
        D!Begin(h, "file_post", fs) /\ paperVar' = [paperVar EXCEPT ![h].todo = fs, ![h].row = s]
  BY DEF D!PostFiles
<1>2. SetsRow(h, fs, s) /\ s \in D!Ids
  BY <1>1 DEF SetsRow, D!IInv, D!TypeOK
<1>3. /\ PaperOthersStay(h) /\ D!VarsInv'
      /\ paperVar'[h].todo = fs /\ paperVar'[h].rows = paperVar[h].rows /\ paperVar'[h].row = s
  BY <1>2, PaperHoldsOf, SetTodoRow
<1>4. DOMAIN paperVar[h].rows = {} /\ D!Goto(h, "idle", "file_read")
  BY PaperHoldsOf DEF D!PostFiles, D!Goto, D!Holding
<1>5. DOMAIN paperVar'[h].rows \subseteq fs /\ D!Files(paperVar'[h].rows)
  BY <1>3, <1>4 DEF D!Files
<1>6. FoldersOK' /\ UNCHANGED <<document, file, object, doomed>>
  BY Quiet DEF D!PostFiles
<1>7. <<"file_post", "file_read">> \in PaperStarts /\ "file_post" \notin D!OfDocument
  BY DEF PaperStarts, D!OfDocument, D!Changers
<1>8. QED
  BY <1>1, <1>2, <1>3, <1>4, <1>5, <1>6, <1>7, FirstGood

LEMMA RemoveDocumentsDoes ==
    ASSUME D!IInv, NEW h \in Requests, D!RemoveDocuments(h)
    PROVE  PaperGood(h)
<1>1. PICK ds \in (SUBSET DOMAIN document) \ {{}} :
        D!Begin(h, "remove", ds) /\ D!Set(h, "todo", ds)
  BY DEF D!RemoveDocuments
<1>2. PaperOthersStay(h) /\ D!VarsInv' /\ paperVar'[h].todo = ds
          /\ paperVar'[h].rows = paperVar[h].rows
  BY <1>1, PaperHoldsOf, PaperSetTodo
<1>3. DOMAIN paperVar[h].rows = {} /\ D!Goto(h, "idle", "remove_read")
  BY PaperHoldsOf DEF D!RemoveDocuments, D!Goto, D!Holding
<1>4. DOMAIN paperVar'[h].rows \subseteq ds /\ D!Own("document", paperVar'[h].rows)
  BY <1>2, <1>3 DEF D!Own
<1>5. FoldersOK' /\ UNCHANGED <<document, file, object, doomed>>
  BY Quiet DEF D!RemoveDocuments
<1>6. <<"remove", "remove_read">> \in PaperStarts /\ "remove" \notin D!OfFile
  BY DEF PaperStarts, D!OfFile, D!FileSavers
<1>7. QED
  BY <1>1, <1>2, <1>3, <1>4, <1>5, <1>6, FirstGood

(* A first step that reads one row.                                        *)
LEMMA ChangeGood ==
    ASSUME D!IInv, NEW h \in Requests, NEW op, NEW ids, D!Begin(h, op, ids),
           D!Goto(h, "idle", "change_save"), <<op, "change_save">> \in PaperStarts,
           NEW d \in DOMAIN document, ids = {d}, NEW x \in D!FileRow, D!Set(h, "rows", D!One(d, x)),
           x.link \in {<<"document", d>>, D!Renamed}, UNCHANGED D!tables
    PROVE  PaperGood(h)
<1>1. PICK rows : rows = D!One(d, x)
  OBVIOUS
<1>2. PaperOthersStay(h) /\ D!VarsInv' /\ paperVar'[h].rows = rows
  BY <1>1, PaperHoldsOf, PaperSetRows
<1>3. DOMAIN rows \subseteq ids /\ D!Own("document", rows)
  BY <1>1, OwnOne
<1>4. FoldersOK' /\ UNCHANGED <<document, file, object, doomed>>
  BY Quiet
<1>5. op \in D!OfDocument /\ op \notin D!OfFile /\ ids \subseteq DOMAIN document
  BY DEF PaperStarts, D!OfDocument, D!Changers, D!OfFile, D!FileSavers
<1>6. QED
  BY <1>2, <1>3, <1>4, <1>5, FirstGood

LEMMA PutDocumentDoes ==
    ASSUME D!IInv, NEW h \in Requests, D!PutDocument(h)
    PROVE  PaperGood(h)
<1>1. PICK d \in DOMAIN document, renamed \in BOOLEAN :
        /\ D!Begin(h, "put", {d})
        /\ D!Set(h, "rows", D!One(d, IF renamed THEN [document[d] EXCEPT !.link = D!Renamed]
                                 ELSE document[d]))
  BY DEF D!PutDocument
<1>2. PICK ids, x : /\ ids = {d}
                    /\ x = IF renamed THEN [document[d] EXCEPT !.link = D!Renamed] ELSE document[d]
  OBVIOUS
<1>3. document[d] \in D!FileRow /\ document[d].link \in {<<"document", d>>, D!Renamed}
  BY DocumentIs
<1>4. x \in D!FileRow /\ x.link \in {<<"document", d>>, D!Renamed}
  BY <1>2, <1>3, GivenName
<1>5. D!Begin(h, "put", ids) /\ D!Set(h, "rows", D!One(d, x))
  BY <1>1, <1>2
<1>6. D!Goto(h, "idle", "change_save") /\ UNCHANGED D!tables /\ <<"put",
          "change_save">> \in PaperStarts
  BY DEF D!PutDocument, PaperStarts
<1>7. QED
  BY <1>2, <1>4, <1>5, <1>6, ChangeGood

LEMMA MoveDocumentsDoes ==
    ASSUME D!IInv, NEW h \in Requests, D!MoveDocuments(h)
    PROVE  PaperGood(h)
<1>1. PICK d \in DOMAIN document, f \in DOMAIN folder :
        D!Begin(h, "move", {d}) /\ D!Set(h, "rows", D!One(d, [document[d] EXCEPT !.folder = f]))
  BY DEF D!MoveDocuments
<1>2. PICK ids, x : ids = {d} /\ x = [document[d] EXCEPT !.folder = f]
  OBVIOUS
<1>3. document[d] \in D!FileRow /\ document[d].link \in {<<"document", d>>, D!Renamed}
          /\ f \in D!Ids
  BY DocumentIs, FolderIs
<1>4. x \in D!FileRow /\ x.link \in {<<"document", d>>, D!Renamed}
  BY <1>2, <1>3, Moved
<1>5. D!Begin(h, "move", ids) /\ D!Set(h, "rows", D!One(d, x))
  BY <1>1, <1>2
<1>6. D!Goto(h, "idle", "change_save") /\ UNCHANGED D!tables /\ <<"move",
          "change_save">> \in PaperStarts
  BY DEF D!MoveDocuments, PaperStarts
<1>7. QED
  BY <1>2, <1>4, <1>5, <1>6, ChangeGood

LEMMA FileGood ==
    ASSUME D!IInv, NEW h \in Requests, NEW op, NEW ids, NEW to, D!Begin(h, op, ids),
           D!Goto(h, "idle", to), <<op, to>> \in PaperStarts, to \in {"file_save", "file_delete"},
           NEW f \in DOMAIN file, ids = {f}, NEW x \in D!FileRow, D!Set(h, "rows", D!One(f, x)),
           x.link = <<"file", f>>, UNCHANGED D!tables
    PROVE  PaperGood(h)
<1>1. PICK rows : rows = D!One(f, x)
  OBVIOUS
<1>2. PaperOthersStay(h) /\ D!VarsInv' /\ paperVar'[h].rows = rows
          /\ paperVar'[h].todo = paperVar[h].todo
  BY <1>1, PaperHoldsOf, PaperSetRows
<1>3. DOMAIN rows \subseteq ids /\ D!Files(rows)
  BY <1>1, FilesOne
<1>4. paperVar[h].todo = {}
  BY PaperHoldsOf DEF D!Goto, D!Holding
<1>5. FoldersOK' /\ UNCHANGED <<document, file, object, doomed>>
  BY Quiet
<1>6. op \in D!OfFile /\ op \notin D!OfDocument /\ ids \subseteq DOMAIN file
  BY DEF PaperStarts, D!OfDocument, D!Changers, D!OfFile, D!FileSavers
<1>7. QED
  BY <1>2, <1>3, <1>4, <1>5, <1>6, FirstGood

LEMMA PutFileDoes ==
    ASSUME D!IInv, NEW h \in Requests, D!PutFile(h)
    PROVE  PaperGood(h)
<1>1. PICK f \in DOMAIN file, s \in shelf \cup {D!None} :
        D!Begin(h, "file_put", {f}) /\ D!Set(h, "rows", D!One(f, [file[f] EXCEPT !.folder = s]))
  BY DEF D!PutFile
<1>2. PICK ids, x : ids = {f} /\ x = [file[f] EXCEPT !.folder = s]
  OBVIOUS
<1>3. file[f] \in D!FileRow /\ file[f].link = <<"file", f>> /\ s \in D!Ids \cup {D!None}
  BY FileIs DEF D!IInv, D!TypeOK
<1>4. x \in D!FileRow /\ x.link = <<"file", f>>
  BY <1>2, <1>3, Moved
<1>5. D!Begin(h, "file_put", ids) /\ D!Set(h, "rows", D!One(f, x))
  BY <1>1, <1>2
<1>6. D!Goto(h, "idle", "file_save") /\ UNCHANGED D!tables /\ <<"file_put",
          "file_save">> \in PaperStarts
  BY DEF D!PutFile, PaperStarts
<1>7. QED
  BY <1>2, <1>4, <1>5, <1>6, FileGood

LEMMA DeleteFileDoes ==
    ASSUME D!IInv, NEW h \in Requests, D!DeleteFile(h)
    PROVE  PaperGood(h)
<1>1. PICK f \in DOMAIN file : D!Begin(h, "file_drop", {f}) /\ D!Set(h, "rows", D!One(f, file[f]))
  BY DEF D!DeleteFile
<1>2. PICK ids, x : ids = {f} /\ x = file[f]
  OBVIOUS
<1>3. x \in D!FileRow /\ x.link = <<"file", f>>
  BY <1>2, FileIs
<1>4. D!Begin(h, "file_drop", ids) /\ D!Set(h, "rows", D!One(f, x))
  BY <1>1, <1>2
<1>5. D!Goto(h, "idle", "file_delete") /\ UNCHANGED D!tables /\ <<"file_drop",
          "file_delete">> \in PaperStarts
  BY DEF D!DeleteFile, PaperStarts
<1>6. QED
  BY <1>2, <1>3, <1>4, <1>5, FileGood

LEMMA AddReadDoes ==
    ASSUME D!IInv, NEW h \in Requests, D!AddRead(h)
    PROVE  PaperGood(h)
<1>1. PICK d \in paperVar[h].todo \cap DOMAIN document :
        /\ paperVar' = [paperVar EXCEPT ![h].todo = @ \ {d},
                       ![h].rows = D!Save(@, d, [document[d] EXCEPT !.folder = paperVar[h].row])]
        /\ D!Goto(h, "add_read", IF paperVar[h].todo = {d} THEN "add_save" ELSE "add_read")
  BY DEF D!AddRead
<1>2. PICK ds, x, to : /\ ds = paperVar[h].todo \ {d}
                           /\ x = [document[d] EXCEPT !.folder = paperVar[h].row]
                       /\ to = IF paperVar[h].todo = {d} THEN "add_save" ELSE "add_read"
  OBVIOUS
<1>3. PICK rows : rows = D!Save(paperVar[h].rows, d, x)
  OBVIOUS
<1>4. /\ D!VarsInv /\ paperVar[h].row \in D!Ids /\ paperVar[h].todo \subseteq paperCall[h].ids
      /\ DOMAIN paperVar[h].rows \subseteq paperCall[h].ids /\ D!Own("document", paperVar[h].rows)
  BY <1>1, PaperHoldsOf DEF D!Goto, D!Holding, D!Adding
<1>5. SetsRows(h, ds, rows)
  BY <1>1, <1>2, <1>3, <1>4 DEF SetsRows, D!VarsInv
<1>6. /\ PaperOthersStay(h) /\ D!VarsInv'
      /\ paperVar'[h].todo = ds /\ paperVar'[h].rows = rows /\ paperVar'[h].row = paperVar[h].row
  BY <1>4, <1>5, SetTodoRows
<1>7. document[d] \in D!FileRow /\ document[d].link \in {<<"document", d>>, D!Renamed}
  BY DocumentIs
<1>8. x \in D!FileRow /\ x.link \in {<<"document", d>>, D!Renamed}
  BY <1>2, <1>4, <1>7, Moved
<1>9. PICK t : t = paperVar[h].rows
  OBVIOUS
<1>10. D!Own("document", t) /\ rows = D!Save(t, d, x)
  BY <1>3, <1>4, <1>9
<1>11. DOMAIN rows = DOMAIN t \cup {d} /\ D!Own("document", rows)
  BY <1>8, <1>10, OwnSaved
<1>12. DOMAIN rows \subseteq paperCall[h].ids
  BY <1>4, <1>11, <1>9
<1>13. FoldersOK' /\ UNCHANGED <<document, file, object, doomed>>
  BY Quiet DEF D!AddRead
<1>14. <<"add_read", to>> \in Goes /\ to \in {"add_save", "add_read"} /\ "add_read" \in D!InFlight
  BY <1>2 DEF Goes, D!InFlight
<1>15. D!Goto(h, "add_read", to) /\ D!Same
  BY <1>1, <1>2 DEF D!AddRead
<1>16. QED
  BY <1>2, <1>6, <1>11, <1>12, <1>13, <1>14, <1>15, LaterGood

LEMMA RemoveReadDoes ==
    ASSUME D!IInv, NEW h \in Requests, D!RemoveRead(h)
    PROVE  PaperGood(h)
<1>1. PICK d \in paperVar[h].todo \cap DOMAIN document : D!Set(h, "rows", D!One(d, document[d]))
  BY DEF D!RemoveRead
<1>2. PICK rows : rows = D!One(d, document[d])
  OBVIOUS
<1>3. PaperOthersStay(h) /\ D!VarsInv' /\ paperVar'[h].rows = rows
          /\ paperVar'[h].todo = paperVar[h].todo
  BY <1>1, <1>2, PaperHoldsOf, PaperSetRows
<1>4. paperVar[h].todo \subseteq paperCall[h].ids
  BY PaperHoldsOf DEF D!RemoveRead, D!Goto, D!Holding, D!Removing
<1>5. document[d] \in D!FileRow /\ document[d].link \in {<<"document", d>>, D!Renamed}
  BY DocumentIs
<1>6. PICK x : x = document[d]
  OBVIOUS
<1>7. DOMAIN rows = {d} /\ D!Own("document", rows)
  BY <1>2, <1>5, <1>6, OwnOne
<1>8. DOMAIN rows \subseteq paperCall[h].ids /\ D!Own("document", rows)
  BY <1>4, <1>7
<1>9. FoldersOK' /\ UNCHANGED <<document, file, object, doomed>>
  BY Quiet DEF D!RemoveRead
<1>10. <<"remove_read", "remove_act">> \in Goes /\ "remove_read" \in D!InFlight
  BY DEF Goes, D!InFlight
<1>11. D!Goto(h, "remove_read", "remove_act") /\ D!Same
  BY DEF D!RemoveRead
<1>12. QED
  BY <1>3, <1>8, <1>9, <1>10, <1>11, LaterGood

LEMMA FileReadDoes ==
    ASSUME D!IInv, NEW h \in Requests, D!FileRead(h)
    PROVE  PaperGood(h)
<1>1. PICK f \in paperVar[h].todo \cap DOMAIN file :
         paperVar' = [paperVar EXCEPT ![h].todo = @ \ {f},
                            ![h].rows = D!One(f, [file[f] EXCEPT !.folder = paperVar[h].row])]
  BY DEF D!FileRead
<1>2. PICK fs, x : fs = paperVar[h].todo \ {f} /\ x = [file[f] EXCEPT !.folder = paperVar[h].row]
  OBVIOUS
<1>3. PICK rows : rows = D!One(f, x)
  OBVIOUS
<1>4. D!VarsInv /\ paperVar[h].row \in D!Ids /\ paperVar[h].todo \subseteq paperCall[h].ids
  BY PaperHoldsOf DEF D!FileRead, D!Goto, D!Holding, D!Filing
<1>5. SetsRows(h, fs, rows)
  BY <1>1, <1>2, <1>3, <1>4 DEF SetsRows, D!VarsInv
<1>6. /\ PaperOthersStay(h) /\ D!VarsInv'
      /\ paperVar'[h].todo = fs /\ paperVar'[h].rows = rows /\ paperVar'[h].row = paperVar[h].row
  BY <1>4, <1>5, SetTodoRows
<1>7. file[f] \in D!FileRow /\ file[f].link = <<"file", f>>
  BY FileIs
<1>8. x \in D!FileRow /\ x.link = <<"file", f>>
  BY <1>2, <1>4, <1>7, Moved
<1>9. DOMAIN rows = {f} /\ D!Files(rows)
  BY <1>3, <1>8, FilesOne
<1>10. D!Files(rows) /\ DOMAIN rows \subseteq paperCall[h].ids
  BY <1>4, <1>9
<1>11. FoldersOK' /\ UNCHANGED <<document, file, object, doomed>>
  BY Quiet DEF D!FileRead
<1>12. <<"file_read", "file_save">> \in Goes /\ "file_read" \in D!InFlight
  BY DEF Goes, D!InFlight
<1>13. D!Goto(h, "file_read", "file_save") /\ D!Same
  BY DEF D!FileRead
<1>14. QED
  BY <1>2, <1>6, <1>10, <1>11, <1>12, <1>13, LaterGood
-----------------------------------------------------------------------------
(* Those that store or remove.                                             *)
LEMMA HadIs ==
    ASSUME D!TypeOK, NEW kind, NEW d, D!Had(kind, d)
    PROVE  d \in D!Ids
  BY DEF D!TypeOK, D!Had, D!Ids

LEMMA Named ==
    ASSUME D!IInv, NEW h \in DOMAIN paperCall, NEW d \in paperCall[h].ids
    PROVE  /\ paperCall[h].op \in D!OfDocument => D!Had("document", d) /\ d \in D!Ids
           /\ paperCall[h].op \in D!OfFile => D!Had("file", d) /\ d \in D!Ids
<1>1. D!TypeOK /\ D!HadInv
  BY DEF D!IInv
<1>2. /\ paperCall[h].op \in D!OfDocument => D!Had("document", d)
      /\ paperCall[h].op \in D!OfFile => D!Had("file", d)
  BY <1>1 DEF D!HadInv, D!Made
<1>3. QED
  BY <1>1, <1>2, HadIs

LEMMA RowsStored ==
    ASSUME NEW t, D!IsTable(t, D!Ids, D!FileRow), NEW u, DOMAIN u \subseteq D!Ids,
           \A x \in DOMAIN u : u[x] \in D!FileRow
    PROVE  D!IsTable(D!SaveAll(t, u), D!Ids, D!FileRow)
  BY DEF D!SaveAll, D!IsTable

LEMMA DoomStays ==
    ASSUME D!TypeOK, NEW h, UNCHANGED D!Bucket
    PROVE  DoomStep(h)
<1>1. object' = object /\ doomed' = doomed
  BY DEF D!Bucket
<1>2. QED
  BY <1>1 DEF DoomStep, D!TypeOK

LEMMA TablesStay ==
    ASSUME D!IInv, UNCHANGED <<folder, shelf>>
    PROVE  /\ D!IsTable(document', D!Ids, D!FileRow) /\ D!IsTable(file', D!Ids, D!FileRow)
               => TablesOK'
           /\ document' = document => D!IsTable(document', D!Ids, D!FileRow)
               /\ \A h \in Requests : DocStep(h)
           /\ file' = file => D!IsTable(file', D!Ids, D!FileRow) /\ \A h \in Requests : FileStep(h)
<1>1. D!IsTable(document, D!Ids, D!FileRow) /\ D!IsTable(file, D!Ids, D!FileRow) /\ FoldersOK'
  BY FoldersStay DEF D!IInv, D!TypeOK
<1>2. D!IsTable(document', D!Ids, D!FileRow) /\ D!IsTable(file', D!Ids, D!FileRow) => TablesOK'
  BY <1>1 DEF TablesOK
<1>3. document' = document => \A h \in Requests : DocStep(h)
  BY DEF DocStep
<1>4. file' = file => \A h \in Requests : FileStep(h)
  BY DEF FileStep
<1>5. QED
  BY <1>1, <1>2, <1>3, <1>4

LEMMA StoreGood ==
    ASSUME D!IInv, NEW h \in Requests, NEW from \in D!InFlight, NEW to \in {"done", "failed",
               "remove_read", "file_read"},
           D!Goto(h, from, to), D!Same, PaperOthersStay(h), D!VarsInv',
           to \in {"remove_read", "file_read"} => D!Placed(h)' /\ D!Holding(h)',
           TablesOK', DocStep(h), FileStep(h), DoomStep(h)
    PROVE  PaperGood(h)
<1>1. to \in D!Steps \ {"idle"} /\ from # "idle"
  BY DEF D!Steps, D!InFlight
<1>2. PaperMoves(h) /\ paperPc[h] = from /\ paperPc'[h] = to /\ h \in DOMAIN paperCall
          /\ paperCall' = paperCall /\ D!Placed(h)
  BY <1>1, PaperLaterMoves
<1>3. to \in {"done", "failed"} => D!Placed(h)'
  BY <1>2 DEF D!Placed, D!Adding, D!Removing, D!Filing
<1>4. to \in {"done", "failed"} => D!Holding(h)'
  BY <1>2 DEF D!Holding, D!Adding, D!Removing, D!Filing
<1>5. AskStep(h) /\ FolderStep(h)
  BY <1>1, <1>2 DEF AskStep, FolderStep
<1>6. QED
  BY <1>2, <1>3, <1>4, <1>5 DEF PaperGood

LEMMA Uploading ==
    ASSUME NEW h \in Requests, NEW kind \in {"document", "file"}
    PROVE  D!Uploaded(kind, h) \in D!FileRow /\ h \in D!Ids
  BY DEF D!Uploaded, D!FileRow, D!Keys, D!Ids

LEMMA UploadDocumentDoes ==
    ASSUME D!IInv, NEW h \in Requests, D!UploadDocument(h)
    PROVE  PaperGood(h)
<1>1. PaperOthersStay(h) /\ D!VarsInv' /\ D!TypeOK
  BY PaperHoldsOf, PaperSetNone DEF D!UploadDocument
<1>2. PICK x : x = D!Uploaded("document", h)
  OBVIOUS
<1>3. document' = D!Save(document, h, x) /\ UNCHANGED <<folder, shelf>> /\ file' = file
      /\ UNCHANGED D!Bucket
  BY <1>2 DEF D!UploadDocument, D!Newer
<1>4. x \in D!FileRow /\ h \in D!Ids /\ D!IsTable(document, D!Ids, D!FileRow)
  BY <1>1, <1>2, Uploading DEF D!TypeOK
<1>5. D!IsTable(document', D!Ids, D!FileRow)
  BY <1>3, <1>4, PaperStoredTable
<1>6. TablesOK' /\ FileStep(h)
  BY <1>3, <1>5, TablesStay
<1>7. paperPc[h] = "upload_save" /\ paperPc'[h] = "done" /\ paperCall[h].ids = {"document"}
  BY <1>1 DEF D!UploadDocument, D!Goto, D!TypeOK
<1>8. /\ DOMAIN document' = DOMAIN document \cup {h} /\ document'[h] = x
      /\ \A d \in DOMAIN document : d # h => document'[d] = document[d]
  BY <1>3 DEF D!Save
<1>9. DocStep(h)
  BY <1>2, <1>7, <1>8 DEF DocStep
<1>10. DoomStep(h)
  BY <1>1, <1>3, DoomStays
<1>11. "upload_save" \in D!InFlight /\ D!Goto(h, "upload_save", "done") /\ D!Same
  BY DEF D!InFlight, D!UploadDocument
<1>12. QED
  BY <1>1, <1>6, <1>9, <1>10, <1>11, StoreGood

LEMMA UploadFileDoes ==
    ASSUME D!IInv, NEW h \in Requests, D!UploadFile(h)
    PROVE  PaperGood(h)
<1>1. PaperOthersStay(h) /\ D!VarsInv' /\ D!TypeOK
  BY PaperHoldsOf, PaperSetNone DEF D!UploadFile
<1>2. PICK x : x = D!Uploaded("file", h)
  OBVIOUS
<1>3. file' = D!Save(file, h, x) /\ UNCHANGED <<folder, shelf>> /\ document' = document
      /\ UNCHANGED D!Bucket
  BY <1>2 DEF D!UploadFile, D!Docs
<1>4. x \in D!FileRow /\ h \in D!Ids /\ D!IsTable(file, D!Ids, D!FileRow)
  BY <1>1, <1>2, Uploading DEF D!TypeOK
<1>5. D!IsTable(file', D!Ids, D!FileRow)
  BY <1>3, <1>4, PaperStoredTable
<1>6. TablesOK' /\ DocStep(h)
  BY <1>3, <1>5, TablesStay
<1>7. paperPc[h] = "upload_save" /\ paperPc'[h] = "done" /\ paperCall[h].ids = {"file"}
  BY <1>1 DEF D!UploadFile, D!Goto, D!TypeOK
<1>8. /\ DOMAIN file' = DOMAIN file \cup {h} /\ file'[h] = x
      /\ \A d \in DOMAIN file : d # h => file'[d] = file[d]
  BY <1>3 DEF D!Save
<1>9. FileStep(h)
  BY <1>2, <1>7, <1>8 DEF FileStep
<1>10. DoomStep(h)
  BY <1>1, <1>3, DoomStays
<1>11. "upload_save" \in D!InFlight /\ D!Goto(h, "upload_save", "done") /\ D!Same
  BY DEF D!InFlight, D!UploadFile
<1>12. QED
  BY <1>1, <1>6, <1>9, <1>10, <1>11, StoreGood

(* What a call has read of documents, it saves.                            *)
LEMMA AddsGood ==
    ASSUME D!IInv, NEW h \in Requests, NEW from \in {"add_save", "change_save"},
               D!Goto(h, from, "done"), D!Same,
           document' = D!SaveAll(document, paperVar[h].rows), UNCHANGED <<folder, D!Newer,
               D!Bucket, paperVar>>
    PROVE  PaperGood(h)
<1>1. PaperOthersStay(h) /\ D!VarsInv' /\ D!TypeOK /\ D!Holding(h) /\ D!Placed(h)
          /\ h \in DOMAIN paperCall
  BY PaperHoldsOf, PaperSetNone DEF D!Goto
<1>2. UNCHANGED <<folder, shelf>> /\ file' = file /\ UNCHANGED D!Bucket
  BY DEF D!Newer
<1>3. PICK rows : rows = paperVar[h].rows
  OBVIOUS
<1>4. DOMAIN rows \subseteq paperCall[h].ids /\ D!Own("document", rows)
  BY <1>1, <1>3 DEF D!Goto, D!Holding, D!Adding, D!Own
<1>5. paperCall[h].op \in D!OfDocument
  BY <1>1 DEF D!Goto, D!Placed, D!Adding, D!OfDocument, D!Changers
<1>6. DOMAIN rows \subseteq D!Ids /\ \A d \in DOMAIN rows : rows[d] \in D!FileRow
  BY <1>1, <1>4, <1>5, Named DEF D!Own
<1>7. D!IsTable(document', D!Ids, D!FileRow)
  BY <1>1, <1>3, <1>6, RowsStored DEF D!TypeOK
<1>8. TablesOK' /\ FileStep(h)
  BY <1>2, <1>7, TablesStay
<1>9. DocStep(h)
  BY DEF DocStep, Adds, D!Goto, D!SaveAll
<1>10. DoomStep(h)
  BY <1>1, <1>2, DoomStays
<1>11. from \in D!InFlight
  BY DEF D!InFlight
<1>12. QED
  BY <1>1, <1>8, <1>9, <1>10, <1>11, StoreGood

LEMMA AddSaveDoes ==
    ASSUME D!IInv, NEW h \in Requests, D!AddSave(h)
    PROVE  PaperGood(h)
  BY AddsGood DEF D!AddSave

LEMMA ChangeSaveDoes ==
    ASSUME D!IInv, NEW h \in Requests, D!ChangeSave(h)
    PROVE  PaperGood(h)
  BY AddsGood DEF D!ChangeSave

LEMMA FileSaveDoes ==
    ASSUME D!IInv, NEW h \in Requests, D!FileSave(h)
    PROVE  PaperGood(h)
<1>1. PaperOthersStay(h) /\ D!VarsInv' /\ D!TypeOK /\ D!Holding(h) /\ D!Placed(h)
          /\ h \in DOMAIN paperCall
      /\ paperPc[h] = "file_save"
  BY PaperHoldsOf, PaperSetNone DEF D!FileSave, D!Goto
<1>2. UNCHANGED <<folder, shelf>> /\ document' = document /\ UNCHANGED D!Bucket
  BY DEF D!FileSave, D!Docs
<1>3. PICK rows : rows = paperVar[h].rows
  OBVIOUS
<1>4. DOMAIN rows \subseteq paperCall[h].ids /\ D!Files(rows)
  BY <1>1, <1>3 DEF D!Holding, D!Filing, D!Files
<1>5. paperCall[h].op \in D!OfFile /\ paperCall[h].op \in D!FileSavers
  BY <1>1 DEF D!Placed, D!Filing, D!OfFile
<1>6. DOMAIN rows \subseteq D!Ids /\ \A d \in DOMAIN rows : rows[d] \in D!FileRow
  BY <1>1, <1>4, <1>5, Named DEF D!Files
<1>7. file' = D!SaveAll(file, rows)
  BY <1>3 DEF D!FileSave
<1>8. D!IsTable(file', D!Ids, D!FileRow)
  BY <1>1, <1>6, <1>7, RowsStored DEF D!TypeOK
<1>9. TablesOK' /\ DocStep(h)
  BY <1>2, <1>8, TablesStay
<1>10. FileStep(h)
  BY <1>1, <1>3, <1>7 DEF FileStep, D!SaveAll
<1>11. DoomStep(h)
  BY <1>1, <1>2, DoomStays
<1>12. PICK to \in {"done", "file_read"} : /\ to = IF paperVar[h].todo = {} THEN "done"
                                               ELSE "file_read"
                                          /\ D!Goto(h, "file_save", to)
  BY DEF D!FileSave
<1>13. D!Same /\ paperVar' = paperVar /\ paperCall' = paperCall /\ paperPc'[h] = to
  BY <1>1, <1>12 DEF D!FileSave, D!Same, D!Goto, D!TypeOK
<1>14. to = "file_read" => D!Placed(h)'
  BY <1>5, <1>13 DEF D!Placed, D!Filing, D!FileSavers, D!Adding, D!Removing
<1>15. to = "file_read" => paperVar[h].row \in D!Ids
  BY <1>1, <1>12 DEF D!Holding
<1>16. paperVar[h].todo \subseteq paperCall[h].ids
  BY <1>1 DEF D!Holding, D!Filing
<1>17. D!Files(paperVar'[h].rows) /\ D!Files(paperVar[h].rows)' = D!Files(paperVar'[h].rows)
           /\ paperVar'[h].rows = rows
  BY <1>3, <1>4, <1>13 DEF D!Files
<1>18. to = "file_read" => D!Holding(h)'
  BY <1>4, <1>13, <1>15, <1>16, <1>17 DEF D!Holding, D!Filing, D!Adding, D!Removing
<1>19. "file_save" \in D!InFlight /\ to # "remove_read"
           /\ to \in {"done", "failed", "remove_read", "file_read"}
  BY <1>12 DEF D!InFlight
<1>20. QED
  BY <1>1, <1>9, <1>10, <1>11, <1>12, <1>13, <1>14, <1>18, <1>19, StoreGood
LEMMA RemoveActDoes ==
    ASSUME D!IInv, NEW h \in Requests, D!RemoveAct(h)
    PROVE  PaperGood(h)
<1> DEFINE gone == DOMAIN paperVar[h].rows
<1>1. PICK left, to : /\ left = paperVar[h].todo \ gone
                      /\ to = IF left = {} THEN "done" ELSE "remove_read"
  OBVIOUS
<1>2. /\ D!Goto(h, "remove_act", to) /\ D!Set(h, "todo", left) /\ D!Same
      /\ document' = [d \in DOMAIN document \ gone |-> document[d]]
      /\ doomed' = doomed \cup D!Linked(paperVar[h].rows)
      /\ UNCHANGED <<folder, shelf>> /\ file' = file /\ object' = object
  BY <1>1 DEF D!RemoveAct, D!Newer
<1>3. D!TypeOK /\ D!VarsInv /\ D!Holding(h) /\ D!Placed(h) /\ h \in DOMAIN paperCall
          /\ paperPc[h] = "remove_act"
  BY <1>2, PaperHoldsOf DEF D!Goto
<1>4. PaperOthersStay(h) /\ D!VarsInv' /\ paperVar'[h].todo = left
          /\ paperVar'[h].rows = paperVar[h].rows
  BY <1>2, <1>3, PaperSetTodo
<1>5. PICK rows : rows = paperVar[h].rows
  OBVIOUS
<1>6. gone \subseteq paperCall[h].ids /\ D!Own("document", rows)
          /\ paperVar[h].todo \subseteq paperCall[h].ids
  BY <1>3, <1>5 DEF D!Holding, D!Removing, D!Own
<1>7. paperCall[h].op = "remove" /\ paperCall[h].op \in D!OfDocument
  BY <1>3 DEF D!Placed, D!Removing, D!OfDocument
<1>8. DOMAIN document' = DOMAIN document \ gone
          /\ \A d \in DOMAIN document' : document'[d] = document[d]
  BY <1>2
<1>9. D!IsTable(document', D!Ids, D!FileRow)
  BY <1>2, <1>3 DEF D!TypeOK, D!IsTable
<1>10. TablesOK' /\ FileStep(h)
  BY <1>2, <1>9, TablesStay
<1>11. DocStep(h)
  BY <1>3, <1>6, <1>8 DEF DocStep
<1>12. \A key \in D!Linked(rows) : \E d \in gone : key = <<"document", d>>
  BY <1>5, <1>6 DEF D!Linked, D!Own
<1>13. \A key \in doomed' \ doomed :
         \E d \in paperCall[h].ids : key = <<"document", d>> /\ paperPc[h] = "remove_act"
             /\ d \notin DOMAIN document'
  <2>1. TAKE key \in doomed' \ doomed
  <2>2. key \in D!Linked(rows)
    BY <1>2, <1>5
  <2>3. PICK d \in gone : key = <<"document", d>>
    BY <1>12, <2>2
  <2>4. d \in paperCall[h].ids /\ d \notin DOMAIN document'
    BY <1>6, <1>8
  <2>5. QED
    BY <1>3, <2>3, <2>4
<1>14. object \subseteq object' /\ object' \subseteq D!Keys /\ doomed \subseteq doomed'
  BY <1>2, <1>3 DEF D!TypeOK
<1>15. DoomStep(h)
  BY <1>13, <1>14 DEF DoomStep
<1>16. paperCall' = paperCall /\ paperPc'[h] = to
  BY <1>2, <1>3 DEF D!Same, D!Goto, D!TypeOK
<1>17. D!Placed(h)' \/ to # "remove_read"
  BY <1>7, <1>16 DEF D!Placed, D!Removing, D!Adding, D!Filing
<1>18. D!Own("document", paperVar[h].rows)' = D!Own("document", paperVar'[h].rows)
           /\ paperVar'[h].rows = rows
  BY <1>4, <1>5 DEF D!Own
<1>19. left \subseteq paperCall[h].ids /\ gone = DOMAIN rows
  BY <1>1, <1>5, <1>6
<1>20. D!Holding(h)' \/ to # "remove_read"
  BY <1>4, <1>6, <1>16, <1>18, <1>19 DEF D!Holding, D!Removing, D!Adding, D!Filing
<1>21. "remove_act" \in D!InFlight /\ to # "file_read"
           /\ to \in {"done", "failed", "remove_read", "file_read"}
  BY <1>1 DEF D!InFlight
<1>22. QED
  BY <1>2, <1>4, <1>10, <1>11, <1>15, <1>17, <1>20, <1>21, StoreGood

LEMMA RemoveLogoDoes ==
    ASSUME D!IInv, NEW h \in Requests, D!RemoveLogo(h)
    PROVE  PaperGood(h)
<1>1. PaperOthersStay(h) /\ D!VarsInv' /\ D!TypeOK
  BY PaperHoldsOf, PaperSetNone DEF D!RemoveLogo
<1>2. /\ document' = [d \in DOMAIN document \ DOMAIN paperVar[h].rows |-> document[d]]
      /\ UNCHANGED <<folder, shelf>> /\ file' = file /\ UNCHANGED D!Bucket
  BY DEF D!RemoveLogo, D!Newer
<1>3. D!IsTable(document', D!Ids, D!FileRow)
  BY <1>1, <1>2 DEF D!TypeOK, D!IsTable
<1>4. TablesOK' /\ FileStep(h)
  BY <1>2, <1>3, TablesStay
<1>5. paperPc[h] = "remove_act" /\ DOMAIN paperVar[h].rows \subseteq paperCall[h].ids
  BY PaperHoldsOf DEF D!RemoveLogo, D!Goto, D!Holding, D!Removing
<1>6. DocStep(h)
  BY <1>2, <1>5 DEF DocStep
<1>7. DoomStep(h)
  BY <1>1, <1>2, DoomStays
<1>8. "remove_act" \in D!InFlight /\ D!Goto(h, "remove_act", "failed") /\ D!Same
  BY DEF D!InFlight, D!RemoveLogo
<1>9. QED
  BY <1>1, <1>4, <1>6, <1>7, <1>8, StoreGood

LEMMA ShelfFilesDoes ==
    ASSUME D!IInv, NEW h \in Requests, D!ShelfFiles(h)
    PROVE  PaperGood(h)
<1>1. PICK in : in = {f \in DOMAIN file : file[f].folder \in paperCall[h].ids}
  OBVIOUS
<1>2. /\ D!Goto(h, "shelf_files", "done") /\ D!Set(h, "todo", in) /\ D!Same
      /\ doomed' = doomed \cup {file[f].link : f \in in}
      /\ UNCHANGED <<folder, shelf>> /\ document' = document /\ file' = file /\ object' = object
  BY <1>1 DEF D!ShelfFiles, D!Docs, D!Newer
<1>3. D!TypeOK /\ D!VarsInv
  BY PaperHoldsOf
<1>4. PaperOthersStay(h) /\ D!VarsInv' /\ paperVar'[h].todo = in
  BY <1>2, <1>3, PaperSetTodo
<1>5. TablesOK' /\ DocStep(h) /\ FileStep(h)
  BY <1>2, TablesStay
<1>6. paperPc[h] = "shelf_files" /\ paperPc'[h] = "done"
  BY <1>2, <1>3 DEF D!Goto, D!TypeOK
<1>7. \A f \in in : f \in DOMAIN file /\ file[f].link = <<"file", f>>
  BY <1>1, FileIs
<1>8. \A key \in doomed' \ doomed :
        \E f \in paperVar'[h].todo :
          key = <<"file", f>> /\ paperPc[h] = "shelf_files" /\ paperPc'[h] = "done"
              /\ f \in DOMAIN file
  BY <1>2, <1>4, <1>6, <1>7
<1>9. object \subseteq object' /\ object' \subseteq D!Keys /\ doomed \subseteq doomed'
  BY <1>2, <1>3 DEF D!TypeOK
<1>10. DoomStep(h)
  BY <1>8, <1>9 DEF DoomStep
<1>11. "shelf_files" \in D!InFlight
  BY DEF D!InFlight
<1>12. QED
  BY <1>2, <1>4, <1>5, <1>10, <1>11, StoreGood

LEMMA FileDeleteDoes ==
    ASSUME D!IInv, NEW h \in Requests, D!FileDelete(h)
    PROVE  PaperGood(h)
<1>1. /\ D!Goto(h, "file_delete", "done") /\ D!Same
          /\ file' = [f \in DOMAIN file \ paperCall[h].ids |-> file[f]]
      /\ doomed' = doomed \cup D!Linked(paperVar[h].rows)
      /\ UNCHANGED <<folder, shelf>> /\ document' = document /\ object' = object
  BY DEF D!FileDelete, D!Docs
<1>2. PaperOthersStay(h) /\ D!VarsInv' /\ D!TypeOK /\ D!Holding(h) /\ paperPc[h] = "file_delete"
  BY <1>1, PaperHoldsOf, PaperSetNone DEF D!FileDelete, D!Goto
<1>3. PICK rows : rows = paperVar[h].rows
  OBVIOUS
<1>4. DOMAIN rows \subseteq paperCall[h].ids /\ D!Files(rows)
  BY <1>2, <1>3 DEF D!Holding, D!Files
<1>5. DOMAIN file' = DOMAIN file \ paperCall[h].ids /\ \A f \in DOMAIN file' : file'[f] = file[f]
  BY <1>1
<1>6. D!IsTable(file', D!Ids, D!FileRow)
  BY <1>1, <1>2 DEF D!TypeOK, D!IsTable
<1>7. TablesOK' /\ DocStep(h)
  BY <1>1, <1>6, TablesStay
<1>8. FileStep(h)
  BY <1>5 DEF FileStep
<1>9. \A key \in D!Linked(rows) : \E f \in paperCall[h].ids : key = <<"file", f>>
  BY <1>4 DEF D!Linked, D!Files
<1>10. \A key \in doomed' \ doomed :
         \E f \in paperCall[h].ids : key = <<"file", f>> /\ paperPc[h] = "file_delete"
             /\ f \notin DOMAIN file'
  BY <1>1, <1>2, <1>3, <1>5, <1>9
<1>11. object \subseteq object' /\ object' \subseteq D!Keys /\ doomed \subseteq doomed'
  BY <1>1, <1>2 DEF D!TypeOK
<1>12. DoomStep(h)
  BY <1>10, <1>11 DEF DoomStep
<1>13. "file_delete" \in D!InFlight
  BY DEF D!InFlight
<1>14. QED
  BY <1>1, <1>2, <1>7, <1>8, <1>12, <1>13, StoreGood

LEMMA UploadDoes ==
    ASSUME D!IInv, NEW h \in Requests, D!Upload(h)
    PROVE  PaperGood(h)
<1>1. PICK kind \in {"document", "file"} :
        D!Begin(h, "upload", {kind}) /\ object' = object \cup {<<kind, h>>}
  BY DEF D!Upload
<1>2. PICK ids : ids = {kind} /\ D!Begin(h, "upload", ids)
  BY <1>1
<1>3. PaperOthersStay(h) /\ D!VarsInv' /\ D!TypeOK
  BY PaperHoldsOf, PaperSetNone DEF D!Upload
<1>4. D!Goto(h, "idle", "upload_save") /\ "upload_save" \in D!Steps \ {"idle"}
  BY DEF D!Upload, D!Steps, D!InFlight
<1>5. /\ PaperMoves(h) /\ paperPc[h] = "idle" /\ paperPc'[h] = "upload_save"
      /\ paperCall'[h].op = "upload" /\ paperCall'[h].ids = ids
  BY <1>2, <1>3, <1>4, PaperBeginMoves
<1>6. D!Placed(h)' /\ D!Holding(h)'
  BY <1>5 DEF D!Placed, D!Holding, D!Adding, D!Removing, D!Filing
<1>7. document' = document /\ file' = file /\ doomed' = doomed /\ UNCHANGED <<folder, shelf>>
  BY DEF D!Upload, D!Docs, D!Newer
<1>8. TablesOK' /\ DocStep(h) /\ FileStep(h)
  BY <1>7, TablesStay
<1>9. <<kind, h>> \in D!Keys
  BY DEF D!Keys, D!Ids
<1>10. DoomStep(h)
  BY <1>1, <1>3, <1>7, <1>9 DEF DoomStep, D!TypeOK
<1>11. FolderStep(h)
  BY <1>5 DEF FolderStep
<1>12. <<kind, h>> \in object'
  BY <1>1
<1>13. AskStep(h)
  BY <1>2, <1>5, <1>12 DEF AskStep, D!OfDocument, D!OfFile, D!Changers, D!FileSavers
<1>14. QED
  BY <1>5, <1>6, <1>8, <1>10, <1>11, <1>13 DEF PaperGood

(* One of the documents in the loop, or the end of it.                     *)
LEMMA PaperRemoveEachDoes ==
    ASSUME D!IInv, NEW h \in Requests, NEW at, NEW next, D!RemoveEach(h, at, next),
           <<at, next>> \in {<<"drop_documents", "drop_all">>, <<"drop_wipe", "drop_sub">>}
    PROVE  PaperGood(h)
<1>1. at \in D!InFlight /\ <<at, next>> \in Goes
  BY DEF D!InFlight, Goes
<1>2. CASE paperPc[h] = at /\ D!Same /\ UNCHANGED <<folder, D!Newer, D!Bucket, paperPc>>
           /\ \E d \in paperVar[h].todo : document' = D!Delete(document, d)
               /\ D!Set(h, "todo", paperVar[h].todo \ {d})
  <2>1. PICK d, ds : /\ document' = D!Delete(document, d) /\ D!Set(h, "todo", ds)
                     /\ d \in paperVar[h].todo /\ ds = paperVar[h].todo \ {d}
    BY <1>2
  <2>2. PaperOthersStay(h) /\ D!VarsInv' /\ paperVar'[h].todo = ds
    BY <2>1, PaperHoldsOf, PaperSetTodo
  <2>3. paperPc' = paperPc /\ UNCHANGED <<folder, shelf>> /\ file' = file /\ UNCHANGED D!Bucket
    BY <1>2 DEF D!Newer
  <2>4. PaperMoves(h) /\ h \in DOMAIN paperCall /\ paperCall' = paperCall /\ D!Placed(h)
            /\ D!Holding(h) /\ D!TypeOK
    BY <1>1, <1>2, <2>2, PaperStayMoves, PaperHoldsOf
  <2>5. paperPc[h] \in {"drop_documents", "drop_wipe"} /\ paperPc'[h] = paperPc[h]
    BY <1>2, <2>3
  <2>6. D!Placed(h)'
    BY <2>4, <2>5 DEF D!Placed
  <2>7. \A e \in ds : paperPc[h] = "drop_documents" => D!Had("document", e)
    BY <2>1, <2>4 DEF D!Holding
  <2>8. \A e \in ds : paperPc[h] = "drop_documents" => D!Had("document", e)'
    BY <2>4, <2>7, PaperHadStays
  <2>9. D!Holding(h)'
    BY <2>2, <2>5, <2>8 DEF D!Holding, D!Adding, D!Removing, D!Filing
  <2>10. D!IsTable(document, D!Ids, D!FileRow)
    BY <2>4 DEF D!TypeOK
  <2>11. D!IsTable(document', D!Ids, D!FileRow)
    BY <2>1, <2>10, PaperLessTable
  <2>12. TablesOK' /\ FileStep(h)
    BY <2>3, <2>11, TablesStay
  <2>13. DocStep(h)
    <3>1. DOMAIN document' = DOMAIN document \ {d}
              /\ \A e \in DOMAIN document' : document'[e] = document[e]
      BY <2>1 DEF D!Delete
    <3>2. d \in paperVar[h].todo
      BY <2>1
    <3>3. QED
      BY <2>5, <3>1, <3>2 DEF DocStep
  <2>14. DoomStep(h)
    BY <2>3, <2>4, DoomStays
  <2>15. FolderStep(h)
    BY <2>1, <2>2, <2>5 DEF FolderStep
  <2>16. AskStep(h)
    BY <2>5 DEF AskStep
  <2>17. QED
    BY <2>4, <2>6, <2>9, <2>12, <2>13, <2>14, <2>15, <2>16 DEF PaperGood
<1>3. CASE D!Goto(h, at, next) /\ D!Same /\ UNCHANGED <<D!tables, paperVar>>
  <2>1. PaperOthersStay(h) /\ D!VarsInv'
    BY <1>3, PaperHoldsOf, PaperSetNone
  <2>2. FoldersOK' /\ UNCHANGED <<document, file, object, doomed>>
    BY <1>3, Quiet
  <2>3. D!Goto(h, at, next) /\ D!Same
    BY <1>3
  <2>4. next \notin {"add_read", "add_save", "remove_act", "file_save", "drop_documents"}
    OBVIOUS
  <2>5. QED
    BY <1>1, <2>1, <2>2, <2>3, <2>4, FolderGood
<1>4. QED
  BY <1>2, <1>3 DEF D!RemoveEach

LEMMA PaperStepIs ==
    ASSUME D!IInv, NEW h \in Requests, PaperStep(h)
    PROVE  PaperGood(h)
<1>1. CASE D!OfFolders(h)
  BY <1>1, PostFolderDoes, PutFolderDoes, SaveFolderDoes DEF D!OfFolders
<1>2. CASE D!Drop(h)
  <2>1. CASE D!DropDocuments(h) \/ D!DropWipe(h)
    BY <2>1, PaperRemoveEachDoes DEF D!DropDocuments, D!DropWipe
  <2>2. QED
    BY <1>2, <2>1, DropFolderDoes, PaperDropRemoveDoes, DropFindDoes, DropAllDoes, DropSubDoes,
       DropEveryDoes DEF D!Drop
<1>3. CASE D!Upload(h)
  BY <1>3, UploadDoes
<1>4. CASE D!OfDocuments(h)
  BY <1>4, UploadDocumentDoes, AddDocumentsDoes, AddReadDoes, AddSaveDoes, PutDocumentDoes,
     MoveDocumentsDoes, ChangeSaveDoes, RemoveDocumentsDoes, RemoveReadDoes, RemoveActDoes,
     RemoveLogoDoes DEF D!OfDocuments
<1>5. CASE D!OfFiles(h)
  BY <1>5, PostShelfDoes, PutShelfDoes, ShelfSaveDoes, DeleteShelfDoes, ShelfFilesDoes,
     UploadFileDoes, PostFilesDoes, FileReadDoes, PutFileDoes, FileSaveDoes, DeleteFileDoes,
     FileDeleteDoes DEF D!OfFiles
<1>6. CASE D!Abort(h)
  BY <1>6, PaperAbortDoes
<1>7. QED
  BY <1>1, <1>2, <1>3, <1>4, <1>5, <1>6 DEF PaperStep
-----------------------------------------------------------------------------
(* What the conjuncts of the invariant make of a step.                     *)
LEMMA OthersAre ==
    ASSUME D!IInv, NEW h \in Requests, PaperGood(h), NEW x \in Requests, x # h
    PROVE  /\ paperPc'[x] = paperPc[x] /\ paperVar'[x] = paperVar[x]
               /\ (x \in DOMAIN paperCall' <=> x \in DOMAIN paperCall)
           /\ x \in DOMAIN paperCall => paperCall'[x] = paperCall[x]
           /\ x \in D!Busy' => x \in D!Busy
           /\ x \in D!Busy' => {h, x} \in paperCrossed'
<1>1. PaperMoves(h) /\ D!TypeOK /\ D!CallsInv
  BY DEF D!IInv, PaperGood
<1>2. paperPc'[x] = paperPc[x] /\ paperVar'[x] = paperVar[x]
          /\ (x \in DOMAIN paperCall' <=> x \in DOMAIN paperCall)
      /\ (x \in DOMAIN paperCall => paperCall'[x] = paperCall[x])
  BY <1>1 DEF PaperMoves, PaperOthersStay
<1>3. x \in D!Busy' => x \in D!Busy
  BY <1>2 DEF D!Busy
<1>4. x \in D!Busy /\ paperPc[h] = "idle" => {h, x} \in paperCrossed'
  BY <1>1 DEF PaperMoves
<1>5. x \in D!Busy /\ paperPc[h] # "idle" => {h, x} \in paperCrossed'
  <2>1. SUFFICES ASSUME x \in D!Busy, paperPc[h] # "idle"
                 PROVE  {h, x} \in paperCrossed'
    OBVIOUS
  <2>2. h \in D!Busy
    BY <1>1, <2>1 DEF PaperMoves, D!Busy
  <2>3. {h, x} \in paperCrossed
    BY <1>1, <2>1, <2>2 DEF D!CallsInv
  <2>4. QED
    BY <1>1, <2>3 DEF PaperMoves
<1>6. QED
  BY <1>2, <1>3, <1>4, <1>5

(* The call whose step it is, once it has begun.                           *)
LEMMA ItselfIs ==
    ASSUME D!IInv, NEW h \in Requests, PaperGood(h), paperPc[h] # "idle"
    PROVE  /\ h \in D!Busy /\ h \in DOMAIN paperCall /\ paperCall' = paperCall /\ D!Placed(h)
               /\ D!Holding(h)
           /\ \A x \in D!Busy' : x = h \/ {h, x} \in paperCrossed'
<1>1. PaperMoves(h) /\ D!TypeOK
  BY DEF PaperGood, D!IInv
<1>2. h \in D!Busy /\ h \in DOMAIN paperCall /\ paperCall' = paperCall /\ D!Placed(h)
          /\ D!Holding(h)
  BY <1>1, PaperHoldsOf DEF PaperMoves, D!Busy
<1>3. \A x \in D!Busy' : x \in Requests
  BY <1>1 DEF D!Busy, PaperMoves, D!TypeOK
<1>4. QED
  BY <1>2, <1>3, OthersAre

LEMMA MadeStays ==
    ASSUME NEW h \in Requests, PaperMoves(h), NEW ops
    PROVE  /\ D!Made(ops) \subseteq D!Made(ops)'
           /\ \A x \in DOMAIN paperCall : x \in D!Made(ops)' => x \in D!Made(ops)
           /\ \A x \in D!Made(ops) : paperCall'[x] = paperCall[x]
  BY DEF PaperMoves, D!Made

LEMMA CrossedStays ==
    ASSUME NEW h \in Requests, PaperMoves(h), NEW w, NEW ops, D!Crossed(w, ops)
    PROVE  D!Crossed(w, ops)'
<1>1. PICK x \in D!Made(ops) \ {w} : {w, x} \in paperCrossed
  BY DEF D!Crossed
<1>2. x \in D!Made(ops)' /\ {w, x} \in paperCrossed'
  BY <1>1, MadeStays DEF PaperMoves
<1>3. QED
  BY <1>1, <1>2 DEF D!Crossed

LEMMA NotHad ==
    ASSUME D!IInv, NEW h \in Requests, PaperGood(h), paperPc[h] = "upload_save", NEW kind
    PROVE  ~D!Had(kind, h)
<1>1. h \notin Known
  BY NewDocumentIds
<1>2. QED
  BY <1>1 DEF D!Had

(* What a call saves it has named, and it is one of those that may.        *)
LEMMA SaverNames ==
    ASSUME D!IInv, NEW h \in Requests, PaperGood(h), NEW d \in DOMAIN paperVar[h].rows
    PROVE  /\ Adds(h) => /\ h \in D!Busy /\ paperCall[h].op \in D!Changers /\ d \in paperCall[h].ids
                         /\ D!Own("document", paperVar[h].rows)
           /\ paperPc[h] = "file_save" => /\ h \in D!Busy /\ paperCall[h].op \in D!FileSavers
               /\ d \in paperCall[h].ids
                                     /\ D!Files(paperVar[h].rows)
<1>1. CASE Adds(h)
  <2>1. paperPc[h] \in {"add_save", "change_save"}
    BY <1>1 DEF Adds
  <2>2. h \in D!Busy /\ D!Placed(h) /\ D!Holding(h)
    BY <2>1, ItselfIs
  <2>3. QED
    BY <2>1, <2>2 DEF D!Placed, D!Holding, D!Adding, D!Changers
<1>2. CASE paperPc[h] = "file_save"
  <2>1. h \in D!Busy /\ D!Placed(h) /\ D!Holding(h)
    BY <1>2, ItselfIs
  <2>2. h \in D!Busy /\ paperCall[h].op \in D!FileSavers /\ d \in paperCall[h].ids
            /\ D!Files(paperVar[h].rows)
    BY <1>2, <2>1 DEF D!Placed, D!Holding, D!Filing, D!FileSavers
  <2>3. ~Adds(h)
    BY <1>2 DEF Adds
  <2>4. QED
    BY <2>2, <2>3
<1>3. QED
  BY <1>1, <1>2

(* The keys that a step dooms.                                             *)
LEMMA DoomedHad ==
    ASSUME D!IInv, NEW h \in Requests, PaperGood(h), NEW key \in doomed' \ doomed
    PROVE  /\ paperPc[h] \in {"remove_act", "shelf_files", "file_delete"}
           /\ D!Had(key[1], key[2]) /\ key \in D!Keys
<1>1. D!TypeOK /\ D!HadInv /\ DoomStep(h)
  BY DEF D!IInv, PaperGood
<1>2. CASE \E d \in paperCall[h].ids : key = <<"document", d>> /\ paperPc[h] = "remove_act"
  <2>1. PICK d \in paperCall[h].ids : key = <<"document", d>> /\ paperPc[h] = "remove_act"
    BY <1>2
  <2>2. h \in DOMAIN paperCall /\ paperCall[h].op \in D!OfDocument
    BY <2>1, ItselfIs DEF D!Placed, D!Removing, D!OfDocument
  <2>3. D!Had("document", d) /\ d \in D!Ids
    BY <2>2, Named
  <2>4. QED
    BY <2>1, <2>3 DEF D!Keys
<1>3. CASE \E f \in DOMAIN file : key = <<"file", f>> /\ paperPc[h] = "shelf_files"
  BY <1>1, <1>3, FileIs DEF D!HadInv, D!Keys
<1>4. CASE \E f \in paperCall[h].ids : key = <<"file", f>> /\ paperPc[h] = "file_delete"
  <2>1. PICK d \in paperCall[h].ids : key = <<"file", d>> /\ paperPc[h] = "file_delete"
    BY <1>4
  <2>2. h \in DOMAIN paperCall /\ paperCall[h].op \in D!OfFile
    BY <2>1, ItselfIs DEF D!Placed, D!OfFile
  <2>3. D!Had("file", d) /\ d \in D!Ids
    BY <2>2, Named
  <2>4. QED
    BY <2>1, <2>3 DEF D!Keys
<1>5. QED
  BY <1>1, <1>2, <1>3, <1>4 DEF DoomStep

LEMMA PaperTypesNext ==
    ASSUME D!IInv, NEW h \in Requests, PaperGood(h)
    PROVE  D!TypeOK' /\ D!VarsInv'
<1>1. D!TypeOK /\ PaperMoves(h) /\ TablesOK' /\ DoomStep(h)
  BY DEF D!IInv, PaperGood
<1>2. /\ D!IsTable(folder', D!Ids, D!FolderRow) /\ shelf' \subseteq D!Ids
      /\ D!IsTable(document', D!Ids, D!FileRow) /\ D!IsTable(file', D!Ids, D!FileRow)
  BY <1>1 DEF TablesOK, FoldersOK
<1>3. object' \subseteq D!Keys
  BY <1>1 DEF DoomStep
<1>4. doomed' \subseteq D!Keys
  BY <1>1, DoomedHad DEF D!TypeOK
<1>5. paperPc' \in [Requests -> D!Steps] /\ DOMAIN paperCall' \subseteq Requests
      /\ paperCrossed' \subseteq {{g, x} : g, x \in Requests} /\ D!VarsInv'
  BY <1>1 DEF PaperMoves, D!TypeOK
<1>6. QED
  BY <1>2, <1>3, <1>4, <1>5 DEF D!TypeOK

LEMMA PaperCallsNext ==
    ASSUME D!IInv, NEW h \in Requests, PaperGood(h)
    PROVE  D!CallsInv'
<1>1. D!TypeOK /\ D!CallsInv /\ PaperMoves(h) /\ D!Placed(h)'
  BY DEF D!IInv, PaperGood
<1>2. \A x \in Requests : paperPc'[x] = "idle" <=> x \notin DOMAIN paperCall'
  <2>1. TAKE x \in Requests
  <2>2. CASE x = h
    BY <1>1, <2>2 DEF PaperMoves
  <2>3. CASE x # h
    BY <1>1, <2>3, OthersAre DEF D!CallsInv
  <2>4. QED
    BY <2>2, <2>3
<1>3. D!Busy' \subseteq Requests
  BY <1>1 DEF D!Busy, PaperMoves, D!TypeOK
<1>4. \A g, x \in D!Busy' : g = x \/ {g, x} \in paperCrossed'
  <2>1. SUFFICES ASSUME NEW g \in D!Busy', NEW x \in D!Busy', g # x
                 PROVE  {g, x} \in paperCrossed'
    OBVIOUS
  <2>2. CASE g = h
    BY <1>3, <2>1, <2>2, OthersAre
  <2>3. CASE x = h
    <3>1. {h, g} \in paperCrossed'
      BY <1>3, <2>1, <2>3, OthersAre
    <3>2. {h, g} = {g, x}
      BY <2>3
    <3>3. QED
      BY <3>1, <3>2
  <2>4. CASE g # h /\ x # h
    <3>1. g \in D!Busy /\ x \in D!Busy
      BY <1>3, <2>1, <2>4, OthersAre
    <3>2. {g, x} \in paperCrossed
      BY <1>1, <2>1, <3>1 DEF D!CallsInv
    <3>3. QED
      BY <1>1, <3>2 DEF PaperMoves
  <2>5. QED
    BY <2>2, <2>3, <2>4
<1>5. \A x \in DOMAIN paperCall' : D!Placed(x)'
  <2>1. SUFFICES ASSUME NEW x \in DOMAIN paperCall', x # h
                 PROVE  D!Placed(x)'
    BY <1>1
  <2>2. x \in Requests /\ x \in DOMAIN paperCall
    BY <1>1, <2>1 DEF PaperMoves, D!TypeOK
  <2>3. D!Placed(x) /\ paperPc'[x] = paperPc[x] /\ paperCall'[x] = paperCall[x]
    BY <1>1, <2>1, <2>2, OthersAre DEF D!CallsInv
  <2>4. QED
    BY <2>3 DEF D!Placed
<1>6. QED
  BY <1>2, <1>4, <1>5 DEF D!CallsInv

LEMMA PaperHadNext ==
    ASSUME D!IInv, NEW h \in Requests, PaperGood(h)
    PROVE  D!HadInv'
<1>1. D!TypeOK /\ D!HadInv /\ PaperMoves(h) /\ DocStep(h) /\ FileStep(h) /\ AskStep(h)
  BY DEF D!IInv, PaperGood
<1>2. ASSUME NEW d \in DOMAIN document'
      PROVE  D!Had("document", d)'
  <2>1. CASE d \in DOMAIN document
    BY <1>1, <2>1, PaperHadStays DEF D!HadInv
  <2>2. CASE Adds(h) /\ d \in DOMAIN paperVar[h].rows
    <3>1. h \in DOMAIN paperCall /\ paperCall[h].op \in D!OfDocument /\ d \in paperCall[h].ids
      BY <2>2, SaverNames DEF D!Busy, D!OfDocument
    <3>2. QED
      BY <1>1, <3>1, Named, PaperHadStays
  <2>3. CASE d = h /\ paperPc[h] = "upload_save" /\ paperPc'[h] = "done"
                 /\ paperCall[h].ids = {"document"}
    BY <2>3, ItselfIs DEF D!Had, D!Placed
  <2>4. QED
    BY <1>1, <2>1, <2>2, <2>3 DEF DocStep
<1>3. ASSUME NEW d \in DOMAIN file'
      PROVE  D!Had("file", d)'
  <2>1. CASE d \in DOMAIN file
    BY <1>1, <2>1, PaperHadStays DEF D!HadInv
  <2>2. CASE paperPc[h] = "file_save" /\ d \in DOMAIN paperVar[h].rows
    <3>1. h \in DOMAIN paperCall /\ paperCall[h].op \in D!OfFile /\ d \in paperCall[h].ids
      BY <2>2, SaverNames DEF D!Busy, D!OfFile
    <3>2. QED
      BY <1>1, <3>1, Named, PaperHadStays
  <2>3. CASE d = h /\ paperPc[h] = "upload_save" /\ paperPc'[h] = "done"
                 /\ paperCall[h].ids = {"file"}
    BY <2>3, ItselfIs DEF D!Had, D!Placed
  <2>4. QED
    BY <1>1, <2>1, <2>2, <2>3 DEF FileStep
<1>4. ASSUME NEW x \in DOMAIN paperCall', NEW d \in paperCall'[x].ids
      PROVE  /\ paperCall'[x].op \in D!OfDocument => D!Had("document", d)'
             /\ paperCall'[x].op \in D!OfFile => D!Had("file", d)'
  <2>1. CASE x \in DOMAIN paperCall
    BY <1>1, <2>1, Named, PaperHadStays DEF PaperMoves
  <2>2. CASE x \notin DOMAIN paperCall
    <3>1. x = h /\ paperPc[h] = "idle"
      BY <1>1, <2>2 DEF PaperMoves
    <3>2. /\ paperCall'[x].op \in D!OfDocument => D!Had("document", d)
          /\ paperCall'[x].op \in D!OfFile => D!Had("file", d)
      BY <1>1, <3>1 DEF AskStep, D!HadInv
    <3>3. QED
      BY <1>1, <3>2, PaperHadStays
  <2>3. QED
    BY <2>1, <2>2
<1>5. QED
  BY <1>2, <1>3, <1>4 DEF D!HadInv, D!Made

LEMMA PaperHoldingNext ==
    ASSUME D!IInv, NEW h \in Requests, PaperGood(h)
    PROVE  D!HoldingInv'
<1>1. D!TypeOK /\ D!CallsInv /\ D!HoldingInv /\ PaperMoves(h) /\ D!Holding(h)'
  BY DEF D!IInv, PaperGood
<1>2. ASSUME NEW x \in Requests, x # h
      PROVE  D!Holding(x)'
  <2>1. D!Holding(x) /\ paperPc'[x] = paperPc[x] /\ paperVar'[x] = paperVar[x]
    BY <1>1, <1>2, OthersAre DEF D!HoldingInv
  <2>2. CASE paperPc[x] = "idle"
    BY <2>1, <2>2 DEF D!Holding, D!Adding, D!Removing, D!Filing
  <2>3. CASE paperPc[x] # "idle"
    <3>1. paperCall'[x] = paperCall[x]
      BY <1>1, <1>2, <2>3, OthersAre DEF D!CallsInv
    <3>2. paperPc[x] = "drop_documents" => \A d \in paperVar[x].todo : D!Had("document", d)'
      BY <1>1, <2>1, PaperHadStays DEF D!Holding
    <3>3. D!Own("document", paperVar[x].rows)' <=> D!Own("document", paperVar[x].rows)
      BY <2>1 DEF D!Own
    <3>4. D!Files(paperVar[x].rows)' <=> D!Files(paperVar[x].rows)
      BY <2>1 DEF D!Files
    <3>5. QED
      BY <2>1, <2>3, <3>1, <3>2, <3>3, <3>4 DEF D!Holding
  <2>4. QED
    BY <2>2, <2>3
<1>3. QED
  BY <1>1, <1>2 DEF D!HoldingInv

LEMMA FolderNext ==
    ASSUME D!IInv, NEW h \in Requests, PaperGood(h)
    PROVE  D!FolderInv'
<1>1. D!TypeOK /\ D!FolderInv /\ PaperMoves(h) /\ DocStep(h) /\ FolderStep(h)
  BY DEF D!IInv, PaperGood
<1>2. SUFFICES ASSUME NEW g \in DOMAIN paperCall', paperPc'[g] = "drop_documents",
                      NEW d \in paperVar'[g].todo \cap DOMAIN document'
               PROVE  document'[d].folder = D!Dropped(g)' \/ D!Crossed(g, D!Changers)'
  BY DEF D!FolderInv
<1>3. g \in Requests
  BY <1>1 DEF PaperMoves, D!TypeOK
<1>4. CASE g = h
  <2>1. paperPc[h] \in {"drop_documents", "drop_find"}
    BY <1>1, <1>2, <1>4 DEF FolderStep
  <2>2. h \in DOMAIN paperCall /\ paperCall' = paperCall
    BY <2>1, ItselfIs
  <2>3. d \in DOMAIN document /\ document'[d] = document[d]
    BY <1>1, <2>1 DEF DocStep, Adds
  <2>4. D!Dropped(h)' = D!Dropped(h)
    BY <2>2 DEF D!Dropped
  <2>5. CASE paperPc[h] = "drop_documents" /\ paperVar'[h].todo \subseteq paperVar[h].todo
    <3>1. document[d].folder = D!Dropped(h) \/ D!Crossed(h, D!Changers)
      BY <1>1, <1>4, <2>2, <2>3, <2>5 DEF D!FolderInv
    <3>2. QED
      BY <1>1, <1>4, <2>3, <2>4, <3>1, CrossedStays
  <2>6. CASE Inside(h, paperVar'[h].todo)
    BY <1>4, <2>3, <2>4, <2>6 DEF Inside
  <2>7. QED
    BY <1>1, <1>2, <1>4, <2>5, <2>6 DEF FolderStep
<1>5. CASE g # h
  <2>1. paperPc[g] = "drop_documents" /\ g \in DOMAIN paperCall /\ paperVar'[g] = paperVar[g]
            /\ paperCall'[g] = paperCall[g]
        /\ g \in D!Busy'
    BY <1>2, <1>3, <1>5, OthersAre DEF D!Busy, D!InFlight
  <2>2. D!Dropped(g)' = D!Dropped(g)
    BY <2>1 DEF D!Dropped
  <2>3. CASE d \in DOMAIN document /\ document'[d] = document[d]
    <3>1. document[d].folder = D!Dropped(g) \/ D!Crossed(g, D!Changers)
      BY <1>1, <2>1, <2>3 DEF D!FolderInv
    <3>2. QED
      BY <1>1, <2>2, <2>3, <3>1, CrossedStays
  <2>4. CASE Adds(h) /\ d \in DOMAIN paperVar[h].rows
    <3>1. h \in DOMAIN paperCall /\ paperCall[h].op \in D!Changers
      BY <2>4, SaverNames DEF D!Busy
    <3>2. h \in D!Made(D!Changers)'
      BY <1>1, <3>1 DEF D!Made, PaperMoves
    <3>3. {h, g} \in paperCrossed' /\ {h, g} = {g, h}
      BY <1>3, <1>5, <2>1, OthersAre
    <3>4. QED
      BY <1>5, <3>2, <3>3 DEF D!Crossed
  <2>5. CASE d = h /\ paperPc[h] = "upload_save"
    <3>1. D!Had("document", d)
      BY <1>3, <2>1, PaperHoldsOf DEF D!Holding
    <3>2. QED
      BY <2>5, <3>1, NotHad
  <2>6. QED
    BY <1>1, <2>3, <2>4, <2>5 DEF DocStep
<1>6. QED
  BY <1>4, <1>5
(* A row that was gone stays so, or is saved by a call that crossed.       *)
LEMMA GoneStays ==
    ASSUME D!IInv, NEW h \in Requests, PaperGood(h), NEW d, NEW w \in DOMAIN paperCall,
           D!Had("document", d), D!Gone(w, d, document, D!Changers)
    PROVE  D!Gone(w, d, document, D!Changers)'
<1>1. PaperMoves(h) /\ DocStep(h) /\ AskStep(h) /\ D!TypeOK
  BY DEF PaperGood, D!IInv
<1>2. d \in paperCall'[w].ids
  BY <1>1 DEF D!Gone, PaperMoves
<1>3. CASE D!Crossed(w, D!Savers)
  BY <1>1, <1>2, <1>3, CrossedStays DEF D!Gone
<1>4. CASE d \notin DOMAIN document
               /\ \A x \in D!Busy \cap D!Made(D!Changers) : d \notin paperCall[x].ids
  <2>1. ~(Adds(h) /\ d \in DOMAIN paperVar[h].rows)
    BY <1>4, SaverNames DEF D!Made, D!Busy
  <2>2. ~(d = h /\ paperPc[h] = "upload_save")
    BY NotHad
  <2>3. d \notin DOMAIN document'
    BY <1>1, <1>4, <2>1, <2>2 DEF DocStep
  <2>4. ASSUME NEW x \in D!Busy' \cap D!Made(D!Changers)'
        PROVE  d \notin paperCall'[x].ids
    <3>1. x \in Requests /\ x \in DOMAIN paperCall' /\ paperCall'[x].op \in D!Changers
      BY <1>1 DEF D!Busy, PaperMoves, D!TypeOK, D!Made
    <3>2. CASE x # h
      BY <1>4, <2>4, <3>1, <3>2, OthersAre DEF D!Made
    <3>3. CASE x = h /\ paperPc[h] = "idle"
      BY <1>1, <1>4, <3>1, <3>3 DEF AskStep, D!OfDocument
    <3>4. CASE x = h /\ paperPc[h] # "idle"
      BY <1>4, <3>1, <3>4, ItselfIs DEF D!Made
    <3>5. QED
      BY <3>2, <3>3, <3>4
  <2>5. QED
    BY <1>2, <2>3, <2>4 DEF D!Gone
<1>5. QED
  BY <1>3, <1>4 DEF D!Gone

LEMMA GoneFileStays ==
    ASSUME D!IInv, NEW h \in Requests, PaperGood(h), NEW d, NEW w \in DOMAIN paperCall,
           D!Had("file", d), D!Gone(w, d, file, D!FileSavers)
    PROVE  D!Gone(w, d, file, D!FileSavers)'
<1>1. PaperMoves(h) /\ FileStep(h) /\ AskStep(h) /\ D!TypeOK
  BY DEF PaperGood, D!IInv
<1>2. d \in paperCall'[w].ids
  BY <1>1 DEF D!Gone, PaperMoves
<1>3. CASE D!Crossed(w, D!Savers)
  BY <1>1, <1>2, <1>3, CrossedStays DEF D!Gone
<1>4. CASE d \notin DOMAIN file
               /\ \A x \in D!Busy \cap D!Made(D!FileSavers) : d \notin paperCall[x].ids
  <2>1. ~(paperPc[h] = "file_save" /\ d \in DOMAIN paperVar[h].rows)
    BY <1>4, SaverNames DEF D!Made, D!Busy
  <2>2. ~(d = h /\ paperPc[h] = "upload_save")
    BY NotHad
  <2>3. d \notin DOMAIN file'
    BY <1>1, <1>4, <2>1, <2>2 DEF FileStep
  <2>4. ASSUME NEW x \in D!Busy' \cap D!Made(D!FileSavers)'
        PROVE  d \notin paperCall'[x].ids
    <3>1. x \in Requests /\ x \in DOMAIN paperCall' /\ paperCall'[x].op \in D!FileSavers
      BY <1>1 DEF D!Busy, PaperMoves, D!TypeOK, D!Made
    <3>2. CASE x # h
      BY <1>4, <2>4, <3>1, <3>2, OthersAre DEF D!Made
    <3>3. CASE x = h /\ paperPc[h] = "idle"
      BY <1>1, <1>4, <3>1, <3>3 DEF AskStep, D!OfFile
    <3>4. CASE x = h /\ paperPc[h] # "idle"
      BY <1>4, <3>1, <3>4, ItselfIs DEF D!Made
    <3>5. QED
      BY <3>2, <3>3, <3>4
  <2>5. QED
    BY <1>2, <2>3, <2>4 DEF D!Gone
<1>5. QED
  BY <1>3, <1>4 DEF D!Gone

(* A row whose deletion takes the object along is gone from there on.      *)
LEMMA GoneNow ==
    ASSUME D!IInv, NEW h \in Requests, PaperGood(h),
               paperPc[h] = "remove_act", NEW d \in paperCall[h].ids,
           d \notin DOMAIN document'
    PROVE  h \in D!Made({"remove"})' /\ D!Gone(h, d, document, D!Changers)'
<1>1. h \in DOMAIN paperCall /\ paperCall' = paperCall /\ D!Placed(h)
  BY ItselfIs
<1>2. paperCall'[h].op = "remove" /\ h \in DOMAIN paperCall'
  BY <1>1 DEF D!Placed, D!Removing
<1>3. ASSUME NEW x \in D!Busy' \cap D!Made(D!Changers)', d \in paperCall'[x].ids
      PROVE  D!Crossed(h, D!Savers)'
  <2>1. x # h /\ x \in D!Made(D!Savers)'
    BY <1>2, <1>3 DEF D!Made, D!Changers, D!Savers
  <2>2. {h, x} \in paperCrossed'
    BY <1>3, <2>1, ItselfIs
  <2>3. QED
    BY <2>1, <2>2 DEF D!Crossed
<1>4. QED
  BY <1>1, <1>2, <1>3 DEF D!Gone, D!Made

LEMMA GoneFileNow ==
    ASSUME D!IInv, NEW h \in Requests, PaperGood(h),
               paperPc[h] = "file_delete", NEW d \in paperCall[h].ids,
           d \notin DOMAIN file'
    PROVE  h \in D!Made({"file_drop"})' /\ D!Gone(h, d, file, D!FileSavers)'
<1>1. h \in DOMAIN paperCall /\ paperCall' = paperCall /\ D!Placed(h)
  BY ItselfIs
<1>2. paperCall'[h].op = "file_drop" /\ h \in DOMAIN paperCall'
  BY <1>1 DEF D!Placed
<1>3. ASSUME NEW x \in D!Busy' \cap D!Made(D!FileSavers)', d \in paperCall'[x].ids
      PROVE  D!Crossed(h, D!Savers)'
  <2>1. x # h /\ x \in D!Made(D!Savers)'
    BY <1>2, <1>3 DEF D!Made, D!FileSavers, D!Savers
  <2>2. {h, x} \in paperCrossed'
    BY <1>3, <2>1, ItselfIs
  <2>3. QED
    BY <2>1, <2>2 DEF D!Crossed
<1>4. QED
  BY <1>1, <1>2, <1>3 DEF D!Gone, D!Made

(* A row that an upload has just stored has its object.                    *)
LEMMA NewKept ==
    ASSUME D!IInv, NEW h \in Requests, PaperGood(h), NEW kind, NEW d, D!Had(kind, d)',
               ~D!Had(kind, d)
    PROVE  D!Kept(kind, d)'
<1>1. D!TypeOK /\ D!LinksInv /\ PaperMoves(h) /\ AskStep(h) /\ DoomStep(h)
  BY DEF D!IInv, PaperGood
<1>2. d \in DOMAIN paperCall' /\ paperCall'[d].op = "upload" /\ paperCall'[d].ids = {kind}
          /\ paperPc'[d] = "done"
  BY DEF D!Had
<1>3. d = h
  <2>1. SUFFICES ASSUME d # h
                 PROVE  FALSE
    OBVIOUS
  <2>2. d \in DOMAIN paperCall /\ d \in Requests
    BY <1>1, <1>2, <2>1 DEF PaperMoves, D!TypeOK
  <2>3. QED
    BY <1>2, <2>1, <2>2, OthersAre DEF D!Had
<1>4. paperPc[h] # "idle"
  BY <1>1, <1>2, <1>3 DEF AskStep
<1>5. h \in D!Busy /\ paperCall' = paperCall /\ D!Placed(h) /\ h \in DOMAIN paperCall
  BY <1>4, ItselfIs
<1>6. paperPc[h] = "upload_save"
  BY <1>2, <1>3, <1>5 DEF D!Placed, D!Busy, D!InFlight
<1>7. PICK k \in {"document", "file"} : paperCall[h].ids = {k} /\ <<k, h>> \in object
  BY <1>1, <1>5, <1>6 DEF D!LinksInv
<1>8. k = kind
  BY <1>2, <1>3, <1>5, <1>7
<1>9. <<kind, d>> \in object'
  BY <1>1, <1>3, <1>7, <1>8 DEF DoomStep
<1>10. <<kind, d>> \notin doomed
  BY <1>1 DEF D!LinksInv
<1>11. <<kind, d>> \notin doomed'
  BY <1>6, <1>10, DoomedHad
<1>12. QED
  BY <1>9, <1>11 DEF D!Kept

(* Of one that has just lost it, the key is doomed by this step.           *)
LEMMA LostNow ==
    ASSUME NEW h \in Requests, PaperGood(h), NEW kind, NEW d, D!Kept(kind, d), ~D!Kept(kind, d)'
    PROVE  <<kind, d>> \in doomed' \ doomed
<1>1. object \subseteq object'
  BY DEF PaperGood, DoomStep
<1>2. QED
  BY <1>1 DEF D!Kept

LEMMA LinksNext ==
    ASSUME D!IInv, NEW h \in Requests, PaperGood(h)
    PROVE  D!LinksInv'
<1>1. D!TypeOK /\ D!LinksInv /\ PaperMoves(h) /\ DocStep(h) /\ FileStep(h) /\ DoomStep(h)
          /\ AskStep(h)
  BY DEF D!IInv, PaperGood
<1>2. D!Own("document", document)'
  <2>1. SUFFICES ASSUME NEW d \in DOMAIN document'
                 PROVE  /\ document'[d] \in D!FileRow
                        /\ document'[d].link \in {<<"document", d>>, D!Renamed}
    BY DEF D!Own
  <2>2. CASE d \in DOMAIN document /\ document'[d] = document[d]
    BY <2>2, DocumentIs
  <2>3. CASE Adds(h) /\ d \in DOMAIN paperVar[h].rows /\ document'[d] = paperVar[h].rows[d]
    BY <2>3, SaverNames DEF D!Own
  <2>4. CASE d = h /\ document'[d] = D!Uploaded("document", h)
    <3>1. D!Uploaded("document", h) \in D!FileRow
      BY Uploading
    <3>2. D!Uploaded("document", h).link = <<"document", h>>
      BY DEF D!Uploaded
    <3>3. QED
      BY <2>4, <3>1, <3>2
  <2>5. QED
    BY <1>1, <2>2, <2>3, <2>4 DEF DocStep
<1>3. D!Files(file)'
  <2>1. SUFFICES ASSUME NEW d \in DOMAIN file'
                 PROVE  file'[d] \in D!FileRow /\ file'[d].link = <<"file", d>>
    BY DEF D!Files
  <2>2. CASE d \in DOMAIN file /\ file'[d] = file[d]
    BY <2>2, FileIs
  <2>3. CASE paperPc[h] = "file_save" /\ d \in DOMAIN paperVar[h].rows
                 /\ file'[d] = paperVar[h].rows[d]
    BY <2>3, SaverNames DEF D!Files
  <2>4. CASE d = h /\ file'[d] = D!Uploaded("file", h)
    <3>1. D!Uploaded("file", h) \in D!FileRow
      BY Uploading
    <3>2. D!Uploaded("file", h).link = <<"file", h>>
      BY DEF D!Uploaded
    <3>3. QED
      BY <2>4, <3>1, <3>2
  <2>5. QED
    BY <1>1, <2>2, <2>3, <2>4 DEF FileStep
<1>4. \A g \in DOMAIN paperCall' : paperPc'[g] = "upload_save" =>
         \E kind \in {"document", "file"} : paperCall'[g].ids = {kind} /\ <<kind, g>> \in object'
  <2>1. SUFFICES ASSUME NEW g \in DOMAIN paperCall', paperPc'[g] = "upload_save"
                 PROVE  \E kind \in {"document", "file"} : paperCall'[g].ids = {kind} /\ <<kind,
                            g>> \in object'
    OBVIOUS
  <2>2. CASE g = h
    BY <1>1, <2>1, <2>2 DEF AskStep
  <2>3. CASE g # h
    <3>1. g \in Requests
      BY <1>1, <2>1 DEF PaperMoves, D!TypeOK
    <3>2. g \in DOMAIN paperCall /\ paperPc[g] = "upload_save" /\ paperCall'[g] = paperCall[g]
      BY <2>1, <2>3, <3>1, OthersAre
    <3>3. PICK kind \in {"document", "file"} : paperCall[g].ids = {kind} /\ <<kind, g>> \in object
      BY <1>1, <3>2 DEF D!LinksInv
    <3>4. <<kind, g>> \in object'
      BY <1>1, <3>3 DEF DoomStep
    <3>5. QED
      BY <3>2, <3>3, <3>4
  <2>4. QED
    BY <2>2, <2>3
<1>5. \A key \in doomed' : D!Had(key[1], key[2])'
  <2>1. \A key \in doomed' : D!Had(key[1], key[2])
    BY <1>1, DoomedHad DEF D!LinksInv
  <2>2. QED
    BY <1>1, <2>1, PaperHadStays
<1>6. \A d \in D!Ids : D!Had("document", d)' /\ ~D!Kept("document", d)' =>
         \E w \in D!Made({"remove"})' : D!Gone(w, d, document, D!Changers)'
  <2>1. SUFFICES ASSUME NEW d \in D!Ids, D!Had("document", d)', ~D!Kept("document", d)'
                 PROVE  \E w \in D!Made({"remove"})' : D!Gone(w, d, document, D!Changers)'
    OBVIOUS
  <2>2. D!Had("document", d)
    BY <2>1, NewKept
  <2>3. CASE ~D!Kept("document", d)
    <3>1. PICK w \in D!Made({"remove"}) : D!Gone(w, d, document, D!Changers)
      BY <1>1, <2>2, <2>3 DEF D!LinksInv
    <3>2. w \in D!Made({"remove"})' /\ w \in DOMAIN paperCall
      BY <1>1, <3>1, MadeStays DEF D!Made
    <3>3. D!Gone(w, d, document, D!Changers)'
      BY <2>2, <3>1, <3>2, GoneStays
    <3>4. QED
      BY <3>2, <3>3
  <2>4. CASE D!Kept("document", d)
    <3>1. <<"document", d>> \in doomed' \ doomed
      BY <2>1, <2>4, LostNow
    <3>2. d \in paperCall[h].ids /\ paperPc[h] = "remove_act" /\ d \notin DOMAIN document'
      BY <1>1, <3>1 DEF DoomStep
    <3>3. QED
      BY <3>2, GoneNow
  <2>5. QED
    BY <2>3, <2>4
<1>7. \A d \in D!Ids : D!Had("file", d)' /\ ~D!Kept("file", d)' =>
         \/ \E w \in D!Made({"shelf_drop"})' : paperPc'[w] = "done" /\ d \in paperVar'[w].todo
         \/ \E w \in D!Made({"file_drop"})' : D!Gone(w, d, file, D!FileSavers)'
  <2>1. SUFFICES ASSUME NEW d \in D!Ids, D!Had("file", d)', ~D!Kept("file", d)'
                 PROVE  \/ \E w \in D!Made({"shelf_drop"})' : paperPc'[w] = "done"
                            /\ d \in paperVar'[w].todo
                        \/ \E w \in D!Made({"file_drop"})' : D!Gone(w, d, file, D!FileSavers)'
    OBVIOUS
  <2>2. D!Had("file", d)
    BY <2>1, NewKept
  <2>3. CASE \E w \in D!Made({"shelf_drop"}) : paperPc[w] = "done" /\ d \in paperVar[w].todo
    <3>1. PICK w \in D!Made({"shelf_drop"}) : paperPc[w] = "done" /\ d \in paperVar[w].todo
      BY <2>3
    <3>2. w # h /\ w \in Requests
      BY <1>1, <3>1 DEF PaperMoves, D!InFlight, D!Made, D!TypeOK
    <3>3. w \in D!Made({"shelf_drop"})' /\ paperPc'[w] = "done" /\ d \in paperVar'[w].todo
      BY <1>1, <3>1, <3>2, OthersAre, MadeStays
    <3>4. QED
      BY <3>3
  <2>4. CASE \E w \in D!Made({"file_drop"}) : D!Gone(w, d, file, D!FileSavers)
    <3>1. PICK w \in D!Made({"file_drop"}) : D!Gone(w, d, file, D!FileSavers)
      BY <2>4
    <3>2. w \in D!Made({"file_drop"})' /\ w \in DOMAIN paperCall
      BY <1>1, <3>1, MadeStays DEF D!Made
    <3>3. D!Gone(w, d, file, D!FileSavers)'
      BY <2>2, <3>1, <3>2, GoneFileStays
    <3>4. QED
      BY <3>2, <3>3
  <2>5. CASE D!Kept("file", d)
    <3>1. <<"file", d>> \in doomed' \ doomed
      BY <2>1, <2>5, LostNow
    <3>2. \/ d \in paperVar'[h].todo /\ paperPc[h] = "shelf_files" /\ paperPc'[h] = "done"
          \/ d \in paperCall[h].ids /\ paperPc[h] = "file_delete" /\ d \notin DOMAIN file'
      BY <1>1, <3>1 DEF DoomStep
    <3>3. CASE d \in paperVar'[h].todo /\ paperPc[h] = "shelf_files" /\ paperPc'[h] = "done"
      <4>1. h \in D!Made({"shelf_drop"})'
        BY <3>3, ItselfIs DEF D!Made, D!Placed
      <4>2. QED
        BY <3>3, <4>1
    <3>4. CASE d \in paperCall[h].ids /\ paperPc[h] = "file_delete" /\ d \notin DOMAIN file'
      BY <3>4, GoneFileNow
    <3>5. QED
      BY <3>2, <3>3, <3>4
  <2>6. QED
    BY <1>1, <2>2, <2>3, <2>4, <2>5 DEF D!LinksInv
<1>8. QED
  BY <1>2, <1>3, <1>4, <1>5, <1>6, <1>7 DEF D!LinksInv

LEMMA CallNext ==
    ASSUME D!IInv, NEW h \in Requests, PaperStep(h)
    PROVE  D!IInv'
<1>1. PaperGood(h)
  BY PaperStepIs
<1>2. QED
  BY <1>1, PaperTypesNext, PaperCallsNext, PaperHadNext, PaperHoldingNext, FolderNext, LinksNext
      DEF D!IInv
-----------------------------------------------------------------------------
(* An object vanishes that was doomed; no object that a call has put there *)
(* for its row is.                                                         *)
LEMMA VanishNext ==
    ASSUME D!IInv, NEW o \in doomed, D!Vanish(o)
    PROVE  D!IInv'
<1>1. D!TypeOK /\ D!VarsInv /\ D!CallsInv /\ D!HadInv /\ D!HoldingInv /\ D!FolderInv /\ D!LinksInv
  BY DEF D!IInv
<1>2. /\ folder' = folder /\ document' = document /\ shelf' = shelf /\ file' = file
      /\ doomed' = doomed /\ paperPc' = paperPc /\ paperCall' = paperCall /\ paperVar' = paperVar
          /\ paperCrossed' = paperCrossed
      /\ object' = object \ {o}
  BY DEF D!Vanish, D!Docs, D!Newer
<1>3. D!TypeOK' /\ D!VarsInv'
  BY <1>1, <1>2 DEF D!TypeOK, D!VarsInv
<1>4. D!Busy' = D!Busy /\ \A ops : D!Made(ops)' = D!Made(ops)
  BY <1>2 DEF D!Busy, D!Made
<1>5. \A w, ops : D!Crossed(w, ops)' <=> D!Crossed(w, ops)
  BY <1>2, <1>4 DEF D!Crossed
<1>6. \A h : D!Placed(h)' <=> D!Placed(h)
  BY <1>2 DEF D!Placed
<1>7. D!CallsInv'
  BY <1>1, <1>2, <1>4, <1>6 DEF D!CallsInv
<1>8. \A kind, d : D!Had(kind, d)' <=> D!Had(kind, d)
  BY <1>2 DEF D!Had
<1>9. D!HadInv'
  BY <1>1, <1>2, <1>4, <1>8 DEF D!HadInv
<1>10. \A h : (D!Own("document", paperVar[h].rows)' <=> D!Own("document", paperVar[h].rows))
              /\ (D!Files(paperVar[h].rows)' <=> D!Files(paperVar[h].rows))
  BY <1>2 DEF D!Own, D!Files
<1>11. \A h : D!Holding(h)' <=> D!Holding(h)
  BY <1>2, <1>8, <1>10 DEF D!Holding
<1>12. D!HoldingInv'
  BY <1>1, <1>11 DEF D!HoldingInv
<1>13. \A h : D!Dropped(h)' = D!Dropped(h)
  BY <1>2 DEF D!Dropped
<1>14. D!FolderInv'
  BY <1>1, <1>2, <1>5, <1>13 DEF D!FolderInv
<1>15. \A kind, d : D!Kept(kind, d)' <=> D!Kept(kind, d)
  BY <1>2 DEF D!Kept
<1>16. \A w, d : /\ D!Gone(w, d, document, D!Changers)' <=> D!Gone(w, d, document, D!Changers)
                 /\ D!Gone(w, d, file, D!FileSavers)' <=> D!Gone(w, d, file, D!FileSavers)
  BY <1>2, <1>4, <1>5 DEF D!Gone
<1>17. \A h \in DOMAIN paperCall : paperPc[h] = "upload_save" => \A kind : ~D!Had(kind, h)
  <2>1. \A h \in DOMAIN paperCall : h \notin Known
    BY <1>1, NewDocumentIds DEF D!TypeOK
  <2>2. QED
    BY <2>1 DEF D!Had
<1>18. D!Had(o[1], o[2])
  BY <1>1 DEF D!LinksInv
<1>19. \A h \in DOMAIN paperCall : paperPc[h] = "upload_save" => \A kind : <<kind, h>> # o
  BY <1>17, <1>18
<1>20. D!LinksInv'
  <2>1. D!Own("document", document)' /\ D!Files(file)'
    BY <1>1, <1>2 DEF D!LinksInv, D!Own, D!Files
  <2>2. \A h \in DOMAIN paperCall' : paperPc'[h] = "upload_save" =>
          \E kind \in {"document", "file"} : paperCall'[h].ids = {kind} /\ <<kind, h>> \in object'
    BY <1>1, <1>2, <1>19 DEF D!LinksInv
  <2>3. \A key \in doomed' : D!Had(key[1], key[2])'
    BY <1>1, <1>2, <1>8 DEF D!LinksInv
  <2>4. \A d \in D!Ids : D!Had("document", d)' /\ ~D!Kept("document", d)' =>
          \E w \in D!Made({"remove"})' : D!Gone(w, d, document, D!Changers)'
    BY <1>1, <1>4, <1>8, <1>15, <1>16 DEF D!LinksInv
  <2>5. \A f \in D!Ids : D!Had("file", f)' /\ ~D!Kept("file", f)' =>
          \/ \E w \in D!Made({"shelf_drop"})' : paperPc'[w] = "done" /\ f \in paperVar'[w].todo
          \/ \E w \in D!Made({"file_drop"})' : D!Gone(w, f, file, D!FileSavers)'
    BY <1>1, <1>2, <1>4, <1>8, <1>15, <1>16 DEF D!LinksInv
  <2>6. QED
    BY <2>1, <2>2, <2>3, <2>4, <2>5 DEF D!LinksInv
<1>21. QED
  BY <1>3, <1>7, <1>9, <1>12, <1>14, <1>20 DEF D!IInv

LEMMA StutterNext ==
    ASSUME D!IInv, UNCHANGED D!vars
    PROVE  D!IInv'
<1>1. D!TypeOK /\ D!VarsInv /\ D!CallsInv /\ D!HadInv /\ D!HoldingInv /\ D!FolderInv /\ D!LinksInv
  BY DEF D!IInv
<1>2. /\ folder' = folder /\ document' = document /\ shelf' = shelf /\ file' = file
      /\ doomed' = doomed /\ paperPc' = paperPc /\ paperCall' = paperCall /\ paperVar' = paperVar
          /\ paperCrossed' = paperCrossed
      /\ object' = object
  BY DEF D!vars, D!tables
<1>3. D!TypeOK' /\ D!VarsInv'
  BY <1>1, <1>2 DEF D!TypeOK, D!VarsInv
<1>4. D!Busy' = D!Busy /\ \A ops : D!Made(ops)' = D!Made(ops)
  BY <1>2 DEF D!Busy, D!Made
<1>5. \A w, ops : D!Crossed(w, ops)' <=> D!Crossed(w, ops)
  BY <1>2, <1>4 DEF D!Crossed
<1>6. \A h : D!Placed(h)' <=> D!Placed(h)
  BY <1>2 DEF D!Placed
<1>7. D!CallsInv'
  BY <1>1, <1>2, <1>4, <1>6 DEF D!CallsInv
<1>8. \A kind, d : D!Had(kind, d)' <=> D!Had(kind, d)
  BY <1>2 DEF D!Had
<1>9. D!HadInv'
  BY <1>1, <1>2, <1>4, <1>8 DEF D!HadInv
<1>10. \A h : (D!Own("document", paperVar[h].rows)' <=> D!Own("document", paperVar[h].rows))
              /\ (D!Files(paperVar[h].rows)' <=> D!Files(paperVar[h].rows))
  BY <1>2 DEF D!Own, D!Files
<1>11. \A h : D!Holding(h)' <=> D!Holding(h)
  BY <1>2, <1>8, <1>10 DEF D!Holding
<1>12. D!HoldingInv'
  BY <1>1, <1>11 DEF D!HoldingInv
<1>13. \A h : D!Dropped(h)' = D!Dropped(h)
  BY <1>2 DEF D!Dropped
<1>14. D!FolderInv'
  BY <1>1, <1>2, <1>5, <1>13 DEF D!FolderInv
<1>15. \A kind, d : D!Kept(kind, d)' <=> D!Kept(kind, d)
  BY <1>2 DEF D!Kept
<1>16. \A w, d : /\ D!Gone(w, d, document, D!Changers)' <=> D!Gone(w, d, document, D!Changers)
                 /\ D!Gone(w, d, file, D!FileSavers)' <=> D!Gone(w, d, file, D!FileSavers)
  BY <1>2, <1>4, <1>5 DEF D!Gone
<1>17. D!Own("document", document)' /\ D!Files(file)'
  BY <1>1, <1>2 DEF D!LinksInv, D!Own, D!Files
<1>18. D!LinksInv'
  BY <1>1, <1>2, <1>4, <1>8, <1>15, <1>16, <1>17 DEF D!LinksInv
<1>19. QED
  BY <1>3, <1>7, <1>9, <1>12, <1>14, <1>18 DEF D!IInv

LEMMA StepNext ==
    ASSUME D!IInv, [D!Next]_(D!vars)
    PROVE  D!IInv'
<1>1. CASE D!Next
  <2>1. CASE \E h \in Requests : PaperStep(h)
    BY <2>1, CallNext
  <2>2. CASE \E o \in doomed : D!Vanish(o)
    BY <2>2, VanishNext
  <2>3. QED
    BY <1>1, <2>1, <2>2 DEF D!Next, PaperStep
<1>2. CASE UNCHANGED D!vars
  BY <1>2, StutterNext
<1>3. QED
  BY <1>1, <1>2

LEMMA InitIs ==
    ASSUME D!Init
    PROVE  D!IInv
<1>1. PICK parent \in [Known -> Known \cup {D!None}], path \in [Known -> SUBSET Known] :
         folder = [f \in Known |-> [parent |-> parent[f], path |-> path[f]]]
  BY DEF D!Init
<1>2. PICK home \in [Known -> Known \cup {D!None}] :
         /\ document = [d \in Known |-> [folder |-> home[d], link |-> <<"document", d>>]]
         /\ file = [d \in Known |-> [folder |-> home[d], link |-> <<"file", d>>]]
  BY DEF D!Init
<1>3. /\ shelf = Known /\ object = {"document", "file"} \X Known /\ doomed = {}
      /\ paperPc = [h \in Requests |-> "idle"] /\ paperCall = D!NoRows
          /\ paperVar = [h \in Requests |-> D!Idle] /\ paperCrossed = {}
  BY DEF D!Init
<1>4. DOMAIN paperCall = {} /\ D!Busy = {} /\ \A ops : D!Made(ops) = {}
  BY <1>3 DEF D!NoRows, D!Busy, D!Made
<1>5. \A h \in Requests : /\ paperPc[h] = "idle" /\ paperVar[h] = D!Idle
                       /\ paperVar[h].todo = {} /\ paperVar[h].subs = {}
                           /\ DOMAIN paperVar[h].rows = {}
                       /\ paperVar[h].row = D!None
  BY <1>3 DEF D!Idle, D!NoRows
<1>6. D!IsTable(folder, D!Ids, D!FolderRow)
  <2>1. \A f \in Known : [parent |-> parent[f], path |-> path[f]] \in D!FolderRow
    BY <1>1 DEF D!FolderRow, D!Ids
  <2>2. QED
    BY <1>1, <2>1 DEF D!IsTable, D!Ids
<1>7. /\ \A d \in Known : [folder |-> home[d], link |-> <<"document", d>>] \in D!FileRow
      /\ \A d \in Known : [folder |-> home[d], link |-> <<"file", d>>] \in D!FileRow
  BY <1>2 DEF D!FileRow, D!Ids, D!Keys
<1>8. D!IsTable(document, D!Ids, D!FileRow) /\ D!IsTable(file, D!Ids, D!FileRow)
  BY <1>2, <1>7 DEF D!IsTable, D!Ids
<1>9. D!TypeOK
  BY <1>3, <1>4, <1>6, <1>8 DEF D!TypeOK, D!Ids, D!Keys, D!Steps
<1>10. D!VarsInv
  BY <1>3, <1>5 DEF D!VarsInv, D!Idle
<1>11. D!CallsInv
  BY <1>4, <1>5 DEF D!CallsInv
<1>12. D!HadInv
  BY <1>2, <1>4 DEF D!HadInv, D!Had
<1>13. D!HoldingInv
  BY <1>5 DEF D!HoldingInv, D!Holding, D!Adding, D!Removing, D!Filing
<1>14. D!FolderInv
  BY <1>4 DEF D!FolderInv
<1>15. D!Own("document", document)
  BY <1>2, <1>7 DEF D!Own
<1>16. D!Files(file)
  BY <1>2, <1>7 DEF D!Files
<1>17. \A d : D!Had("document", d) \/ D!Had("file", d) => d \in Known
  BY <1>4 DEF D!Had
<1>18. \A d \in Known : D!Kept("document", d) /\ D!Kept("file", d)
  BY <1>3 DEF D!Kept
<1>19. D!LinksInv
  BY <1>3, <1>4, <1>15, <1>16, <1>17, <1>18 DEF D!LinksInv
<1>20. QED
  BY <1>9, <1>10, <1>11, <1>12, <1>13, <1>14, <1>19 DEF D!IInv

THEOREM DocumentsInductive == D!Spec => []D!IInv
<1>1. D!Init => D!IInv
  BY InitIs
<1>2. D!IInv /\ [D!Next]_(D!vars) => D!IInv'
  BY StepNext
<1>3. QED
  BY <1>1, <1>2, PTL DEF D!Spec

LEMMA LinksFollow ==
    ASSUME D!IInv
    PROVE  LinksWork
<1>1. D!TypeOK /\ D!HadInv /\ D!LinksInv
  BY DEF D!IInv
<1>2. ASSUME NEW d \in DOMAIN document
      PROVE  \/ document[d].link \in object \cup {D!Renamed}
             \/ \E h \in D!Made({"remove"}) : d \in paperCall[h].ids /\ D!Crossed(h, D!Savers)
  <2>1. document[d].link \in {<<"document", d>>, D!Renamed} /\ D!Had("document", d) /\ d \in D!Ids
    BY <1>1, DocumentIs DEF D!HadInv
  <2>2. CASE D!Kept("document", d)
    BY <2>1, <2>2 DEF D!Kept
  <2>3. CASE ~D!Kept("document", d)
    <3>1. PICK w \in D!Made({"remove"}) : D!Gone(w, d, document, D!Changers)
      BY <1>1, <2>1, <2>3 DEF D!LinksInv
    <3>2. QED
      BY <3>1 DEF D!Gone
  <2>4. QED
    BY <2>2, <2>3
<1>3. ASSUME NEW f \in DOMAIN file
      PROVE  \/ file[f].link \in object
             \/ \E h \in D!Made({"shelf_drop"}) : f \in paperVar[h].todo
             \/ \E h \in D!Made({"file_drop"}) : f \in paperCall[h].ids /\ D!Crossed(h, D!Savers)
  <2>1. file[f].link = <<"file", f>> /\ D!Had("file", f) /\ f \in D!Ids
    BY <1>1, FileIs DEF D!HadInv
  <2>2. CASE D!Kept("file", f)
    BY <2>1, <2>2 DEF D!Kept
  <2>3. CASE ~D!Kept("file", f)
    <3>1. \/ \E h \in D!Made({"shelf_drop"}) : f \in paperVar[h].todo
          \/ \E w \in D!Made({"file_drop"}) : D!Gone(w, f, file, D!FileSavers)
      BY <1>1, <2>1, <2>3 DEF D!LinksInv
    <3>2. QED
      BY <3>1 DEF D!Gone
  <2>4. QED
    BY <2>2, <2>3
<1>4. QED
  BY <1>2, <1>3 DEF LinksWork, D!LinksWork

THEOREM DocumentsLinksWork == D!Spec => []LinksWork
<1>1. D!IInv => LinksWork
  BY LinksFollow
<1>2. QED
  BY <1>1, DocumentsInductive, PTL

(* A document that a step takes away.                                      *)
TakenBy(h, d) ==
    \/ paperCall[h].op = "remove" /\ d \in paperCall[h].ids
    \/ paperPc[h] = "drop_documents" /\ document[d].folder = D!Dropped(h)
    \/ paperPc[h] = "drop_documents" /\ D!Crossed(h, {"add", "move", "put"})
    \/ paperPc[h] = "drop_wipe"

LEMMA OnlyTheNamed ==
    ASSUME D!IInv, D!Next
    PROVE  \A d \in DOMAIN document \ DOMAIN document' : \E h \in D!Busy : TakenBy(h, d)
<1>1. SUFFICES ASSUME NEW d \in DOMAIN document \ DOMAIN document'
               PROVE  \E h \in D!Busy : TakenBy(h, d)
  OBVIOUS
<1>2. CASE \E h \in Requests : PaperStep(h)
  <2>1. PICK h \in Requests : PaperStep(h)
    BY <1>2
  <2>2. PaperGood(h) /\ D!FolderInv
    BY <2>1, PaperStepIs DEF D!IInv
  <2>3. \/ paperPc[h] = "remove_act" /\ d \in paperCall[h].ids
        \/ paperPc[h] = "drop_documents" /\ d \in paperVar[h].todo
        \/ paperPc[h] = "drop_wipe"
    BY <1>1, <2>2 DEF PaperGood, DocStep
  <2>4. h \in D!Busy /\ h \in DOMAIN paperCall /\ D!Placed(h)
    BY <2>2, <2>3, ItselfIs
  <2>5. CASE paperPc[h] = "remove_act" /\ d \in paperCall[h].ids
    BY <2>4, <2>5 DEF D!Placed, D!Removing, TakenBy
  <2>6. CASE paperPc[h] = "drop_documents" /\ d \in paperVar[h].todo
    <3>1. document[d].folder = D!Dropped(h) \/ D!Crossed(h, D!Changers)
      BY <1>1, <2>2, <2>4, <2>6 DEF D!FolderInv
    <3>2. QED
      BY <2>4, <2>6, <3>1 DEF D!Changers, TakenBy
  <2>7. CASE paperPc[h] = "drop_wipe"
    BY <2>4, <2>7 DEF TakenBy
  <2>8. QED
    BY <2>3, <2>5, <2>6, <2>7
<1>3. CASE \E o \in doomed : D!Vanish(o)
  BY <1>1, <1>3 DEF D!Vanish, D!Docs
<1>4. QED
  BY <1>2, <1>3 DEF D!Next, PaperStep

THEOREM DocumentsOnlyTheNamedGo == D!Spec => OnlyTheNamedGo
<1>1. D!IInv /\ [D!Next]_(D!vars) => [\A d \in DOMAIN document \ DOMAIN document' :
         \E h \in D!Busy :
           \/ paperCall[h].op = "remove" /\ d \in paperCall[h].ids
           \/ paperPc[h] = "drop_documents" /\ document[d].folder = D!Dropped(h)
           \/ paperPc[h] = "drop_documents" /\ D!Crossed(h, {"add", "move", "put"})
           \/ paperPc[h] = "drop_wipe"]_(D!vars)
  BY OnlyTheNamed DEF TakenBy
<1>2. QED
  BY <1>1, DocumentsInductive, PTL DEF D!Spec, OnlyTheNamedGo, D!OnlyTheNamedGo

-----------------------------------------------------------------------------
(* Side by side each does what it does alone.                              *)
LEMMA SideBySide == OfficeSpec => Spec /\ D!Spec /\ B!Spec
<1>1. OfficeInit => Init /\ D!Init /\ B!Init
  BY DEF OfficeInit
<1>2. [OfficeNext]_<<side, vars, papers, board>> =>
        [Next]_vars /\ [D!Next]_(D!vars) /\ [B!Next]_(B!vars)
  BY DEF OfficeNext, DocumentsStep, BoardingStep, AnswersStep, papers, board,
         D!vars, D!tables, B!vars, B!tables
<1>3. QED
  BY <1>1, <1>2, PTL DEF OfficeSpec, Spec, D!Spec, B!Spec

(* In whatever order the calls come and fail: an employee's answers stay,  *)
(* an approved answer has its one licence, what an employee is given stays *)
(* and names a stored task, a row links a stored object, and only what a   *)
(* call names is removed, each with the exceptions its property names.     *)
THEOREM OfficeIsKept ==
    OfficeSpec => /\ AnswersStay /\ []LicencesAgree
                  /\ GivenStays /\ []GivenTasksAreStored
                  /\ OnlyTheNamedGo /\ []LinksWork
  BY SideBySide, AnswersAlwaysStay, LicencesAlwaysAgree, WhatIsGivenStays, GivenTasksStored,
     DocumentsOnlyTheNamedGo, DocumentsLinksWork, PTL
=============================================================================
