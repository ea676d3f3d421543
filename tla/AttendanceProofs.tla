-------------------------- MODULE AttendanceProofs --------------------------
(***************************************************************************)
(* Proofs about Attendance.  About its weeks, for any number of employees, *)
(* days, rows and calls: what is recorded on a row stays there, an         *)
(* approved summary agrees with its rows, and a day or a week has one row, *)
(* each with the exceptions the property names.  About its clock, for      *)
(* every length of a day and working day, all instants, policies, rosters  *)
(* and claims, and every number of calls: no minute is recorded twice, and *)
(* a clock-out records the time worked.                                    *)
(***************************************************************************)
EXTENDS Attendance, SequenceTheorems, WellFoundedInduction, TLAPS

-----------------------------------------------------------------------------
(* The steps of one call. *)
Moves(h) ==
    \/ Post(h) \/ ClockCall(h) \/ Log(h) \/ File(h) \/ Decide(h) \/ DeleteCall(h)
    \/ PostLook(h) \/ PostInsert(h) \/ ClockRead(h) \/ ClockSave(h)
    \/ LogRead(h) \/ LogSave(h) \/ LogInsert(h)
    \/ FileRead(h) \/ FileFind(h) \/ FileSave(h)
    \/ DecideRead(h) \/ DecideRow(h) \/ DecideMake(h) \/ DecideSave(h) \/ DecideStore(h)
    \/ DeleteRead(h) \/ DeleteAct(h) \/ Abort(h)

(* A step of call h leaves the other calls where they are, and nothing is  *)
(* forgotten that was recorded.                                            *)
Frame(h) ==
    /\ h \in Calls /\ pc[h] # "done" /\ pc'[h] # "idle" /\ pc' \in [Calls -> Steps]
    /\ \A g \in Calls \ {h} : pc'[g] = pc[g]
    /\ DOMAIN call' = DOMAIN call \cup {h} /\ \A g \in DOMAIN call : call'[g] = call[g]
    /\ DOMAIN var' \subseteq DOMAIN var \cup {h}
    /\ \A g \in DOMAIN var \ {h} : g \in DOMAIN var' /\ var'[g] = var[g]
    /\ crossed \subseteq crossed'
    /\ DOMAIN missed \subseteq DOMAIN missed' /\ \A f \in DOMAIN missed : missed'[f] = missed[f]

LEMMA FrameOfBegin ==
    ASSUME TypeOK, CallsInv, NEW h \in Calls, NEW to \in InFlight, NEW about,
           Goto(h, "idle", to), Begin(h, about)
    PROVE  /\ Frame(h) /\ h \notin DOMAIN call /\ call'[h] = about
           /\ \A x \in Calls : pc[x] \in InFlight => {h, x} \in crossed'
<1>1. pc \in [Calls -> Steps] /\ pc' = [pc EXCEPT ![h] = to] /\ pc[h] = "idle"
  BY DEF TypeOK, Goto
<1>2. h \notin DOMAIN call /\ DOMAIN var \subseteq DOMAIN call
  BY <1>1 DEF CallsInv
<1>3. to # "idle" /\ to \in Steps
  BY DEF InFlight, Steps
<1>4. /\ DOMAIN call' = DOMAIN call \cup {h} /\ call'[h] = about
      /\ \A g \in DOMAIN call : call'[g] = call[g]
  BY <1>2 DEF Begin, Save
<1>5. var' = var /\ missed' = missed /\ crossed \subseteq crossed'
      /\ \A x \in Calls : pc[x] \in InFlight => {h, x} \in crossed'
  BY DEF Begin
<1>6. QED
  BY <1>1, <1>2, <1>3, <1>4, <1>5 DEF Frame

LEMMA FrameOfStep ==
    ASSUME TypeOK, CallsInv, NEW h \in Calls, NEW to \in Steps \ {"idle"}, NEW x,
           pc[h] \in InFlight, pc' = [pc EXCEPT ![h] = to], call' = call, crossed' = crossed,
           missed' = missed,
           \/ var' = var
           \/ var' = Save(var, h, x)
           \/ var' = Delete(var, h)
    PROVE  Frame(h) /\ h \in DOMAIN call
<1>1. pc \in [Calls -> Steps] /\ pc[h] # "idle" /\ pc[h] # "done"
  BY DEF TypeOK, InFlight
<1>2. h \in DOMAIN call
  BY <1>1 DEF CallsInv
<1>3. /\ DOMAIN var' \subseteq DOMAIN var \cup {h}
      /\ \A g \in DOMAIN var \ {h} : g \in DOMAIN var' /\ var'[g] = var[g]
  BY DEF Save, Delete
<1>4. QED
  BY <1>1, <1>2, <1>3 DEF Frame

LEMMA FrameOfMove ==
    ASSUME TypeOK, CallsInv, NEW h \in Calls, Moves(h)
    PROVE  Frame(h)
<1>1. CASE Post(h) \/ ClockCall(h) \/ Log(h) \/ File(h) \/ Decide(h) \/ DeleteCall(h)
  <2>1. PICK to, about : to \in InFlight /\ Goto(h, "idle", to) /\ Begin(h, about)
    BY <1>1 DEF Post, ClockCall, Log, File, Decide, DeleteCall, InFlight
  <2>2. QED
    BY <2>1, FrameOfBegin
<1>2. CASE PostLook(h) \/ PostInsert(h) \/ ClockRead(h) \/ ClockSave(h)
  <2>1. PICK to, x :
          /\ to \in Steps \ {"idle"} /\ pc[h] \in InFlight /\ pc' = [pc EXCEPT ![h] = to]
                 /\ call' = call
          /\ crossed' = crossed /\ missed' = missed /\ (var' = var \/ var' = Save(var, h, x))
    BY <1>2 DEF PostLook, PostInsert, ClockRead, ClockSave, SaveRow, Goto, Set, Own, InFlight, Steps
  <2>2. QED
    BY <2>1, FrameOfStep
<1>3. CASE LogRead(h) \/ LogSave(h) \/ LogInsert(h) \/ FileFind(h) \/ FileSave(h)
  <2>1. PICK to, x :
          /\ to \in Steps \ {"idle"} /\ pc[h] \in InFlight /\ pc' = [pc EXCEPT ![h] = to]
                 /\ call' = call
          /\ crossed' = crossed /\ missed' = missed
          /\ var' = var \/ var' = Save(var, h, x) \/ var' = Delete(var, h)
    BY <1>3 DEF LogRead, LogSave, LogInsert, FileFind, FileSave, SaveRow, Goto, Set, Own, Forget,
                InFlight, Steps
  <2>2. QED
    BY <2>1, FrameOfStep
<1>4. CASE DecideRead(h) \/ DecideRow(h) \/ DecideMake(h) \/ DecideSave(h) \/ DecideStore(h)
  <2>1. PICK to, x :
          /\ to \in Steps \ {"idle"} /\ pc[h] \in InFlight /\ pc' = [pc EXCEPT ![h] = to]
                 /\ call' = call
          /\ crossed' = crossed /\ missed' = missed
          /\ var' = var \/ var' = Save(var, h, x) \/ var' = Delete(var, h)
    BY <1>4 DEF DecideRead, DecideRow, DecideMake, DecideSave, DecideStore, SaveRow, Goto, Set,
                Own, Forget, InFlight, Steps
  <2>2. QED
    BY <2>1, FrameOfStep
<1>5. CASE DeleteRead(h) \/ DeleteAct(h) \/ Abort(h)
  <2>1. PICK to, x :
          /\ to \in Steps \ {"idle"} /\ pc[h] \in InFlight /\ pc' = [pc EXCEPT ![h] = to]
                 /\ call' = call
          /\ crossed' = crossed /\ missed' = missed
          /\ var' = var \/ var' = Save(var, h, x) \/ var' = Delete(var, h)
    BY <1>5 DEF DeleteRead, DeleteAct, Abort, Goto, Set, Own, Forget, InFlight, Steps
  <2>2. QED
    BY <2>1, FrameOfStep
<1>6. CASE FileRead(h)
  <2>1. /\ pc[h] = "file_read" /\ pc \in [Calls -> Steps]
        /\ pc' = [pc EXCEPT ![h] = "file_find"]
        /\ call' = call /\ crossed' = crossed
    BY <1>6 DEF FileRead, Goto, TypeOK
  <2>2. h \in DOMAIN call /\ h \notin DOMAIN missed
    BY <2>1 DEF CallsInv
  <2>3. /\ DOMAIN var' \subseteq DOMAIN var \cup {h}
        /\ \A g \in DOMAIN var \ {h} : g \in DOMAIN var' /\ var'[g] = var[g]
    BY <1>6 DEF FileRead, Set, Save
  <2>4. DOMAIN missed \subseteq DOMAIN missed' /\ \A f \in DOMAIN missed : missed'[f] = missed[f]
    BY <1>6, <2>2 DEF FileRead, Save
  <2>5. pc' \in [Calls -> Steps]
    BY <2>1 DEF Steps, InFlight
  <2>6. QED
    BY <2>1, <2>2, <2>3, <2>4, <2>5 DEF Frame
<1>7. QED
  BY <1>1, <1>2, <1>3, <1>4, <1>5, <1>6 DEF Moves

-----------------------------------------------------------------------------
(* What a step does to the table of attendance: nothing; opens a row under *)
(* the id of the call; stores one under an id there has been a row of; or  *)
(* deletes a row that was asked for.                                       *)
OpensRow(h, row) ==
    /\ attendance' = Save(attendance, h, row) /\ ~Had(h) /\ Fits(h, row)
    /\ h \in All({"post", "log"}) /\ pc[h] \in {"post_insert", "log_insert"} /\ call' = call

StoresRow(h, a, row) ==
    /\ attendance' = Save(attendance, a, row) /\ Had(a) /\ Fits(a, row) /\ call' = call
    /\ h \in Saves(a)'
    /\ pc[h] \in {"clock_save", "log_save", "decide_make", "decide_save"} /\ var[h].id = a

DeletesRow(h, a) ==
    /\ attendance' \in {attendance, Delete(attendance, a)} /\ Deleted(a) /\ call' = call
    /\ h \in All({"delete"}) /\ call[h].id = a

RowEffect(h) ==
    \/ attendance' = attendance
    \/ \E row : OpensRow(h, row)
    \/ \E a, row : StoresRow(h, a, row)
    \/ \E a : DeletesRow(h, a)

LEMMA CallKinds ==
    ASSUME NEW h
    PROVE  /\ Op(h) = call[h].op
           /\ \A ops : h \in All(ops) <=> h \in DOMAIN call /\ call[h].op \in ops
           /\ \A ops : h \in Done(ops) <=> h \in DOMAIN call /\ call[h].op \in ops /\ pc[h] = "done"
  BY DEF Op, All, Done

LEMMA Savers ==
    ASSUME NEW a, NEW h
    PROVE  h \in Saves(a) <=>
             /\ h \in DOMAIN call
             /\ \/ Op(h) \in Clock \cup {"log", "delete"} /\ call[h].id = a
                \/ Op(h) = "post" /\ pc[h] = "done" /\ h \in DOMAIN var /\ var[h].id = a
                \/ Op(h) = "decide" /\ a \in DOMAIN call[h].copies
  BY DEF Saves, Touches, All, Op, Clock

LEMMA AttendanceUnchanged ==
    ASSUME NEW h, Moves(h), ~PostInsert(h), ~ClockSave(h), ~LogSave(h), ~LogInsert(h),
           ~DecideMake(h), ~DecideSave(h), ~DeleteAct(h)
    PROVE  attendance' = attendance
  BY DEF Moves, Post, ClockCall, Log, File, Decide, DeleteCall, Begin, PostLook, ClockRead, LogRead,
         FileRead, FileFind, FileSave, DecideRead, DecideRow, DecideStore, DeleteRead, Abort, Own

(* Facts of a call by where it is. *)
LEMMA AtCall ==
    ASSUME CallsInv, RowsInv, OpenInv, NEW h \in Calls, pc[h] \in InFlight
    PROVE  h \in DOMAIN call /\ Placed(h) /\ Brings(h) /\ Holds(h) /\ Opens(h) /\ Begins(h)
<1>1. h \in DOMAIN call
  BY DEF CallsInv, InFlight
<1>2. QED
  BY <1>1 DEF CallsInv, RowsInv, OpenInv

LEMMA OpenedFits ==
    ASSUME NEW h \in DOMAIN call, h \in Calls, Brings(h), Op(h) \in {"post", "log"}, WeekAssumption,
           NEW entries \in SUBSET Entry
    PROVE  Fits(h, Opened(call[h], entries))
<1>1. call[h].emp \in Employees /\ call[h].day \in Days
  BY DEF Brings
<1>2. Whose(h) = <<call[h].emp, call[h].day>>
  BY DEF Whose, WeekAssumption
<1>3. QED
  BY <1>1, <1>2 DEF Fits, Opened, Row

LEMMA Unapproved ==
    ASSUME NEW a, NEW row, Fits(a, row)
    PROVE  Fits(a, [row EXCEPT !.approved = FALSE])
<1>1. row \in Row
  BY DEF Fits
<1>2. /\ [row EXCEPT !.approved = FALSE] \in Row
      /\ [row EXCEPT !.approved = FALSE].emp = row.emp
      /\ [row EXCEPT !.approved = FALSE].day = row.day
  BY <1>1 DEF Row
<1>3. QED
  BY <1>2 DEF Fits

LEMMA RowEffects ==
    ASSUME TypeOK, CallsInv, RowsInv, OpenInv, NEW h \in Calls, Moves(h)
    PROVE  RowEffect(h)
<1>1. CASE PostInsert(h)
  <2>1. pc[h] = "post_insert" /\ call' = call
            /\ attendance' = Save(attendance, h, Opened(call[h], {}))
    BY <1>1 DEF PostInsert, SaveRow
  <2>2. h \in DOMAIN call /\ Placed(h) /\ Brings(h) /\ Opens(h)
    BY <2>1, AtCall DEF InFlight
  <2>3. Op(h) = "post" /\ ~Had(h)
    BY <2>1, <2>2 DEF Placed, Opens
  <2>4. Fits(h, Opened(call[h], {}))
    BY <2>2, <2>3, WeekAssumption, OpenedFits
  <2>5. OpensRow(h, Opened(call[h], {}))
    BY <2>1, <2>2, <2>3, <2>4, CallKinds DEF OpensRow
  <2>6. QED
    BY <2>5 DEF RowEffect
<1>2. CASE LogInsert(h)
  <2>1. /\ pc[h] = "log_insert" /\ call' = call
        /\ attendance' = Save(attendance, h, Opened(call[h], {Logged(h)}))
    BY <1>2 DEF LogInsert, SaveRow, Goto
  <2>2. h \in DOMAIN call /\ Placed(h) /\ Brings(h) /\ Opens(h)
    BY <2>1, AtCall DEF InFlight
  <2>3. Op(h) = "log" /\ ~Had(h)
    BY <2>1, <2>2 DEF Placed, Opens
  <2>4. {Logged(h)} \in SUBSET Entry
    BY DEF Logged, Entry
  <2>5. Fits(h, Opened(call[h], {Logged(h)}))
    BY <2>2, <2>3, <2>4, WeekAssumption, OpenedFits
  <2>6. OpensRow(h, Opened(call[h], {Logged(h)}))
    BY <2>1, <2>2, <2>3, <2>5, CallKinds DEF OpensRow
  <2>7. QED
    BY <2>6 DEF RowEffect
<1>3. CASE ClockSave(h)
  <2>1. PICK a, row : a = var[h].id /\ row = var[h].row
    OBVIOUS
  <2>2. /\ pc[h] = "clock_save" /\ pc' = [pc EXCEPT ![h] = "done"] /\ call' = call
        /\ attendance' = Save(attendance, a, row)
        /\ var' = Save(var, h, [id |-> a, out |-> var[h].out])
    BY <1>3, <2>1 DEF ClockSave, SaveRow, Goto, Set
  <2>3. h \in DOMAIN call /\ Placed(h) /\ Brings(h) /\ Holds(h)
    BY <2>2, AtCall DEF InFlight
  <2>4. a = RowOf(h) /\ Fits(a, row) /\ Op(h) \in Clock \cup {"post"} /\ h \in DOMAIN var
    BY <2>1, <2>2, <2>3 DEF Holds, Placed
  <2>5. Had(a)
    BY <2>2, <2>3, <2>4 DEF Brings, RowOf, Op
  <2>6. h \in DOMAIN var' /\ var'[h].id = a /\ pc'[h] = "done"
    BY <2>2 DEF Save, TypeOK
  <2>7. h \in Saves(a)'
    BY <2>2, <2>3, <2>4, <2>6 DEF Saves, Touches, All, Op, RowOf
  <2>8. StoresRow(h, a, row)
    BY <2>1, <2>2, <2>4, <2>5, <2>7 DEF StoresRow
  <2>9. QED
    BY <2>8 DEF RowEffect
<1>4. CASE LogSave(h)
  <2>1. PICK a, row : a = var[h].id /\ row = var[h].row
    OBVIOUS
  <2>2. pc[h] = "log_save" /\ call' = call /\ attendance' = Save(attendance, a, row)
    BY <1>4, <2>1 DEF LogSave, SaveRow, Goto
  <2>3. h \in DOMAIN call /\ Placed(h) /\ Brings(h) /\ Holds(h)
    BY <2>2, AtCall DEF InFlight
  <2>4. a = RowOf(h) /\ Fits(a, row) /\ Op(h) = "log"
    BY <2>1, <2>2, <2>3 DEF Holds, Placed
  <2>5. call[h].id = a
    BY <2>4 DEF RowOf, Op
  <2>6. Had(a)
    BY <2>2, <2>3, <2>4, <2>5 DEF Brings
  <2>7. h \in Saves(a)'
    BY <2>2, <2>3, <2>4, <2>5 DEF Saves, Touches, All, Op
  <2>8. StoresRow(h, a, row)
    BY <2>1, <2>2, <2>4, <2>6, <2>7 DEF StoresRow
  <2>9. QED
    BY <2>8 DEF RowEffect
<1>5. CASE DecideMake(h) \/ DecideSave(h)
  <2>1. PICK a, row : a = var[h].id /\ row = var[h].row
    OBVIOUS
  <2>2. PICK saved \in {row, [row EXCEPT !.approved = FALSE]} :
          /\ pc[h] \in {"decide_make", "decide_save"} /\ call' = call
          /\ attendance' = Save(attendance, a, saved)
    BY <1>5, <2>1 DEF DecideMake, DecideSave, SaveRow, Goto
  <2>3. h \in DOMAIN call /\ Placed(h) /\ Brings(h) /\ Holds(h)
    BY <2>2, AtCall DEF InFlight
  <2>4. /\ Op(h) = "decide" /\ a \in DOMAIN call[h].copies /\ Fits(a, row)
        /\ AllFit(summary[call[h].id].emp, call[h].copies)
    BY <2>1, <2>2, <2>3 DEF Holds, Placed, Brings
  <2>5. Had(a)
    BY <2>4 DEF AllFit
  <2>6. Fits(a, saved)
    BY <2>2, <2>4, Unapproved
  <2>7. h \in Saves(a)'
    BY <2>2, <2>3, <2>4 DEF Saves, Touches, All, Op
  <2>8. StoresRow(h, a, saved)
    BY <2>1, <2>2, <2>5, <2>6, <2>7 DEF StoresRow
  <2>9. QED
    BY <2>8 DEF RowEffect
<1>6. CASE DeleteAct(h)
  <2>1. /\ pc[h] = "delete_act" /\ call' = call
        /\ attendance' \in {attendance, Delete(attendance, call[h].id)}
    BY <1>6 DEF DeleteAct, Goto
  <2>2. h \in DOMAIN call /\ Op(h) = "delete"
    BY <2>1, AtCall DEF InFlight, Placed
  <2>3. DeletesRow(h, call[h].id)
    BY <2>1, <2>2 DEF DeletesRow, Deleted, All, Op
  <2>4. QED
    BY <2>3 DEF RowEffect
<1>7. QED
  BY <1>1, <1>2, <1>3, <1>4, <1>5, <1>6, AttendanceUnchanged DEF RowEffect

(* What is kept by every step. *)
LEMMA Kept ==
    ASSUME CallsInv, NEW h, Frame(h), RowEffect(h)
    PROVE  /\ \A a : Deleted(a) => Deleted(a)'
           /\ \A a : Had(a) => Had(a)' /\ Whose(a)' = Whose(a)
           /\ \A e, copies : AllFit(e, copies) => AllFit(e, copies)'
           /\ \A a, row : Had(a) /\ Fits(a, row) => Fits(a, row)'
           /\ Rest' \subseteq Rest
<1>1. DOMAIN call \subseteq DOMAIN call' /\ \A g \in DOMAIN call : call'[g] = call[g]
  BY DEF Frame
<1>2. ASSUME NEW a, Deleted(a) PROVE Deleted(a)'
  BY <1>1, <1>2 DEF Deleted, All, Op
<1>3. ASSUME NEW a \in DOMAIN attendance PROVE a \in DOMAIN attendance' \/ Deleted(a)
  BY DEF RowEffect, OpensRow, StoresRow, DeletesRow, Save, Delete
<1>4. \A a \in All({"post", "log"}) : a \in All({"post", "log"})' /\ call'[a] = call[a]
  BY <1>1 DEF All, Op
<1>5. ASSUME NEW a, Had(a) PROVE Had(a)' /\ Whose(a)' = Whose(a)
  BY <1>2, <1>3, <1>4, <1>5 DEF Had, Whose
<1>6. ASSUME NEW e, NEW copies, AllFit(e, copies) PROVE AllFit(e, copies)'
  BY <1>5, <1>6 DEF AllFit
<1>7. ASSUME NEW a, NEW row, Had(a), Fits(a, row) PROVE Fits(a, row)'
  BY <1>5, <1>7 DEF Fits
<1>8. Rest' \subseteq Rest
  BY DEF Rest, Frame
<1>9. QED
  BY <1>2, <1>5, <1>6, <1>7, <1>8

-----------------------------------------------------------------------------
(* What a step does to the summaries: nothing, or it stores one under an   *)
(* id there is, or under its own.                                          *)
StoresSummary(h, s, row) ==
    /\ summary' = Save(summary, s, row) /\ attendance' = attendance /\ call' = call
    /\ row.emp \in Employees /\ row.status \in Statuses /\ AllFit(row.emp, row.copies)
    /\ \/ s \in DOMAIN summary /\ summary[s].emp = row.emp
       \/ /\ s = <<h, row.emp>> /\ h \in DOMAIN missed /\ pc[h] \in InFlight
          /\ \A t \in DOMAIN summary : summary[t].emp = row.emp => {h, t[1]} \in crossed

SummaryEffect(h) == summary' = summary \/ \E s, row : StoresSummary(h, s, row)

LEMMA SummaryUnchanged ==
    ASSUME NEW h, Moves(h), ~FileSave(h), ~DecideStore(h)
    PROVE  summary' = summary
<1>1. CASE Post(h) \/ ClockCall(h) \/ Log(h) \/ File(h) \/ Decide(h) \/ DeleteCall(h)
  BY <1>1 DEF Post, ClockCall, Log, File, Decide, DeleteCall, Begin
<1>2. CASE PostLook(h) \/ PostInsert(h) \/ ClockRead(h) \/ ClockSave(h) \/ LogRead(h) \/ LogSave(h)
           \/ LogInsert(h)
  BY <1>2 DEF PostLook, PostInsert, ClockRead, ClockSave, LogRead, LogSave, LogInsert, Own, SaveRow
<1>3. CASE FileRead(h) \/ FileFind(h) \/ DecideRead(h) \/ DecideRow(h) \/ DecideMake(h)
           \/ DecideSave(h) \/ DeleteRead(h) \/ DeleteAct(h) \/ Abort(h)
  BY <1>3 DEF FileRead, FileFind, DecideRead, DecideRow, DecideMake, DecideSave, DeleteRead,
              DeleteAct, Abort, Own, SaveRow
<1>4. QED
  BY <1>1, <1>2, <1>3 DEF Moves

LEMMA SummaryEffects ==
    ASSUME TypeOK, CallsInv, RowsInv, OpenInv, NEW h \in Calls, Moves(h)
    PROVE  SummaryEffect(h)
<1>1. CASE FileSave(h)
  <2>1. PICK e, s, copies :
          /\ e \in DOMAIN var[h].copies /\ s = var[h].id[e] /\ copies = var[h].copies[e]
          /\ summary' = Save(summary, s, [emp |-> e, status |-> "pending", copies |-> copies])
          /\ pc[h] = "file_save" /\ attendance' = attendance /\ call' = call
    BY <1>1 DEF FileSave
  <2>2. Holds(h) /\ Begins(h)
    BY <2>1, AtCall DEF InFlight
  <2>3. h \in DOMAIN missed /\ e \in Employees /\ AllFit(e, copies)
    BY <2>1, <2>2 DEF Holds
  <2>4. \/ s \in DOMAIN summary /\ summary[s].emp = e
        \/ s = <<h, e>> /\ \A t \in DOMAIN summary : summary[t].emp = e => {h, t[1]} \in crossed
    BY <2>1, <2>2 DEF Begins
  <2>5. StoresSummary(h, s, [emp |-> e, status |-> "pending", copies |-> copies])
    BY <2>1, <2>3, <2>4 DEF StoresSummary, Statuses, InFlight
  <2>6. QED
    BY <2>5 DEF SummaryEffect
<1>2. CASE DecideStore(h)
  <2>1. PICK s, row : s = call[h].id /\ row = var[h].sum
    OBVIOUS
  <2>2. /\ pc[h] = "decide_store" /\ attendance' = attendance /\ call' = call
        /\ summary' = Save(summary, s, row)
    BY <1>2, <2>1 DEF DecideStore, Goto
  <2>3. h \in DOMAIN call /\ Placed(h) /\ Brings(h) /\ Holds(h)
    BY <2>2, AtCall DEF InFlight
  <2>4. /\ s \in DOMAIN summary /\ AllFit(summary[s].emp, row.copies)
        /\ row.emp = summary[s].emp /\ row.status \in Statuses
    BY <2>1, <2>2, <2>3 DEF Holds, Placed, Brings
  <2>5. summary[s].emp \in Employees
    BY <2>4 DEF RowsInv, Filed
  <2>6. StoresSummary(h, s, row)
    BY <2>2, <2>4, <2>5 DEF StoresSummary
  <2>7. QED
    BY <2>6 DEF SummaryEffect
<1>3. QED
  BY <1>1, <1>2, SummaryUnchanged DEF SummaryEffect

LEMMA SummariesStay ==
    ASSUME NEW h, SummaryEffect(h), NEW s \in DOMAIN summary, RowsInv
    PROVE  s \in DOMAIN summary' /\ summary'[s].emp = summary[s].emp
<1>1. CASE summary' = summary
  BY <1>1
<1>2. ASSUME NEW t, NEW row, StoresSummary(h, t, row)
      PROVE  s \in DOMAIN summary' /\ summary'[s].emp = summary[s].emp
  <2>1. s = <<s[1], summary[s].emp>>
    BY DEF RowsInv, Filed
  <2>2. DOMAIN summary' = DOMAIN summary \cup {t} /\ summary'[t] = row
        /\ (s # t => summary'[s] = summary[s])
    BY <1>2 DEF StoresSummary, Save
  <2>3. CASE s = t
    BY <1>2, <2>1, <2>2, <2>3 DEF StoresSummary
  <2>4. QED
    BY <2>2, <2>3
<1>3. QED
  BY <1>1, <1>2 DEF SummaryEffect

LEMMA NewRow ==
    ASSUME NEW h, RowEffect(h), NEW a \in DOMAIN attendance', a \notin DOMAIN attendance
    PROVE  (a = h /\ \E row : OpensRow(h, row)) \/ \E row : StoresRow(h, a, row)
<1>1. ASSUME NEW row, OpensRow(h, row) PROVE a = h
  BY <1>1 DEF OpensRow, Save
<1>2. ASSUME NEW b, NEW row, StoresRow(h, b, row) PROVE a = b
  BY <1>2 DEF StoresRow, Save
<1>3. ASSUME NEW b, DeletesRow(h, b) PROVE FALSE
  BY <1>3 DEF DeletesRow, Delete
<1>4. QED
  BY <1>1, <1>2, <1>3 DEF RowEffect

LEMMA NewSummary ==
    ASSUME NEW h, SummaryEffect(h), NEW s \in DOMAIN summary', s \notin DOMAIN summary
    PROVE  \E row : StoresSummary(h, s, row)
<1>1. ASSUME NEW t, NEW row, StoresSummary(h, t, row) PROVE s = t
  BY <1>1 DEF StoresSummary, Save
<1>2. QED
  BY <1>1 DEF SummaryEffect

LEMMA RowsKept ==
    ASSUME CallsInv, RowsInv, NEW h, Frame(h), RowEffect(h)
    PROVE  (\A a \in DOMAIN attendance : Had(a) /\ Fits(a, attendance[a]))'
<1>1. \A a \in DOMAIN attendance : Had(a) /\ Fits(a, attendance[a])
  BY DEF RowsInv
<1>2. ASSUME NEW a \in DOMAIN attendance', a \in DOMAIN attendance, attendance'[a] = attendance[a]
      PROVE  (Had(a) /\ Fits(a, attendance[a]))'
  <2>1. PICK row : row = attendance[a]
    OBVIOUS
  <2>2. Had(a) /\ Fits(a, row) /\ row = attendance'[a]
    BY <1>1, <1>2, <2>1
  <2>3. Had(a)' /\ Fits(a, row)'
    BY <2>2, Kept
  <2>4. QED
    BY <2>2, <2>3 DEF Fits
<1>3. CASE attendance' = attendance
  BY <1>2, <1>3
<1>4. ASSUME NEW row, OpensRow(h, row), NEW a \in DOMAIN attendance'
      PROVE  (Had(a) /\ Fits(a, attendance[a]))'
  <2>1. CASE a # h
    BY <1>2, <1>4, <2>1 DEF OpensRow, Save
  <2>2. CASE a = h
    <3>1. attendance'[a] = row /\ call' = call /\ h \in All({"post", "log"}) /\ Fits(h, row)
      BY <1>4, <2>2 DEF OpensRow, Save
    <3>2. Had(a)' /\ Whose(h)' = Whose(h)
      BY <2>2, <3>1 DEF Had, All, Op, Whose
    <3>3. QED
      BY <2>2, <3>1, <3>2 DEF Fits
  <2>3. QED
    BY <2>1, <2>2
<1>5. ASSUME NEW b, NEW row, StoresRow(h, b, row), NEW a \in DOMAIN attendance'
      PROVE  (Had(a) /\ Fits(a, attendance[a]))'
  <2>1. CASE a # b
    BY <1>2, <1>5, <2>1 DEF StoresRow, Save
  <2>2. CASE a = b
    <3>1. attendance'[a] = row /\ Had(a) /\ Fits(a, row)
      BY <1>5, <2>2 DEF StoresRow, Save
    <3>2. Had(a)' /\ Fits(a, row)'
      BY <3>1, Kept
    <3>3. QED
      BY <3>1, <3>2 DEF Fits
  <2>3. QED
    BY <2>1, <2>2
<1>6. ASSUME NEW b, DeletesRow(h, b), NEW a \in DOMAIN attendance'
      PROVE  (Had(a) /\ Fits(a, attendance[a]))'
  BY <1>2, <1>6 DEF DeletesRow, Delete
<1>7. QED
  BY <1>3, <1>4, <1>5, <1>6 DEF RowEffect

LEMMA FiledKept ==
    ASSUME CallsInv, RowsInv, NEW h, Frame(h), RowEffect(h), SummaryEffect(h)
    PROVE  (\A s \in DOMAIN summary : Filed(s))'
<1>1. ASSUME NEW s \in DOMAIN summary', s \in DOMAIN summary, summary'[s] = summary[s]
      PROVE  Filed(s)'
  <2>1. Filed(s)
    BY <1>1 DEF RowsInv
  <2>2. AllFit(summary[s].emp, summary[s].copies)'
    BY <1>1, <2>1, Kept DEF Filed
  <2>3. QED
    BY <1>1, <2>1, <2>2 DEF Filed, Frame
<1>2. CASE summary' = summary
  BY <1>1, <1>2
<1>3. ASSUME NEW t, NEW row, StoresSummary(h, t, row), NEW s \in DOMAIN summary'
      PROVE  Filed(s)'
  <2>1. CASE s # t
    BY <1>1, <1>3, <2>1 DEF StoresSummary, Save
  <2>2. CASE s = t
    <3>1. summary'[s] = row /\ row.emp \in Employees /\ row.status \in Statuses
      BY <1>3, <2>2 DEF StoresSummary, Save
    <3>2. AllFit(row.emp, row.copies)'
      BY <1>3, Kept DEF StoresSummary
    <3>3. s = <<s[1], row.emp>> /\ s[1] \in DOMAIN missed
      <4>1. CASE s \in DOMAIN summary /\ summary[s].emp = row.emp
        BY <4>1 DEF RowsInv, Filed
      <4>2. CASE s = <<h, row.emp>> /\ h \in DOMAIN missed
        BY <4>2
      <4>3. QED
        BY <1>3, <2>2, <4>1, <4>2 DEF StoresSummary
    <3>4. QED
      BY <3>1, <3>2, <3>3 DEF Filed, Frame
  <2>3. QED
    BY <2>1, <2>2
<1>4. QED
  BY <1>2, <1>3 DEF SummaryEffect

LEMMA RowsStayApart ==
    ASSUME CallsInv, RowsInv, OpenInv, Apart, NEW h \in Calls, Frame(h), RowEffect(h)
    PROVE  (\A a, b \in DOMAIN attendance :
              a # b /\ Whose(a) = Whose(b) => {a, b} \in crossed \/ Deleted(a) \/ Deleted(b))'
<1> DEFINE Ok(a, b) == {a, b} \in crossed' \/ Deleted(a)' \/ Deleted(b)'
<1>1. ASSUME NEW a \in DOMAIN attendance, NEW b \in DOMAIN attendance, a # b, Whose(a)' = Whose(b)'
      PROVE  Ok(a, b)
  <2>1. Had(a) /\ Had(b)
    BY DEF RowsInv
  <2>2. Whose(a) = Whose(b)
    BY <1>1, <2>1, Kept
  <2>3. {a, b} \in crossed \/ Deleted(a) \/ Deleted(b)
    BY <1>1, <2>2 DEF Apart
  <2>4. QED
    BY <2>3, Kept DEF Frame
<1>2. CASE attendance' = attendance
  BY <1>1, <1>2
<1>3. ASSUME NEW row, OpensRow(h, row)
      PROVE  \A a, b \in DOMAIN attendance' : a # b /\ Whose(a)' = Whose(b)' => Ok(a, b)
  <2>1. h \in DOMAIN call /\ pc[h] \in {"post_insert", "log_insert"} /\ call' = call
    BY <1>3 DEF OpensRow, All
  <2>2. DOMAIN attendance' = DOMAIN attendance \cup {h}
    BY <1>3 DEF OpensRow, Save
  <2>3. ASSUME NEW b \in DOMAIN attendance, Whose(h)' = Whose(b)'
        PROVE  Ok(h, b) /\ Ok(b, h)
    <3>1. Had(b) /\ Opens(h)
      BY <2>1 DEF RowsInv, OpenInv
    <3>2. Whose(b)' = Whose(b) /\ Whose(h)' = Whose(h)
      BY <2>1 DEF Whose
    <3>3. {h, b} \in crossed \/ Deleted(b)
      BY <2>1, <2>3, <3>1, <3>2 DEF Opens
    <3>4. {h, b} = {b, h}
      OBVIOUS
    <3>5. QED
      BY <3>3, <3>4, Kept DEF Frame
  <2>4. QED
    BY <1>1, <2>2, <2>3
<1>4. ASSUME NEW c, NEW row, StoresRow(h, c, row)
      PROVE  \A a, b \in DOMAIN attendance' : a # b /\ Whose(a)' = Whose(b)' => Ok(a, b)
  <2>1. DOMAIN attendance' = DOMAIN attendance \cup {c} /\ Had(c)
    BY <1>4 DEF StoresRow, Save
  <2>2. c \in DOMAIN attendance \/ Deleted(c)'
    BY <2>1, Kept DEF Had
  <2>3. QED
    BY <1>1, <2>1, <2>2
<1>5. ASSUME NEW c, DeletesRow(h, c)
      PROVE  \A a, b \in DOMAIN attendance' : a # b /\ Whose(a)' = Whose(b)' => Ok(a, b)
  BY <1>1, <1>5 DEF DeletesRow, Delete
<1>6. QED
  BY <1>2, <1>3, <1>4, <1>5 DEF RowEffect

LEMMA SummariesStayApart ==
    ASSUME CallsInv, RowsInv, Apart, NEW h \in Calls, Frame(h), SummaryEffect(h)
    PROVE  (\A s, t \in DOMAIN summary :
              s # t /\ summary[s].emp = summary[t].emp => {s[1], t[1]} \in crossed)'
<1>1. \A s, t \in DOMAIN summary : s # t /\ summary[s].emp = summary[t].emp
          => {s[1], t[1]} \in crossed'
  BY DEF Apart, Frame
<1>2. CASE summary' = summary
  BY <1>1, <1>2
<1>3. ASSUME NEW r, NEW row, StoresSummary(h, r, row)
      PROVE  \A s, t \in DOMAIN summary' :
               s # t /\ summary'[s].emp = summary'[t].emp => {s[1], t[1]} \in crossed'
  <2>1. /\ DOMAIN summary' = DOMAIN summary \cup {r} /\ summary'[r] = row
        /\ \A s \in DOMAIN summary : summary'[s].emp = summary[s].emp
    BY <1>3, SummariesStay DEF StoresSummary, Save
  <2>2. CASE r \in DOMAIN summary
    BY <1>1, <2>1, <2>2
  <2>3. CASE r \notin DOMAIN summary
    <3>1. r = <<h, row.emp>> /\ \A t \in DOMAIN summary : summary[t].emp = row.emp
              => {h, t[1]} \in crossed
      BY <1>3, <2>3 DEF StoresSummary
    <3>2. \A t \in DOMAIN summary : summary[t].emp = row.emp => {r[1], t[1]} \in crossed'
              /\ {t[1], r[1]} \in crossed'
      <4>1. r[1] = h
        BY <3>1
      <4>2. \A x, y : {x, y} = {y, x}
        OBVIOUS
      <4>3. QED
        BY <3>1, <4>1, <4>2 DEF Frame
    <3>3. QED
      BY <1>1, <2>1, <2>3, <3>2
  <2>4. QED
    BY <2>2, <2>3
<1>4. QED
  BY <1>2, <1>3 DEF SummaryEffect

-----------------------------------------------------------------------------
(* How each kind of call begins. *)
Begun(h, op, to) ==
    /\ Frame(h) /\ h \notin DOMAIN call /\ pc[h] = "idle" /\ pc'[h] = to
    /\ call'[h].op = op /\ call'[h].rest = Rest
    /\ attendance' = attendance /\ summary' = summary /\ var' = var /\ missed' = missed
    /\ h \notin DOMAIN var
    /\ \A x \in Calls : pc[x] \in InFlight => {h, x} \in crossed'

LEMMA BegunBy ==
    ASSUME TypeOK, CallsInv, NEW h \in Calls, NEW to \in InFlight, NEW about, about.rest = Rest,
           Goto(h, "idle", to), Begin(h, about)
    PROVE  Begun(h, about.op, to) /\ call'[h] = about
<1>1. Frame(h) /\ h \notin DOMAIN call /\ call'[h] = about
      /\ \A x \in Calls : pc[x] \in InFlight => {h, x} \in crossed'
  BY FrameOfBegin
<1>2. h \notin DOMAIN var
  BY <1>1 DEF CallsInv
<1>3. QED
  BY <1>1, <1>2 DEF Begun, Begin, Goto, TypeOK

LEMMA Posting ==
    ASSUME TypeOK, CallsInv, NEW h \in Calls, Post(h)
    PROVE  Begun(h, "post", "post_look") /\ call'[h].emp \in Employees /\ call'[h].day \in Days
<1>1. PICK e \in Employees, d \in Days :
        Goto(h, "idle", "post_look")
            /\ Begin(h, [op |-> "post", emp |-> e, day |-> d, rest |-> Rest])
  BY DEF Post
<1>2. PICK about : about = [op |-> "post", emp |-> e, day |-> d, rest |-> Rest]
  OBVIOUS
<1>3. Begun(h, about.op, "post_look") /\ call'[h] = about
  BY <1>1, <1>2, BegunBy DEF InFlight
<1>4. QED
  BY <1>2, <1>3

LEMMA Clocking ==
    ASSUME TypeOK, CallsInv, NEW h \in Calls, ClockCall(h)
    PROVE  \E op \in Clock : Begun(h, op, "clock_read") /\ call'[h].id \in DOMAIN attendance
<1>1. PICK op \in Clock, a \in DOMAIN attendance :
        Goto(h, "idle", "clock_read") /\ Begin(h, [op |-> op, id |-> a, rest |-> Rest])
  BY DEF ClockCall
<1>2. PICK about : about = [op |-> op, id |-> a, rest |-> Rest]
  OBVIOUS
<1>3. Begun(h, about.op, "clock_read") /\ call'[h] = about
  BY <1>1, <1>2, BegunBy DEF InFlight
<1>4. QED
  BY <1>2, <1>3

LEMMA Logging ==
    ASSUME TypeOK, CallsInv, NEW h \in Calls, Log(h)
    PROVE  /\ call'[h].emp \in Employees /\ call'[h].day \in Days
           /\ \/ Begun(h, "log", "log_read") /\ call'[h].id \in DOMAIN attendance
              \/ /\ Begun(h, "log", "log_insert") /\ call'[h].id = h
                 /\ OfDay(call'[h].emp, call'[h].day) = {}
<1>1. PICK e \in Employees, d \in Days :
        \/ \E a \in OfDay(e, d) :
             /\ Goto(h, "idle", "log_read")
             /\ Begin(h, [op |-> "log", id |-> a, emp |-> e, day |-> d, rest |-> Rest])
        \/ /\ OfDay(e, d) = {} /\ Goto(h, "idle", "log_insert")
           /\ Begin(h, [op |-> "log", id |-> h, emp |-> e, day |-> d, rest |-> Rest])
  BY DEF Log
<1>2. ASSUME NEW a \in OfDay(e, d), Goto(h, "idle", "log_read"),
             Begin(h, [op |-> "log", id |-> a, emp |-> e, day |-> d, rest |-> Rest])
      PROVE  /\ call'[h].emp \in Employees /\ call'[h].day \in Days
             /\ Begun(h, "log", "log_read") /\ call'[h].id \in DOMAIN attendance
  <2>1. PICK about : about = [op |-> "log", id |-> a, emp |-> e, day |-> d, rest |-> Rest]
    OBVIOUS
  <2>2. Begun(h, about.op, "log_read") /\ call'[h] = about
    BY <1>2, <2>1, BegunBy DEF InFlight
  <2>3. QED
    BY <2>1, <2>2 DEF OfDay
<1>3. ASSUME OfDay(e, d) = {}, Goto(h, "idle", "log_insert"),
             Begin(h, [op |-> "log", id |-> h, emp |-> e, day |-> d, rest |-> Rest])
      PROVE  /\ call'[h].emp \in Employees /\ call'[h].day \in Days
             /\ Begun(h, "log", "log_insert") /\ call'[h].id = h
             /\ OfDay(call'[h].emp, call'[h].day) = {}
  <2>1. PICK about : about = [op |-> "log", id |-> h, emp |-> e, day |-> d, rest |-> Rest]
    OBVIOUS
  <2>2. Begun(h, about.op, "log_insert") /\ call'[h] = about
    BY <1>3, <2>1, BegunBy DEF InFlight
  <2>3. QED
    BY <1>3, <2>1, <2>2
<1>4. QED
  BY <1>1, <1>2, <1>3

LEMMA Filing ==
    ASSUME TypeOK, CallsInv, NEW h \in Calls, File(h)
    PROVE  Begun(h, "file", "file_read")
<1>1. PICK about : about = [op |-> "file", rest |-> Rest]
  OBVIOUS
<1>2. Begun(h, about.op, "file_read") /\ call'[h] = about
  BY <1>1, BegunBy DEF InFlight, File
<1>3. QED
  BY <1>1, <1>2

LEMMA Deciding ==
    ASSUME TypeOK, CallsInv, NEW h \in Calls, Decide(h)
    PROVE  /\ Begun(h, "decide", "decide_read") /\ call'[h].id \in DOMAIN summary
           /\ call'[h].status \in {"approved", "rejected", None}
           /\ call'[h].copies = summary[call'[h].id].copies
<1>1. PICK s \in DOMAIN summary, st \in {"approved", "rejected", None} :
        /\ Goto(h, "idle", "decide_read")
        /\ Begin(h, [op |-> "decide", id |-> s, status |-> st, copies |-> summary[s].copies,
                     rest |-> Rest])
  BY DEF Decide
<1>2. PICK about : about = [op |-> "decide", id |-> s, status |-> st, copies |-> summary[s].copies,
                            rest |-> Rest]
  OBVIOUS
<1>3. Begun(h, about.op, "decide_read") /\ call'[h] = about
  BY <1>1, <1>2, BegunBy DEF InFlight
<1>4. QED
  BY <1>2, <1>3

LEMMA Deleting ==
    ASSUME TypeOK, CallsInv, NEW h \in Calls, DeleteCall(h)
    PROVE  Begun(h, "delete", "delete_read") /\ call'[h].id \in DOMAIN attendance
<1>1. PICK a \in DOMAIN attendance :
        Goto(h, "idle", "delete_read") /\ Begin(h, [op |-> "delete", id |-> a, rest |-> Rest])
  BY DEF DeleteCall
<1>2. PICK about : about = [op |-> "delete", id |-> a, rest |-> Rest]
  OBVIOUS
<1>3. Begun(h, about.op, "delete_read") /\ call'[h] = about
  BY <1>1, <1>2, BegunBy DEF InFlight
<1>4. QED
  BY <1>2, <1>3

LEMMA CallUnchanged ==
    ASSUME NEW h, Moves(h), ~Post(h), ~ClockCall(h), ~Log(h), ~File(h), ~Decide(h), ~DeleteCall(h)
    PROVE  call' = call
  BY DEF Moves, PostLook, PostInsert, ClockRead, ClockSave, LogRead, LogSave, LogInsert, FileRead,
         FileFind, FileSave, DecideRead, DecideRow, DecideMake, DecideSave, DecideStore, DeleteRead,
         DeleteAct, Abort, Own, SaveRow

LEMMA NewlyDeleted ==
    ASSUME TypeOK, CallsInv, NEW h \in Calls, Moves(h), NEW a, Deleted(a)'
    PROVE  Deleted(a) \/ a \in DOMAIN attendance
<1>1. PICK d \in DOMAIN call' : call'[d].op = "delete" /\ call'[d].id = a
  BY DEF Deleted, All, Op
<1>2. CASE d \in DOMAIN call
  BY <1>1, <1>2, FrameOfMove DEF Frame, Deleted, All, Op
<1>3. CASE d \notin DOMAIN call
  <2>1. d = h /\ call' # call
    BY <1>1, <1>3, FrameOfMove DEF Frame
  <2>2. Post(h) \/ ClockCall(h) \/ Log(h) \/ File(h) \/ Decide(h) \/ DeleteCall(h)
    BY <2>1, CallUnchanged
  <2>3. call'[h].op = "delete" => call'[h].id \in DOMAIN attendance
    BY <2>2, Posting, Clocking, Logging, Filing, Deciding, Deleting DEF Begun, Clock
  <2>4. QED
    BY <1>1, <2>1, <2>3
<1>4. QED
  BY <1>2, <1>3

-----------------------------------------------------------------------------
(* A call that does not move stays as it was. *)
LEMMA Still ==
    ASSUME TypeOK, CallsInv, NEW h, Frame(h), NEW g \in DOMAIN call, g # h
    PROVE  /\ g \in Calls /\ g \in DOMAIN call' /\ call'[g] = call[g] /\ pc'[g] = pc[g]
           /\ g \in DOMAIN var => g \in DOMAIN var' /\ var'[g] = var[g]
  BY DEF Frame, CallsInv

LEMMA OthersPlaced ==
    ASSUME TypeOK, CallsInv, NEW h, Frame(h), NEW g \in DOMAIN call, g # h
    PROVE  Placed(g)'
<1>1. Placed(g)
  BY DEF CallsInv
<1>2. QED
  BY <1>1, Still DEF Placed, Op

LEMMA OthersBring ==
    ASSUME TypeOK, CallsInv, RowsInv, NEW h, Frame(h), RowEffect(h), SummaryEffect(h),
           NEW g \in DOMAIN call, g # h
    PROVE  Brings(g)'
<1>1. Placed(g) /\ Brings(g)
  BY DEF CallsInv, RowsInv
<1>2. /\ call'[g] = call[g] /\ pc'[g] = pc[g] /\ Op(g)' = Op(g)
      /\ g \in DOMAIN var => var'[g] = var[g]
  BY Still DEF Op
<1>3. /\ Op(g) \in {"post", "log"} => call'[g].emp \in Employees /\ call'[g].day \in Days
      /\ Op(g) \in Clock \cup {"delete"} => Had(call[g].id)
      /\ Op(g) = "log" => IF pc[g] = "log_insert" THEN call[g].id = g
                          ELSE Had(call[g].id) \/ pc[g] = "failed"
      /\ Op(g) = "decide" => /\ call[g].id \in DOMAIN summary
                             /\ call[g].status \in {"approved", "rejected", None}
                             /\ AllFit(summary[call[g].id].emp, call[g].copies)
      /\ Op(g) = "post" /\ pc[g] \in {"clock_read", "clock_save", "done"} =>
           g \in DOMAIN var /\ Had(var[g].id)
  BY <1>1, <1>2 DEF Brings, Placed, Clock
<1>4. PICK i, v, cs, st : i = call[g].id /\ v = var[g].id /\ cs = call[g].copies
               /\ st = call[g].status
  OBVIOUS
<1>5. Had(i) => Had(i)'
  BY Kept
<1>6. Had(v) => Had(v)'
  BY Kept
<1>7. i \in DOMAIN summary => i \in DOMAIN summary' /\ summary'[i].emp = summary[i].emp
  BY SummariesStay
<1>8. ASSUME NEW e, AllFit(e, cs) PROVE AllFit(e, cs)'
  BY <1>8, Kept
<1>9. Op(g) = "decide" => i \in DOMAIN summary' /\ AllFit(summary[i].emp, cs)'
  <2>1. PICK e : e = summary[i].emp
    OBVIOUS
  <2>2. Op(g) = "decide" => i \in DOMAIN summary' /\ AllFit(e, cs)' /\ summary'[i].emp = e
    BY <1>3, <1>4, <1>7, <1>8, <2>1
  <2>3. QED
    BY <2>2 DEF AllFit
<1>10. QED
  BY <1>2, <1>3, <1>4, <1>5, <1>6, <1>9 DEF Brings

LEMMA OthersHold ==
    ASSUME TypeOK, CallsInv, RowsInv, NEW h, Frame(h), RowEffect(h), SummaryEffect(h),
           NEW g \in DOMAIN call, g # h
    PROVE  Holds(g)'
<1>1. Placed(g) /\ Brings(g) /\ Holds(g)
  BY DEF CallsInv, RowsInv
<1>2. PICK v, k : v = var[g] /\ k = call[g]
  OBVIOUS
<1>3. call'[g] = k /\ pc'[g] = pc[g] /\ (g \in DOMAIN var => var'[g] = v)
  BY <1>2, Still
<1>4. ASSUME pc[g] \in {"clock_save", "log_save"}
      PROVE  var'[g] = v /\ (v.id = RowOf(g) /\ Fits(v.id, v.row))'
  <2>1. g \in DOMAIN var /\ v.id = RowOf(g) /\ Fits(v.id, v.row)
    BY <1>1, <1>2, <1>4 DEF Placed, Holds
  <2>2. var'[g] = v
    BY <1>3, <2>1
  <2>3. Had(v.id)
    <3>1. CASE Op(g) = "post"
      BY <1>1, <1>2, <1>4, <3>1 DEF Brings, Placed
    <3>2. CASE Op(g) = "log"
      BY <1>1, <1>2, <1>4, <2>1, <3>2 DEF Brings, Placed, RowOf, Op, Clock
    <3>3. CASE Op(g) \in Clock
      BY <1>1, <1>2, <1>4, <2>1, <3>3 DEF Brings, Placed, RowOf, Op, Clock
    <3>4. QED
      BY <1>1, <1>4, <3>1, <3>2, <3>3 DEF Placed
  <2>4. Had(v.id)
    BY <2>3
  <2>5. Fits(v.id, v.row)'
    BY <2>1, <2>4, Kept
  <2>6. QED
    BY <1>2, <1>3, <2>1, <2>2, <2>5 DEF RowOf
<1>5. ASSUME pc[g] \in {"file_find", "file_save"}
      PROVE  /\ var'[g] = v
             /\ (g \in DOMAIN missed
                 /\ \A e \in DOMAIN v.copies : e \in Employees /\ AllFit(e, v.copies[e]))'
  <2>1. /\ g \in DOMAIN var /\ g \in DOMAIN missed
        /\ \A e \in DOMAIN v.copies : e \in Employees /\ AllFit(e, v.copies[e])
    BY <1>1, <1>2, <1>5 DEF Placed, Holds
  <2>2. ASSUME NEW e \in DOMAIN v.copies PROVE AllFit(e, v.copies[e])'
    BY <2>1, Kept
  <2>3. QED
    BY <1>3, <2>1, <2>2 DEF Frame
<1>6. ASSUME pc[g] \in {"decide_row", "decide_make", "decide_save", "decide_store"}
      PROVE  /\ var'[g] = v
             /\ v.sum.emp = summary'[k.id].emp /\ v.sum.status \in Statuses
             /\ v.sum.copies = k.copies
             /\ k.status # None => v.sum.status = k.status
             /\ pc[g] \in {"decide_row", "decide_make", "decide_save"}
                    => v.todo \subseteq DOMAIN k.copies
             /\ k.id \in DOMAIN summary /\ AllFit(summary[k.id].emp, k.copies)
  <2>1. g \in DOMAIN var /\ Op(g) = "decide"
    BY <1>1, <1>6 DEF Placed
  <2>2. k.id \in DOMAIN summary /\ AllFit(summary[k.id].emp, k.copies)
    BY <1>1, <1>2, <2>1 DEF Brings
  <2>3. summary'[k.id].emp = summary[k.id].emp
    BY <2>2, SummariesStay
  <2>4. QED
    BY <1>1, <1>2, <1>3, <1>6, <2>1, <2>2, <2>3 DEF Holds
<1>7. ASSUME pc[g] \in {"decide_make", "decide_save"}
      PROVE  /\ v.id \in DOMAIN k.copies /\ Fits(v.id, v.row)'
             /\ v.row.entries = k.copies[v.id].entries
             /\ k.status # None => v.row.approved = (k.status = "approved")
  <2>1. /\ v.id \in DOMAIN k.copies /\ Fits(v.id, v.row)
        /\ v.row.entries = k.copies[v.id].entries
        /\ k.status # None => v.row.approved = (k.status = "approved")
    BY <1>1, <1>2, <1>7 DEF Holds
  <2>2. Had(v.id)
    BY <1>6, <1>7, <2>1 DEF AllFit
  <2>3. QED
    BY <2>1, <2>2, Kept
<1>8. QED
  BY <1>3, <1>4, <1>5, <1>6, <1>7 DEF Holds

LEMMA OthersOpen ==
    ASSUME TypeOK, CallsInv, RowsInv, OpenInv, NEW h \in Calls, Moves(h), Frame(h), RowEffect(h),
           NEW g \in DOMAIN call, g # h
    PROVE  Opens(g)'
<1>1. Placed(g) /\ Opens(g) /\ g \in Calls
  BY DEF CallsInv, OpenInv
<1>2. call'[g] = call[g] /\ pc'[g] = pc[g] /\ Whose(g)' = Whose(g)
  BY Still DEF Whose
<1>3. ASSUME pc[g] \in {"post_look", "post_insert", "log_insert"}
      PROVE  ~Had(g)'
  <2>1. g \in All({"post", "log"}) /\ g \in All({"post", "log"})'
    BY <1>1, <1>2, <1>3, Still DEF Placed, All, Op
  <2>2. g \notin DOMAIN attendance /\ ~Deleted(g)
    BY <1>1, <1>3, <2>1 DEF Opens, Had
  <2>3. ~Deleted(g)'
    BY <2>2, NewlyDeleted
  <2>4. ~Had(g)
    BY <2>2 DEF Had
  <2>5. g \notin DOMAIN attendance'
    BY <2>2, <2>4, NewRow DEF StoresRow
  <2>6. QED
    BY <2>3, <2>5 DEF Had
<1>4. ASSUME pc[g] \in {"post_insert", "log_insert"}, NEW b \in DOMAIN attendance',
             Whose(b)' = Whose(g)'
      PROVE  {g, b} \in crossed' \/ Deleted(b)'
  <2>1. CASE b \in DOMAIN attendance
    <3>1. Whose(b) = Whose(g)
      BY <1>2, <1>4, <2>1, Kept DEF RowsInv
    <3>2. {g, b} \in crossed \/ Deleted(b)
      BY <1>1, <1>4, <2>1, <3>1 DEF Opens
    <3>3. QED
      BY <3>2, Kept DEF Frame
  <2>2. CASE b \notin DOMAIN attendance
    <3>1. (b = h /\ \E row : OpensRow(h, row)) \/ \E row : StoresRow(h, b, row)
      BY <2>2, NewRow
    <3>2. CASE (\E row : OpensRow(h, row)) /\ b = h
      <4>1. pc[h] \in InFlight /\ pc[g] \in InFlight
        BY <1>4, <3>2 DEF OpensRow, InFlight
      <4>2. {g, b} \in crossed
        BY <1>1, <3>2, <4>1 DEF CallsInv
      <4>3. QED
        BY <4>2 DEF Frame
    <3>3. CASE \E row : StoresRow(h, b, row)
      <4>1. Deleted(b)
        BY <2>2, <3>3 DEF StoresRow, Had
      <4>2. QED
        BY <4>1, Kept
    <3>4. QED
      BY <3>1, <3>2, <3>3
  <2>3. QED
    BY <2>1, <2>2
<1>5. QED
  BY <1>2, <1>3, <1>4 DEF Opens

LEMMA OthersBegin ==
    ASSUME TypeOK, CallsInv, RowsInv, OpenInv, NEW h \in Calls, Frame(h), SummaryEffect(h),
           NEW g \in DOMAIN call, g # h
    PROVE  Begins(g)'
<1>1. Placed(g) /\ Begins(g) /\ g \in Calls
  BY DEF CallsInv, OpenInv
<1>2. pc'[g] = pc[g] /\ (g \in DOMAIN var => var'[g] = var[g])
  BY Still
<1>3. ASSUME pc[g] = "file_save", NEW e \in DOMAIN var[g].copies, NEW s, s = var[g].id[e]
      PROVE  \/ s \in DOMAIN summary' /\ summary'[s].emp = e
             \/ s = <<g, e>> /\ \A t \in DOMAIN summary' : summary'[t].emp = e
                    => {g, t[1]} \in crossed'
  <2>1. CASE s \in DOMAIN summary /\ summary[s].emp = e
    BY <2>1, SummariesStay
  <2>2. CASE s = <<g, e>> /\ \A t \in DOMAIN summary : summary[t].emp = e => {g, t[1]} \in crossed
    <3>1. ASSUME NEW t \in DOMAIN summary', summary'[t].emp = e
          PROVE  {g, t[1]} \in crossed'
      <4>1. CASE t \in DOMAIN summary
        BY <2>2, <3>1, <4>1, SummariesStay DEF Frame
      <4>2. CASE t \notin DOMAIN summary
        <5>1. PICK row : StoresSummary(h, t, row)
          BY <4>2, NewSummary
        <5>2. t[1] = h /\ pc[h] \in InFlight
          BY <4>2, <5>1 DEF StoresSummary
        <5>3. pc[g] \in InFlight
          BY <1>3 DEF InFlight
        <5>4. QED
          BY <1>1, <5>2, <5>3 DEF CallsInv, Frame
      <4>3. QED
        BY <4>1, <4>2
    <3>2. QED
      BY <2>2, <3>1
  <2>3. QED
    BY <1>1, <1>3, <2>1, <2>2 DEF Begins
<1>4. QED
  BY <1>1, <1>2, <1>3 DEF Begins, Placed

-----------------------------------------------------------------------------
(* The call that moves: where it is then. *)
Mine(h) == Placed(h) /\ Brings(h) /\ Holds(h) /\ Opens(h) /\ Begins(h)
Good    == TypeOK /\ CallsInv /\ RowsInv /\ OpenInv

LEMMA StepEffects ==
    ASSUME Good, NEW h \in Calls, Moves(h)
    PROVE  Frame(h) /\ RowEffect(h) /\ SummaryEffect(h)
  BY FrameOfMove, RowEffects, SummaryEffects DEF Good

LEMMA MineNow ==
    ASSUME Good, NEW h \in Calls, pc[h] \in InFlight
    PROVE  h \in DOMAIN call /\ Mine(h)
  BY AtCall DEF Good, Mine

LEMMA Fresh ==
    ASSUME CallsInv, RowsInv, NEW h \in Calls, h \notin DOMAIN call
    PROVE  h \notin DOMAIN attendance /\ ~Deleted(h) /\ h \notin Known
<1>1. \A a : Had(a) => a \in Known \cup DOMAIN call
  BY DEF Had, All
<1>2. \A d \in All({"delete"}) : Had(call[d].id)
  BY DEF RowsInv, Brings, All, Op
<1>3. QED
  BY <1>1, <1>2, WeekAssumption DEF RowsInv, Deleted

(* What a row says of the id it is under. *)
LEMMA RowSays ==
    ASSUME RowsInv, NEW a \in DOMAIN attendance
    PROVE  /\ Had(a) /\ attendance[a] \in Row /\ Whose(a) = <<attendance[a].emp, attendance[a].day>>
           /\ attendance[a].emp \in Employees /\ attendance[a].day \in Days
           /\ attendance[a].entries \subseteq Entry
<1>1. Had(a) /\ Fits(a, attendance[a])
  BY DEF RowsInv
<1>2. QED
  BY <1>1 DEF Fits, Row

LEMMA MineOfPost ==
    ASSUME Good, NEW h \in Calls, Post(h)
    PROVE  Mine(h)'
<1>1. Begun(h, "post", "post_look") /\ call'[h].emp \in Employees /\ call'[h].day \in Days
  BY Posting DEF Good
<1>2. h \notin DOMAIN attendance /\ ~Deleted(h)'
  BY <1>1, Fresh, NewlyDeleted DEF Begun, Good, Moves
<1>3. ~Had(h)'
  BY <1>1, <1>2 DEF Had, Begun
<1>4. QED
  BY <1>1, <1>3 DEF Begun, Mine, Placed, Brings, Holds, Opens, Begins, Op, Clock

LEMMA MineOfClockCall ==
    ASSUME Good, NEW h \in Calls, ClockCall(h)
    PROVE  Mine(h)'
<1>1. PICK op \in Clock : Begun(h, op, "clock_read") /\ call'[h].id \in DOMAIN attendance
  BY Clocking DEF Good
<1>2. PICK a : a = call'[h].id
  OBVIOUS
<1>3. Had(a)'
  BY <1>1, <1>2, RowSays, StepEffects, Kept DEF Good, Moves
<1>4. QED
  BY <1>1, <1>2, <1>3 DEF Begun, Mine, Placed, Brings, Holds, Opens, Begins, Op, Clock

LEMMA MineOfLog ==
    ASSUME Good, NEW h \in Calls, Log(h)
    PROVE  Mine(h)'
<1>1. /\ call'[h].emp \in Employees /\ call'[h].day \in Days
      /\ \/ Begun(h, "log", "log_read") /\ call'[h].id \in DOMAIN attendance
         \/ /\ Begun(h, "log", "log_insert") /\ call'[h].id = h
            /\ OfDay(call'[h].emp, call'[h].day) = {}
  BY Logging DEF Good
<1>2. CASE Begun(h, "log", "log_read") /\ call'[h].id \in DOMAIN attendance
  <2>1. PICK a : a = call'[h].id
    OBVIOUS
  <2>2. Had(a)'
    BY <1>2, <2>1, RowSays, StepEffects, Kept DEF Good, Moves
  <2>3. QED
    BY <1>1, <1>2, <2>1, <2>2 DEF Begun, Mine, Placed, Brings, Holds, Opens, Begins, Op, Clock
<1>3. CASE /\ Begun(h, "log", "log_insert") /\ call'[h].id = h
           /\ OfDay(call'[h].emp, call'[h].day) = {}
  <2>1. h \notin DOMAIN attendance /\ ~Deleted(h)' /\ h \notin Known /\ attendance' = attendance
    BY <1>3, Fresh, NewlyDeleted DEF Begun, Good, Moves
  <2>2. ~Had(h)'
    BY <2>1 DEF Had
  <2>3. Whose(h)' = <<call'[h].emp, call'[h].day>>
    BY <2>1 DEF Whose
  <2>4. ASSUME NEW b \in DOMAIN attendance PROVE Whose(b)' # Whose(h)'
    <3>1. Whose(b)' = Whose(b) /\ Whose(b) = <<attendance[b].emp, attendance[b].day>>
      BY RowSays, StepEffects, Kept DEF Good, Moves
    <3>2. QED
      BY <1>3, <2>3, <3>1 DEF OfDay
  <2>5. QED
    BY <1>1, <1>3, <2>1, <2>2, <2>4 DEF Begun, Mine, Placed, Brings, Holds, Opens, Begins, Op, Clock
<1>4. QED
  BY <1>1, <1>2, <1>3

LEMMA MineOfFile ==
    ASSUME Good, NEW h \in Calls, File(h)
    PROVE  Mine(h)'
<1>1. Begun(h, "file", "file_read")
  BY Filing DEF Good
<1>2. QED
  BY <1>1 DEF Begun, Mine, Placed, Brings, Holds, Opens, Begins, Op, Clock

LEMMA MineOfDecide ==
    ASSUME Good, NEW h \in Calls, Decide(h)
    PROVE  Mine(h)'
<1>1. PICK s, copies :
        /\ Begun(h, "decide", "decide_read") /\ s \in DOMAIN summary
        /\ call'[h].status \in {"approved", "rejected", None}
        /\ call'[h].copies = copies /\ copies = summary[s].copies /\ call'[h].id = s
  BY Deciding DEF Good
<1>2. AllFit(summary[s].emp, copies)
  BY <1>1 DEF Good, RowsInv, Filed
<1>3. PICK e : e = summary[s].emp
  OBVIOUS
<1>4. AllFit(e, copies)'
  BY <1>2, <1>3, StepEffects, Kept DEF Good, Moves
<1>5. AllFit(summary[s].emp, copies)'
  BY <1>1, <1>3, <1>4 DEF Begun, AllFit
<1>6. QED
  BY <1>1, <1>5 DEF Begun, Mine, Placed, Brings, Holds, Opens, Begins, Op, Clock

LEMMA MineOfDeleteCall ==
    ASSUME Good, NEW h \in Calls, DeleteCall(h)
    PROVE  Mine(h)'
<1>1. Begun(h, "delete", "delete_read") /\ call'[h].id \in DOMAIN attendance
  BY Deleting DEF Good
<1>2. PICK a : a = call'[h].id
  OBVIOUS
<1>3. Had(a)'
  BY <1>1, <1>2, RowSays, StepEffects, Kept DEF Good, Moves
<1>4. QED
  BY <1>1, <1>2, <1>3 DEF Begun, Mine, Placed, Brings, Holds, Opens, Begins, Op, Clock

(* What a call brings it still has, when it has gone on. *)
LEMMA BringsOn ==
    ASSUME Good, NEW h \in DOMAIN call, Frame(h), RowEffect(h), SummaryEffect(h), call' = call,
           pc'[h] # "log_insert", pc[h] = "log_insert" => Had(h)' \/ pc'[h] = "failed",
           Op(h) = "post" /\ pc'[h] \in {"clock_read", "clock_save", "done"} => Had(var[h].id)',
           pc[h] # "failed"
    PROVE  Brings(h)'
<1>1. PICK i, k : k = call[h] /\ i = call[h].id
  OBVIOUS
<1>2. Brings(h)
  BY DEF Good, RowsInv
<1>3. Had(i) => Had(i)'
  BY Kept DEF Good
<1>4. Op(h) = "decide" => k.id \in DOMAIN summary' /\ AllFit(summary[k.id].emp, k.copies)'
  <2>1. ASSUME Op(h) = "decide" PROVE i \in DOMAIN summary' /\ AllFit(summary[i].emp, k.copies)'
    <3>1. PICK e : e = summary[i].emp
      OBVIOUS
    <3>2. i \in DOMAIN summary /\ AllFit(e, k.copies)
      BY <1>1, <1>2, <2>1, <3>1 DEF Brings
    <3>3. i \in DOMAIN summary' /\ summary'[i].emp = e /\ AllFit(e, k.copies)'
      BY <3>1, <3>2, Kept, SummariesStay DEF Good
    <3>4. QED
      BY <3>3 DEF AllFit
  <2>2. QED
    BY <1>1, <2>1
<1>5. QED
  BY <1>1, <1>2, <1>3, <1>4 DEF Brings, Op

(* A step of a call that is on its way. *)
LEMMA MineOfPostLook ==
    ASSUME Good, NEW h \in Calls, PostLook(h)
    PROVE  Mine(h)'
<1>1. Frame(h) /\ RowEffect(h) /\ SummaryEffect(h)
  BY StepEffects DEF Moves
<1>2. pc[h] = "post_look" /\ attendance' = attendance /\ call' = call /\ pc \in [Calls -> Steps]
  BY DEF PostLook, Own, Good, TypeOK
<1>3. h \in DOMAIN call /\ Mine(h) /\ Op(h) = "post"
  BY <1>2, MineNow DEF InFlight, Mine, Placed
<1>4. h \notin Known /\ ~Had(h)
  BY <1>2, <1>3, WeekAssumption DEF Mine, Opens
<1>5. CASE /\ OfDay(call[h].emp, call[h].day) = {} /\ Goto(h, "post_look", "post_insert")
           /\ UNCHANGED var
  <2>1. pc'[h] = "post_insert"
    BY <1>2, <1>5 DEF Goto
  <2>2. ~Had(h)'
    BY <1>2, <1>4 DEF Had, Deleted, All, Op
  <2>3. ASSUME NEW b \in DOMAIN attendance PROVE Whose(b)' # Whose(h)'
    <3>1. Whose(b)' = Whose(b) /\ Whose(b) = <<attendance[b].emp, attendance[b].day>>
      BY <1>1, RowSays, Kept DEF Good
    <3>2. Whose(h)' = <<call[h].emp, call[h].day>>
      BY <1>2, <1>4 DEF Whose
    <3>3. QED
      BY <1>5, <3>1, <3>2 DEF OfDay
  <2>4. Brings(h)'
    BY <1>1, <1>2, <1>3, <2>1, BringsOn
  <2>5. QED
    BY <1>2, <1>3, <2>1, <2>2, <2>3, <2>4 DEF Mine, Placed, Holds, Opens, Begins, Op, Clock
<1>6. ASSUME NEW a \in OfDay(call[h].emp, call[h].day), Goto(h, "post_look", "clock_read"),
             Set(h, [id |-> a])
      PROVE  Mine(h)'
  <2>1. pc'[h] = "clock_read" /\ h \in DOMAIN var' /\ var'[h].id = a
    BY <1>2, <1>6 DEF Goto, Set, Save
  <2>2. Had(a)'
    BY <1>1, <1>6, RowSays, Kept DEF OfDay, Good
  <2>3. Had(var[h].id)'
    BY <2>1, <2>2 DEF Had, Deleted
  <2>4. Brings(h)'
    BY <1>1, <1>2, <1>3, <2>1, <2>3, BringsOn
  <2>5. QED
    BY <1>2, <1>3, <2>1, <2>4 DEF Mine, Placed, Holds, Opens, Begins, Op, Clock
<1>7. QED
  BY <1>5, <1>6 DEF PostLook

LEMMA MineOfPostInsert ==
    ASSUME Good, NEW h \in Calls, PostInsert(h)
    PROVE  Mine(h)'
<1>1. Frame(h) /\ RowEffect(h) /\ SummaryEffect(h)
  BY StepEffects DEF Moves
<1>2. /\ pc[h] = "post_insert" /\ pc'[h] = "clock_read" /\ call' = call
      /\ h \in DOMAIN var' /\ var'[h].id = h /\ h \in DOMAIN attendance'
  BY DEF PostInsert, SaveRow, Goto, Set, Save, Good, TypeOK
<1>3. h \in DOMAIN call /\ Mine(h) /\ Op(h) = "post"
  BY <1>2, MineNow DEF InFlight, Mine, Placed
<1>4. Had(h)'
  BY <1>2, <1>3 DEF Had, All, Op
<1>5. Had(var[h].id)'
  BY <1>2, <1>4 DEF Had, Deleted
<1>6. Brings(h)'
  BY <1>1, <1>2, <1>3, <1>5, BringsOn
<1>7. QED
  BY <1>2, <1>3, <1>6 DEF Mine, Placed, Holds, Opens, Begins, Op, Clock

LEMMA ClockedEntries ==
    ASSUME NEW h \in Calls, NEW old \in SUBSET Entry, NEW new \in Clocked(h, old)
    PROVE  new \in SUBSET Entry
<1>1. [by |-> h, ended |-> None] \in Entry
  BY DEF Entry
<1>2. CASE call[h].op # "clockOut"
  BY <1>1, <1>2 DEF Clocked
<1>3. CASE call[h].op = "clockOut"
  <2>1. PICK e \in Running(old) :
          new \in {(old \ {e}) \cup {[e EXCEPT !.ended = h]}, old \ {e}, old}
    BY <1>3 DEF Clocked
  <2>2. [e EXCEPT !.ended = h] \in Entry
    BY <2>1 DEF Running, Entry
  <2>3. QED
    BY <2>1, <2>2
<1>4. QED
  BY <1>2, <1>3

LEMMA WithEntries ==
    ASSUME NEW a, NEW row, Fits(a, row), NEW entries \in SUBSET Entry
    PROVE  Fits(a, [row EXCEPT !.entries = entries])
<1>1. row \in Row
  BY DEF Fits
<1>2. /\ [row EXCEPT !.entries = entries] \in Row
      /\ [row EXCEPT !.entries = entries].emp = row.emp
      /\ [row EXCEPT !.entries = entries].day = row.day
  BY <1>1 DEF Row
<1>3. QED
  BY <1>2 DEF Fits

LEMMA HadRowOf ==
    ASSUME Good, NEW h \in DOMAIN call, Mine(h), pc[h] \in {"clock_read", "clock_save"}
    PROVE  Had(RowOf(h)) /\ h \notin All({"log", "decide", "delete"})
           /\ Op(h) \in Clock \cup {"post"}
<1>1. Op(h) \in Clock \cup {"post"}
  BY DEF Mine, Placed
<1>2. QED
  BY <1>1 DEF Mine, Brings, RowOf, Op, Clock, All

LEMMA MineOfClockRead ==
    ASSUME Good, NEW h \in Calls, ClockRead(h)
    PROVE  Mine(h)'
<1>1. Frame(h) /\ RowEffect(h) /\ SummaryEffect(h)
  BY StepEffects DEF Moves
<1>2. PICK a, old, entries, out, new :
        /\ a = RowOf(h) /\ a \in DOMAIN attendance /\ old = attendance[a]
        /\ entries \in Clocked(h, old.entries) /\ new = [old EXCEPT !.entries = entries]
        /\ Set(h, [id |-> a, row |-> new, out |-> out])
  BY DEF ClockRead
<1>3. /\ pc[h] = "clock_read" /\ pc'[h] = "clock_save" /\ call' = call
      /\ attendance' = attendance
  BY DEF ClockRead, Goto, Own, Good, TypeOK
<1>4. h \in DOMAIN call /\ Mine(h)
  BY <1>3, MineNow DEF InFlight
<1>5. Had(a) /\ Op(h) \in Clock \cup {"post"}
  BY <1>2, <1>3, <1>4, HadRowOf
<1>6. h \in DOMAIN var' /\ var'[h].id = a /\ var'[h].row = new
  BY <1>2 DEF Set, Save
<1>7. Fits(a, old) /\ old.entries \subseteq Entry
  BY <1>2, RowSays DEF Good, Fits
<1>8. entries \in SUBSET Entry
  BY <1>2, <1>7, ClockedEntries
<1>9. Fits(a, new)
  BY <1>2, <1>7, <1>8, WithEntries
<1>10. Fits(a, new)' /\ Had(a)'
  BY <1>1, <1>5, <1>9, Kept DEF Good
<1>11. Had(var[h].id)' /\ Fits(var[h].id, var[h].row)'
  BY <1>6, <1>10 DEF Had, Deleted, Fits, Whose
<1>12. RowOf(h)' = a
  BY <1>2, <1>3, <1>6 DEF RowOf
<1>13. Brings(h)'
  BY <1>1, <1>3, <1>4, <1>11, BringsOn
<1>14. QED
  BY <1>3, <1>4, <1>5, <1>6, <1>11, <1>12, <1>13 DEF Mine, Placed, Holds, Opens, Begins, Op, Clock

LEMMA MineOfClockSave ==
    ASSUME Good, NEW h \in Calls, ClockSave(h)
    PROVE  Mine(h)'
<1>1. Frame(h) /\ RowEffect(h) /\ SummaryEffect(h)
  BY StepEffects DEF Moves
<1>2. PICK a : a = var[h].id
  OBVIOUS
<1>3. /\ pc[h] = "clock_save" /\ pc'[h] = "done" /\ call' = call
      /\ h \in DOMAIN var' /\ var'[h].id = a
  BY <1>2 DEF ClockSave, SaveRow, Goto, Set, Save, Good, TypeOK
<1>4. h \in DOMAIN call /\ Mine(h)
  BY <1>3, MineNow DEF InFlight
<1>5. Had(a)
  BY <1>2, <1>3, <1>4, HadRowOf DEF Mine, Holds
<1>6. Had(a)'
  BY <1>1, <1>5, Kept DEF Good
<1>7. Had(var[h].id)'
  BY <1>3, <1>6 DEF Had, Deleted
<1>8. Brings(h)'
  BY <1>1, <1>3, <1>4, <1>7, BringsOn
<1>9. QED
  BY <1>3, <1>4, <1>8 DEF Mine, Placed, Holds, Opens, Begins, Op, Clock

LEMMA MineOfLogRead ==
    ASSUME Good, NEW h \in Calls, LogRead(h)
    PROVE  Mine(h)'
<1>1. Frame(h) /\ RowEffect(h) /\ SummaryEffect(h)
  BY StepEffects DEF Moves
<1>2. PICK a, old, entries, new :
        /\ a = call[h].id /\ a \in DOMAIN attendance /\ old = attendance[a]
        /\ entries = old.entries \cup {Logged(h)} /\ new = [old EXCEPT !.entries = entries]
        /\ Set(h, [id |-> a, row |-> new])
  BY DEF LogRead
<1>3. /\ pc[h] = "log_read" /\ pc'[h] = "log_save" /\ call' = call
      /\ attendance' = attendance
  BY DEF LogRead, Goto, Own, Good, TypeOK
<1>4. h \in DOMAIN call /\ Mine(h) /\ Op(h) = "log"
  BY <1>3, MineNow DEF InFlight, Mine, Placed
<1>5. h \in DOMAIN var' /\ var'[h].id = a /\ var'[h].row = new
  BY <1>2 DEF Set, Save
<1>6. Fits(a, old) /\ old.entries \subseteq Entry /\ Had(a)
  BY <1>2, RowSays DEF Good, Fits
<1>7. entries \in SUBSET Entry
  BY <1>2, <1>6 DEF Logged, Entry
<1>8. Fits(a, new)
  BY <1>2, <1>6, <1>7, WithEntries
<1>9. Fits(a, new)'
  BY <1>1, <1>6, <1>8, Kept DEF Good
<1>10. Fits(var[h].id, var[h].row)'
  BY <1>5, <1>9 DEF Fits, Whose
<1>11. RowOf(h)' = a
  BY <1>2, <1>3, <1>4 DEF RowOf, Op
<1>12. Brings(h)'
  BY <1>1, <1>3, <1>4, BringsOn
<1>13. QED
  BY <1>3, <1>4, <1>5, <1>10, <1>11, <1>12 DEF Mine, Placed, Holds, Opens, Begins, Op, Clock

LEMMA MineOfLogEnd ==
    ASSUME Good, NEW h \in Calls, LogSave(h) \/ LogInsert(h)
    PROVE  Mine(h)'
<1>1. Frame(h) /\ RowEffect(h) /\ SummaryEffect(h)
  BY StepEffects DEF Moves
<1>2. /\ pc[h] \in {"log_save", "log_insert"} /\ pc'[h] = "done" /\ call' = call
      /\ pc[h] = "log_insert" => h \in DOMAIN attendance'
  BY DEF LogSave, LogInsert, SaveRow, Goto, Save, Good, TypeOK
<1>3. h \in DOMAIN call /\ Mine(h) /\ Op(h) = "log"
  BY <1>2, MineNow DEF InFlight, Mine, Placed
<1>4. pc[h] = "log_insert" => Had(h)'
  BY <1>2, <1>3 DEF Had, All, Op
<1>5. Brings(h)'
  BY <1>1, <1>2, <1>3, <1>4, BringsOn
<1>6. QED
  BY <1>2, <1>3, <1>5 DEF Mine, Placed, Holds, Opens, Begins, Op, Clock

LEMMA MineOfFileRead ==
    ASSUME Good, NEW h \in Calls, FileRead(h)
    PROVE  Mine(h)'
<1>1. Frame(h) /\ RowEffect(h) /\ SummaryEffect(h)
  BY StepEffects DEF Moves
<1>2. /\ pc[h] = "file_read" /\ pc'[h] = "file_find" /\ call' = call /\ h \in DOMAIN missed'
      /\ h \in DOMAIN var' /\ var'[h].copies = [e \in Employees |-> Copies(e)]
  BY DEF FileRead, Goto, Set, Save, Good, TypeOK
<1>3. h \in DOMAIN call /\ Mine(h) /\ Op(h) = "file"
  BY <1>2, MineNow DEF InFlight, Mine, Placed
<1>4. ASSUME NEW e \in Employees PROVE AllFit(e, Copies(e))
  <2>1. ASSUME NEW a \in DOMAIN Copies(e)
        PROVE  /\ Had(a) /\ Whose(a) = <<e, Copies(e)[a].day>>
               /\ Copies(e)[a].entries \subseteq Entry
    <3>1. a \in DOMAIN attendance /\ attendance[a].emp = e /\ Copies(e)[a] = Copied(attendance[a])
      BY <2>1 DEF Copies
    <3>2. /\ Copied(attendance[a]).day = attendance[a].day
          /\ Copied(attendance[a]).entries \subseteq attendance[a].entries
      BY DEF Copied
    <3>3. QED
      BY <3>1, <3>2, RowSays DEF Good
  <2>2. QED
    BY <2>1 DEF AllFit
<1>5. PICK copies : copies = [e \in Employees |-> Copies(e)]
  OBVIOUS
<1>6. \A e \in DOMAIN copies : e \in Employees /\ AllFit(e, copies[e])
  BY <1>4, <1>5
<1>7. \A e \in DOMAIN copies : e \in Employees /\ AllFit(e, copies[e])'
  BY <1>1, <1>6, Kept DEF Good
<1>8. Brings(h)'
  BY <1>1, <1>2, <1>3, BringsOn
<1>9. Holds(h)'
  BY <1>2, <1>5, <1>7 DEF Holds, AllFit
<1>10. QED
  BY <1>2, <1>3, <1>8, <1>9 DEF Mine, Placed, Opens, Begins, Op, Clock

LEMMA MineOfFileFind ==
    ASSUME Good, NEW h \in Calls, FileFind(h)
    PROVE  Mine(h)'
<1>1. Frame(h) /\ RowEffect(h) /\ SummaryEffect(h)
  BY StepEffects DEF Moves
<1>2. PICK id, copies :
        /\ \A e \in Employees : id[e] \in IF Found(e) = {} THEN {<<h, e>>} ELSE Found(e)
        /\ copies = var[h].copies /\ Set(h, [id |-> id, copies |-> copies])
  BY DEF FileFind
<1>3. /\ pc[h] = "file_find" /\ pc'[h] = "file_save" /\ call' = call /\ summary' = summary
      /\ missed' = missed /\ h \in DOMAIN var' /\ var'[h].id = id /\ var'[h].copies = copies
  BY <1>2 DEF FileFind, Goto, Set, Own, Save, Good, TypeOK
<1>4. h \in DOMAIN call /\ Mine(h) /\ Op(h) = "file"
  BY <1>3, MineNow DEF InFlight, Mine, Placed
<1>5. h \in DOMAIN missed /\ \A e \in DOMAIN copies : e \in Employees /\ AllFit(e, copies[e])
  BY <1>2, <1>3, <1>4 DEF Mine, Holds
<1>6. \A e \in DOMAIN copies : e \in Employees /\ AllFit(e, copies[e])'
  BY <1>1, <1>5, Kept DEF Good
<1>7. Holds(h)'
  BY <1>3, <1>5, <1>6 DEF Holds, AllFit
<1>8. ASSUME NEW e \in DOMAIN copies
      PROVE  \/ id[e] \in DOMAIN summary /\ summary[id[e]].emp = e
             \/ id[e] = <<h, e>> /\ \A t \in DOMAIN summary : summary[t].emp # e
  <2>1. id[e] \in IF Found(e) = {} THEN {<<h, e>>} ELSE Found(e)
    BY <1>2, <1>5
  <2>2. QED
    BY <2>1 DEF Found
<1>9. Begins(h)'
  BY <1>3, <1>8 DEF Begins
<1>10. Brings(h)'
  BY <1>1, <1>3, <1>4, BringsOn
<1>11. QED
  BY <1>3, <1>4, <1>7, <1>9, <1>10 DEF Mine, Placed, Opens, Op, Clock

LEMMA MineOfFileSave ==
    ASSUME Good, NEW h \in Calls, FileSave(h)
    PROVE  Mine(h)'
<1>1. Frame(h) /\ RowEffect(h) /\ SummaryEffect(h)
  BY StepEffects DEF Moves
<1>2. PICK id, copies, e, r, left :
        /\ e \in DOMAIN copies /\ id = var[h].id /\ copies = var[h].copies
               /\ left = Delete(copies, e)
        /\ r = [emp |-> e, status |-> "pending", copies |-> copies[e]]
        /\ summary' = Save(summary, id[e], r)
        /\ Set(h, [id |-> id, copies |-> left])
        /\ Goto(h, "file_save", IF DOMAIN copies = {e} THEN "done" ELSE "file_save")
        /\ call' = call /\ crossed' = crossed /\ missed' = missed
  BY DEF FileSave
<1>3. /\ pc[h] = "file_save" /\ pc'[h] \in {"file_save", "done"}
      /\ h \in DOMAIN var' /\ var'[h].id = id /\ var'[h].copies = left
  BY <1>2 DEF Goto, Set, Save, Good, TypeOK
<1>4. h \in DOMAIN call /\ Mine(h) /\ Op(h) = "file"
  BY <1>3, MineNow DEF InFlight, Mine, Placed
<1>5. DOMAIN left = DOMAIN copies \ {e} /\ \A x \in DOMAIN left : left[x] = copies[x]
  BY <1>2 DEF Delete
<1>6. h \in DOMAIN missed /\ \A x \in DOMAIN left : x \in Employees /\ AllFit(x, left[x])
  BY <1>2, <1>3, <1>4, <1>5 DEF Mine, Holds
<1>7. \A x \in DOMAIN left : x \in Employees /\ AllFit(x, left[x])'
  BY <1>1, <1>6, Kept DEF Good
<1>8. Holds(h)'
  BY <1>2, <1>3, <1>6, <1>7 DEF Holds, AllFit
<1>9. ASSUME NEW x \in DOMAIN left
      PROVE  \/ id[x] \in DOMAIN summary' /\ summary'[id[x]].emp = x
             \/ id[x] = <<h, x>> /\ \A t \in DOMAIN summary' : summary'[t].emp = x
                    => {h, t[1]} \in crossed'
  <2>1. x # e /\ x \in DOMAIN copies
    BY <1>5
  <2>2. \/ id[x] \in DOMAIN summary /\ summary[id[x]].emp = x
        \/ id[x] = <<h, x>> /\ \A t \in DOMAIN summary : summary[t].emp = x => {h, t[1]} \in crossed
    BY <1>2, <1>3, <1>4, <2>1 DEF Mine, Begins
  <2>3. \A t \in DOMAIN summary : t \in DOMAIN summary' /\ summary'[t].emp = summary[t].emp
    BY <1>1, SummariesStay DEF Good
  <2>4. \A t \in DOMAIN summary' : t \in DOMAIN summary \/ summary'[t].emp = e
    BY <1>2 DEF Save
  <2>5. QED
    BY <1>2, <2>1, <2>2, <2>3, <2>4
<1>10. Begins(h)'
  BY <1>3, <1>9 DEF Begins
<1>11. Brings(h)'
  BY <1>1, <1>2, <1>3, <1>4, BringsOn
<1>12. QED
  BY <1>2, <1>3, <1>4, <1>8, <1>10, <1>11 DEF Mine, Placed, Opens, Op, Clock

(* What a decision has in hand. *)
LEMMA DecisionFacts ==
    ASSUME Good, NEW h \in DOMAIN call, Mine(h), Op(h) = "decide"
    PROVE  /\ call[h].id \in DOMAIN summary /\ summary[call[h].id].emp \in Employees
           /\ summary[call[h].id].status \in Statuses
           /\ call[h].status \in {"approved", "rejected", None}
           /\ \A a \in DOMAIN call[h].copies :
                /\ Had(a) /\ Whose(a) = <<summary[call[h].id].emp, call[h].copies[a].day>>
                /\ call[h].copies[a].entries \subseteq Entry
<1>1. /\ call[h].id \in DOMAIN summary /\ call[h].status \in {"approved", "rejected", None}
      /\ AllFit(summary[call[h].id].emp, call[h].copies)
  BY DEF Mine, Brings
<1>2. Filed(call[h].id)
  BY <1>1 DEF Good, RowsInv
<1>3. QED
  BY <1>1, <1>2 DEF AllFit, Filed

LEMMA MineOfDecideRead ==
    ASSUME Good, NEW h \in Calls, DecideRead(h)
    PROVE  Mine(h)'
<1>1. Frame(h) /\ RowEffect(h) /\ SummaryEffect(h)
  BY StepEffects DEF Moves
<1>2. PICK k, read, sum, st :
        /\ k = call[h] /\ read = summary[k.id]
        /\ st = IF k.status = None THEN read.status ELSE k.status
        /\ sum = [emp |-> read.emp, copies |-> k.copies, status |-> st]
        /\ Set(h, [sum |-> sum, todo |-> DOMAIN k.copies])
  BY DEF DecideRead
<1>3. /\ pc[h] = "decide_read" /\ pc'[h] \in {"decide_store", "decide_row"} /\ call' = call
      /\ summary' = summary
      /\ h \in DOMAIN var' /\ var'[h].sum = sum /\ var'[h].todo = DOMAIN k.copies
  BY <1>2 DEF DecideRead, Goto, Set, Own, Save, Good, TypeOK
<1>4. h \in DOMAIN call /\ Mine(h) /\ Op(h) = "decide"
  BY <1>3, MineNow DEF InFlight, Mine, Placed
<1>5. read.status \in Statuses /\ k.status \in {"approved", "rejected", None}
  BY <1>2, <1>4, DecisionFacts
<1>6. Brings(h)'
  BY <1>1, <1>3, <1>4, BringsOn
<1>7. QED
  BY <1>2, <1>3, <1>4, <1>5, <1>6 DEF Mine, Placed, Holds, Opens, Begins, Op, Clock, Statuses

LEMMA DecidedRow ==
    ASSUME NEW h, NEW a, NEW row, Fits(a, row), call[h].copies[a].entries \subseteq Entry
    PROVE  /\ Fits(a, Decided(h, row, a))
           /\ Decided(h, row, a).entries = call[h].copies[a].entries
           /\ call[h].status # None => Decided(h, row, a).approved = (call[h].status = "approved")
<1>1. row \in Row
  BY DEF Fits
<1>2. PICK entries, flag :
        /\ entries = call[h].copies[a].entries
        /\ flag = IF call[h].status = None THEN row.approved ELSE call[h].status = "approved"
  OBVIOUS
<1>3. flag \in BOOLEAN /\ entries \in SUBSET Entry
  BY <1>1, <1>2 DEF Row
<1>4. Decided(h, row, a) = [row EXCEPT !.entries = entries, !.approved = flag]
  BY <1>2 DEF Decided
<1>5. /\ Decided(h, row, a) \in Row /\ Decided(h, row, a).emp = row.emp
      /\ Decided(h, row, a).day = row.day /\ Decided(h, row, a).entries = entries
      /\ Decided(h, row, a).approved = flag
  BY <1>1, <1>3, <1>4 DEF Row
<1>6. QED
  BY <1>2, <1>5 DEF Fits

LEMMA MineOfDecideRow ==
    ASSUME Good, NEW h \in Calls, DecideRow(h)
    PROVE  Mine(h)'
<1>1. Frame(h) /\ RowEffect(h) /\ SummaryEffect(h)
  BY StepEffects DEF Moves
<1>2. PICK a, row, new, sum, todo :
        /\ a \in var[h].todo
        /\ row = IF a \in DOMAIN attendance THEN attendance[a]
                 ELSE Opened([emp |-> var[h].sum.emp, day |-> call[h].copies[a].day], {})
        /\ new = Decided(h, row, a) /\ sum = var[h].sum /\ todo = var[h].todo \ {a}
        /\ Goto(h, "decide_row", IF a \in DOMAIN attendance THEN "decide_save" ELSE "decide_make")
        /\ Set(h, [sum |-> sum, todo |-> todo, id |-> a, row |-> new])
  BY DEF DecideRow
<1>3. /\ pc[h] = "decide_row" /\ pc'[h] \in {"decide_save", "decide_make"} /\ call' = call
      /\ summary' = summary /\ attendance' = attendance
      /\ h \in DOMAIN var' /\ var'[h].sum = sum /\ var'[h].todo = todo
      /\ var'[h].id = a /\ var'[h].row = new
  BY <1>2 DEF DecideRow, Goto, Set, Own, Save, Good, TypeOK
<1>4. h \in DOMAIN call /\ Mine(h) /\ Op(h) = "decide"
  BY <1>3, MineNow DEF InFlight, Mine, Placed
<1>5. /\ var[h].todo \subseteq DOMAIN call[h].copies
      /\ sum.emp = summary[call[h].id].emp /\ sum.status \in Statuses
      /\ sum.copies = call[h].copies
      /\ call[h].status # None => sum.status = call[h].status
  BY <1>2, <1>3, <1>4 DEF Mine, Holds
<1>6. /\ Had(a) /\ Whose(a) = <<sum.emp, call[h].copies[a].day>>
      /\ call[h].copies[a].entries \subseteq Entry /\ sum.emp \in Employees
  BY <1>2, <1>4, <1>5, DecisionFacts
<1>7. Fits(a, row)
  <2>1. CASE a \in DOMAIN attendance
    BY <1>2, <2>1, RowSays DEF Fits, Good
  <2>2. CASE a \notin DOMAIN attendance
    <3>1. row = [emp |-> sum.emp, day |-> call[h].copies[a].day, approved |-> FALSE, entries |-> {}]
      BY <1>2, <2>2 DEF Opened
    <3>2. call[h].copies[a].day \in Days
      <4>1. Whose(a)[2] \in Days
        BY <1>6, WeekAssumption DEF Whose, Had, All, Op, Good, RowsInv, Brings
      <4>2. QED
        BY <1>6, <4>1
    <3>3. QED
      BY <1>6, <3>1, <3>2 DEF Fits, Row
  <2>3. QED
    BY <2>1, <2>2
<1>8. /\ Fits(a, new) /\ new.entries = call[h].copies[a].entries
      /\ call[h].status # None => new.approved = (call[h].status = "approved")
  BY <1>2, <1>6, <1>7, DecidedRow
<1>9. Fits(a, new)'
  BY <1>1, <1>6, <1>8, Kept DEF Good
<1>10. Brings(h)'
  BY <1>1, <1>3, <1>4, BringsOn
<1>11. Holds(h)'
  BY <1>2, <1>3, <1>5, <1>8, <1>9 DEF Holds, Fits, Whose
<1>12. QED
  BY <1>3, <1>4, <1>10, <1>11 DEF Mine, Placed, Opens, Begins, Op, Clock

LEMMA MineOfDecideWrite ==
    ASSUME Good, NEW h \in Calls, DecideMake(h) \/ DecideSave(h)
    PROVE  Mine(h)'
<1>1. Frame(h) /\ RowEffect(h) /\ SummaryEffect(h)
  BY StepEffects DEF Moves
<1>2. /\ pc[h] \in {"decide_make", "decide_save"} /\ call' = call /\ summary' = summary
             /\ var' = var
      /\ \/ pc'[h] = "decide_save"
         \/ pc'[h] \in {"decide_store", "decide_row"}
  BY DEF DecideMake, DecideSave, SaveRow, Goto, Good, TypeOK
<1>3. h \in DOMAIN call /\ Mine(h) /\ Op(h) = "decide" /\ h \in DOMAIN var
  BY <1>2, MineNow DEF InFlight, Mine, Placed
<1>4. PICK a, row : a = var[h].id /\ row = var[h].row
  OBVIOUS
<1>5. a \in DOMAIN call[h].copies /\ Fits(a, row) /\ Had(a)
  BY <1>2, <1>3, <1>4, DecisionFacts DEF Mine, Holds
<1>6. Fits(a, row)'
  BY <1>1, <1>5, Kept DEF Good
<1>7. Fits(var[h].id, var[h].row)'
  BY <1>2, <1>4, <1>6 DEF Fits, Whose
<1>8. Brings(h)'
  BY <1>1, <1>2, <1>3, BringsOn
<1>9. Holds(h)'
  BY <1>2, <1>3, <1>7 DEF Mine, Holds
<1>10. QED
  BY <1>2, <1>3, <1>8, <1>9 DEF Mine, Placed, Opens, Begins, Op, Clock

LEMMA MineOfEnd ==
    ASSUME Good, NEW h \in Calls,
           DecideStore(h) \/ DeleteRead(h) \/ DeleteAct(h) \/ Abort(h)
    PROVE  Mine(h)'
<1>1. Frame(h) /\ RowEffect(h) /\ SummaryEffect(h)
  BY StepEffects DEF Moves
<1>2. CASE DecideStore(h)
  <2>1. pc[h] = "decide_store" /\ pc'[h] = "done" /\ call' = call
    BY <1>2 DEF DecideStore, Goto, Good, TypeOK
  <2>2. h \in DOMAIN call /\ Mine(h) /\ Op(h) = "decide"
    BY <2>1, MineNow DEF InFlight, Mine, Placed
  <2>3. Brings(h)'
    BY <1>1, <2>1, <2>2, BringsOn
  <2>4. QED
    BY <2>1, <2>2, <2>3 DEF Mine, Placed, Holds, Opens, Begins, Op, Clock
<1>3. CASE DeleteRead(h) \/ DeleteAct(h)
  <2>1. /\ pc[h] \in {"delete_read", "delete_act"} /\ call' = call
        /\ \/ pc'[h] = "delete_act" /\ h \in DOMAIN var'
           \/ pc'[h] = "done"
    BY <1>3 DEF DeleteRead, DeleteAct, Goto, Set, Save, Own, Good, TypeOK
  <2>2. h \in DOMAIN call /\ Mine(h) /\ Op(h) = "delete"
    BY <2>1, MineNow DEF InFlight, Mine, Placed
  <2>3. Brings(h)'
    BY <1>1, <2>1, <2>2, BringsOn
  <2>4. QED
    BY <2>1, <2>2, <2>3 DEF Mine, Placed, Holds, Opens, Begins, Op, Clock
<1>4. CASE Abort(h)
  <2>1. pc[h] \in InFlight /\ pc'[h] = "failed" /\ call' = call
    BY <1>4 DEF Abort, Own, Good, TypeOK
  <2>2. h \in DOMAIN call /\ Mine(h)
    BY <2>1, MineNow
  <2>3. Brings(h)'
    BY <1>1, <2>1, <2>2, BringsOn DEF InFlight
  <2>4. QED
    BY <2>1, <2>2, <2>3 DEF Mine, Placed, Holds, Opens, Begins, Op, Clock
<1>5. QED
  BY <1>2, <1>3, <1>4

LEMMA MineNext ==
    ASSUME Good, NEW h \in Calls, Moves(h)
    PROVE  Mine(h)'
  BY MineOfPost, MineOfClockCall, MineOfLog, MineOfFile, MineOfDecide, MineOfDeleteCall,
     MineOfPostLook, MineOfPostInsert, MineOfClockRead, MineOfClockSave, MineOfLogRead,
         MineOfLogEnd,
     MineOfFileRead, MineOfFileFind, MineOfFileSave, MineOfDecideRead, MineOfDecideRow,
     MineOfDecideWrite, MineOfEnd DEF Moves

LEMMA OthersNext ==
    ASSUME Good, NEW h \in Calls, Moves(h), NEW g \in DOMAIN call, g # h
    PROVE  Mine(g)'
<1>1. Frame(h) /\ RowEffect(h) /\ SummaryEffect(h)
  BY StepEffects
<1>2. QED
  BY <1>1, OthersPlaced, OthersBring, OthersHold, OthersOpen, OthersBegin DEF Good, Mine

(* A step is the beginning of a call, or one of a call on its way. *)
GoesOn(h) ==
    /\ pc[h] \in InFlight /\ pc'[h] # "file_read" /\ call' = call /\ crossed' = crossed
    /\ missed' = missed \/ FileRead(h)

LEMMA BeginsOrGoesOn ==
    ASSUME TypeOK, CallsInv, NEW h \in Calls, Moves(h)
    PROVE  (\E op, to : Begun(h, op, to)) \/ GoesOn(h)
<1>1. CASE Post(h) \/ ClockCall(h) \/ Log(h) \/ File(h) \/ Decide(h) \/ DeleteCall(h)
  BY <1>1, Posting, Clocking, Logging, Filing, Deciding, Deleting
<1>2. CASE FileRead(h)
  <2>1. pc[h] \in InFlight /\ pc'[h] # "file_read" /\ call' = call /\ crossed' = crossed
    BY <1>2 DEF FileRead, Goto, TypeOK, InFlight
  <2>2. QED
    BY <1>2, <2>1 DEF GoesOn
<1>3. ASSUME NEW to \in Steps \ {"file_read"}, pc' = [pc EXCEPT ![h] = to], pc[h] \in InFlight,
             call' = call, crossed' = crossed, missed' = missed
      PROVE  GoesOn(h)
  BY <1>3 DEF GoesOn, TypeOK
<1>4. CASE PostLook(h) \/ PostInsert(h) \/ ClockRead(h) \/ ClockSave(h) \/ LogRead(h) \/ LogSave(h)
           \/ LogInsert(h)
  <2>1. PICK to \in Steps \ {"file_read"} :
          /\ pc' = [pc EXCEPT ![h] = to] /\ pc[h] \in InFlight
          /\ call' = call /\ crossed' = crossed /\ missed' = missed
    BY <1>4 DEF PostLook, PostInsert, ClockRead, ClockSave, LogRead, LogSave, LogInsert, Own,
                SaveRow, Goto, InFlight, Steps
  <2>2. QED
    BY <1>3, <2>1
<1>5. CASE FileFind(h) \/ FileSave(h) \/ DecideRead(h) \/ DecideRow(h)
  <2>1. PICK to \in Steps \ {"file_read"} :
          /\ pc' = [pc EXCEPT ![h] = to] /\ pc[h] \in InFlight
          /\ call' = call /\ crossed' = crossed /\ missed' = missed
    <3>1. CASE FileFind(h)
      BY <3>1 DEF FileFind, Own, Goto, InFlight, Steps
    <3>2. CASE FileSave(h)
      <4>1. PICK to : pc' = [pc EXCEPT ![h] = to] /\ to \in {"done", "file_save"}
        BY <3>2 DEF FileSave, Goto
      <4>2. pc[h] = "file_save" /\ call' = call /\ crossed' = crossed /\ missed' = missed
        BY <3>2 DEF FileSave
      <4>3. QED
        BY <4>1, <4>2 DEF InFlight, Steps
    <3>3. CASE DecideRead(h) \/ DecideRow(h)
      BY <3>3 DEF DecideRead, DecideRow, Own, Goto, InFlight, Steps
    <3>4. QED
      BY <1>5, <3>1, <3>2, <3>3
  <2>2. QED
    BY <1>3, <2>1
<1>6. CASE DecideMake(h) \/ DecideSave(h) \/ DecideStore(h) \/ DeleteRead(h) \/ DeleteAct(h)
           \/ Abort(h)
  <2>1. PICK to \in Steps \ {"file_read"} :
          /\ pc' = [pc EXCEPT ![h] = to] /\ pc[h] \in InFlight
          /\ call' = call /\ crossed' = crossed /\ missed' = missed
    BY <1>6 DEF DecideMake, DecideSave, DecideStore, DeleteRead, DeleteAct, Abort, Own, SaveRow,
                Goto, InFlight, Steps
  <2>2. QED
    BY <1>3, <2>1
<1>7. QED
  BY <1>1, <1>2, <1>4, <1>5, <1>6 DEF Moves

LEMMA TooEarlyCalls ==
    ASSUME TypeOK, RowsInv
    PROVE  TooEarly \subseteq Calls /\ Rest \subseteq TooEarly
<1>1. ASSUME NEW a \in DOMAIN attendance, NEW e \in attendance[a].entries PROVE e.by \in Calls
  BY <1>1, RowSays DEF Entry
<1>2. QED
  BY <1>1 DEF TooEarly, Rest, Running

LEMMA CallsNext ==
    ASSUME Good, NEW h \in Calls, Moves(h)
    PROVE  CallsInv'
<1>1. Frame(h) /\ TypeOK /\ CallsInv
  BY StepEffects DEF Good
<1>2. (\E op, to : Begun(h, op, to)) \/ GoesOn(h)
  BY BeginsOrGoesOn DEF Good
<1>3. DOMAIN call' = {g \in Calls : pc'[g] # "idle"} /\ DOMAIN var' \subseteq DOMAIN call'
  BY <1>1 DEF Frame, CallsInv
<1>4. ASSUME NEW g \in Calls, NEW x \in Calls, g # x, pc'[g] \in InFlight, pc'[x] \in InFlight
      PROVE  {g, x} \in crossed'
  <2>1. CASE \E op, to : Begun(h, op, to)
    <3>1. {g, x} = {x, g}
      OBVIOUS
    <3>2. QED
      BY <1>1, <1>4, <2>1, <3>1 DEF Frame, Begun, CallsInv
  <2>2. CASE GoesOn(h)
    BY <1>1, <1>4, <2>2 DEF Frame, GoesOn, CallsInv
  <2>3. QED
    BY <1>2, <2>1, <2>2
<1>5. ASSUME NEW g \in DOMAIN call' PROVE Rest' \subseteq call'[g].rest /\ Placed(g)'
  <2>1. Rest' \subseteq Rest
    BY <1>1 DEF Frame, Rest
  <2>2. CASE g \in DOMAIN call
    BY <1>1, <2>1, <2>2, MineNext, OthersNext DEF Frame, CallsInv, Mine
  <2>3. CASE g \notin DOMAIN call
    BY <1>1, <1>2, <2>1, <2>3, MineNext DEF Frame, Mine, Begun, GoesOn
  <2>4. QED
    BY <2>2, <2>3
<1>6. ASSUME NEW f \in DOMAIN missed'
      PROVE  f \in DOMAIN call' /\ Op(f)' = "file" /\ pc'[f] # "file_read"
                 /\ Rest' \subseteq missed'[f]
  <2>1. Rest' \subseteq Rest
    BY <1>1 DEF Frame, Rest
  <2>2. CASE f \in DOMAIN missed
    <3>1. f \in DOMAIN call /\ Op(f) = "file" /\ pc[f] # "file_read" /\ Rest \subseteq missed[f]
      BY <1>1, <2>2 DEF CallsInv
    <3>2. f = h => pc'[f] # "file_read"
      BY <1>2, <3>1 DEF Begun, GoesOn
    <3>3. QED
      BY <1>1, <2>1, <2>2, <3>1, <3>2 DEF Frame, Op, CallsInv
  <2>3. CASE f \notin DOMAIN missed
    <3>1. FileRead(h) /\ call' = call
      BY <1>2, <2>3 DEF Begun, GoesOn
    <3>2. f = h /\ missed'[f] = TooEarly /\ pc[h] = "file_read" /\ pc'[h] = "file_find"
      BY <1>1, <2>3, <3>1 DEF FileRead, Save, Goto, TypeOK
    <3>3. h \in DOMAIN call /\ Op(h) = "file"
      BY <3>2, MineNow DEF InFlight, Mine, Placed
    <3>4. QED
      BY <2>1, <3>1, <3>2, <3>3, TooEarlyCalls DEF Op, Good
  <2>4. QED
    BY <2>2, <2>3
<1>7. QED
  BY <1>3, <1>4, <1>5, <1>6 DEF CallsInv

LEMMA RowsNext ==
    ASSUME Good, NEW h \in Calls, Moves(h)
    PROVE  RowsInv'
<1>1. Frame(h) /\ RowEffect(h) /\ SummaryEffect(h)
  BY StepEffects
<1>2. ASSUME NEW g \in DOMAIN call' PROVE Brings(g)' /\ Holds(g)'
  BY <1>1, MineNext, OthersNext DEF Mine, Frame
<1>3. QED
  BY <1>1, <1>2, RowsKept, FiledKept DEF RowsInv, Good

LEMMA OpenNext ==
    ASSUME Good, NEW h \in Calls, Moves(h)
    PROVE  OpenInv'
<1>1. Frame(h)
  BY StepEffects
<1>2. QED
  BY <1>1, MineNext, OthersNext DEF Mine, Frame, OpenInv

LEMMA ApartNext ==
    ASSUME Good, Apart, NEW h \in Calls, Moves(h)
    PROVE  Apart'
  BY StepEffects, RowsStayApart, SummariesStayApart DEF Apart, Good

LEMMA TypeNext ==
    ASSUME Good, NEW h \in Calls, Moves(h)
    PROVE  TypeOK'
<1>1. Frame(h) /\ RowEffect(h) /\ SummaryEffect(h) /\ TypeOK
  BY StepEffects DEF Good
<1>2. CallsInv' /\ RowsInv'
  BY CallsNext, RowsNext
<1>3. DOMAIN call' \subseteq Calls /\ DOMAIN var' \subseteq Calls
  BY <1>2 DEF CallsInv
<1>4. \A a : Had(a)' => a \in RowIds
  BY <1>3 DEF Had, RowIds, All
<1>5. IsTable(attendance, RowIds, Row)'
  <2>1. \A a \in DOMAIN attendance' : a \in RowIds /\ attendance'[a] \in Row
    BY <1>2, <1>4 DEF RowsInv, Fits
  <2>2. attendance' = [a \in DOMAIN attendance' |-> attendance'[a]]
    <3>1. attendance = [a \in DOMAIN attendance |-> attendance[a]]
      BY <1>1 DEF TypeOK, IsTable
    <3>2. CASE attendance' = attendance
      BY <3>1, <3>2
    <3>3. CASE \E a, row : attendance' = Save(attendance, a, row)
      BY <3>3 DEF Save
    <3>4. CASE \E a : attendance' = Delete(attendance, a)
      BY <3>4 DEF Delete
    <3>5. QED
      BY <1>1, <3>2, <3>3, <3>4 DEF RowEffect, OpensRow, StoresRow, DeletesRow
  <2>3. QED
    BY <2>1, <2>2 DEF IsTable
<1>6. ASSUME NEW s \in DOMAIN summary'
      PROVE  /\ summary'[s].emp \in Employees /\ summary'[s].status \in Statuses
             /\ DOMAIN summary'[s].copies \subseteq RowIds
             /\ UNION {summary'[s].copies[a].entries : a \in DOMAIN summary'[s].copies}
                  \subseteq Entry
  BY <1>2, <1>4 DEF RowsInv, Filed, AllFit
<1>7. (\E op, to : Begun(h, op, to)) \/ GoesOn(h)
  BY BeginsOrGoesOn DEF Good
<1>8. crossed' \subseteq {{g, x} : g, x \in Calls}
  <2>1. CASE Post(h) \/ ClockCall(h) \/ Log(h) \/ File(h) \/ Decide(h) \/ DeleteCall(h)
    <3>1. crossed' = crossed \cup {{h, x} : x \in {y \in Calls : pc[y] \in InFlight}}
      BY <2>1 DEF Post, ClockCall, Log, File, Decide, DeleteCall, Begin
    <3>2. QED
      BY <1>1, <3>1 DEF TypeOK
  <2>2. CASE GoesOn(h)
    BY <1>1, <2>2 DEF GoesOn, TypeOK
  <2>3. QED
    BY <1>7, <2>1, <2>2, CallUnchanged DEF Begun, Frame
<1>9. IsTable(missed, Calls, SUBSET Calls)'
  <2>1. CASE missed' = missed
    BY <1>1, <2>1 DEF TypeOK, IsTable
  <2>2. CASE FileRead(h)
    <3>1. missed' = Save(missed, h, TooEarly) /\ TooEarly \subseteq Calls
      BY <2>2, TooEarlyCalls DEF FileRead, Good
    <3>2. QED
      BY <1>1, <3>1 DEF TypeOK, IsTable, Save
  <2>3. QED
    BY <1>7, <2>1, <2>2 DEF Begun, GoesOn
<1>10. QED
  BY <1>1, <1>3, <1>5, <1>6, <1>8, <1>9 DEF TypeOK, Frame

-----------------------------------------------------------------------------
(* Where a step has led. *)
LEMMA WhereTo ==
    ASSUME TypeOK, NEW h \in Calls, Moves(h)
    PROVE  /\ pc'[h] = "clock_save" => ClockRead(h)
           /\ pc'[h] = "log_save" => LogRead(h)
           /\ pc'[h] = "file_find" => FileRead(h)
           /\ pc'[h] = "file_save" => FileFind(h) \/ FileSave(h)
           /\ pc'[h] = "decide_store" => DecideRead(h) \/ DecideSave(h)
           /\ pc'[h] = "decide_row" => DecideRead(h) \/ DecideSave(h)
           /\ pc'[h] \in {"decide_make", "decide_save"} => DecideRow(h) \/ DecideMake(h)
           /\ pc'[h] = "done" => \/ ClockSave(h) \/ LogSave(h) \/ LogInsert(h) \/ FileSave(h)
                                 \/ DecideStore(h) \/ DeleteAct(h)
<1>1. CASE Post(h) \/ ClockCall(h) \/ Log(h) \/ File(h) \/ Decide(h) \/ DeleteCall(h)
  <2>1. PICK to : /\ to \in {"post_look", "clock_read", "log_read", "log_insert", "file_read",
                             "decide_read", "delete_read"}
                  /\ Goto(h, "idle", to)
    BY <1>1 DEF Post, ClockCall, Log, File, Decide, DeleteCall
  <2>2. QED
    BY <2>1 DEF Goto, TypeOK
<1>2. CASE PostLook(h) \/ PostInsert(h) \/ DeleteRead(h) \/ Abort(h)
  <2>1. PICK to : /\ to \in {"post_insert", "clock_read", "delete_act", "failed"}
                  /\ pc' = [pc EXCEPT ![h] = to]
    BY <1>2 DEF PostLook, PostInsert, DeleteRead, Abort, SaveRow, Goto
  <2>2. QED
    BY <2>1 DEF TypeOK
<1>3. CASE ClockRead(h)
  <2>1. pc'[h] = "clock_save"
    BY <1>3 DEF ClockRead, Goto, TypeOK
  <2>2. QED
    BY <1>3, <2>1
<1>4. CASE LogRead(h)
  <2>1. pc'[h] = "log_save"
    BY <1>4 DEF LogRead, Goto, TypeOK
  <2>2. QED
    BY <1>4, <2>1
<1>5. CASE FileRead(h)
  <2>1. pc'[h] = "file_find"
    BY <1>5 DEF FileRead, Goto, TypeOK
  <2>2. QED
    BY <1>5, <2>1
<1>6. CASE FileFind(h)
  <2>1. pc'[h] = "file_save"
    BY <1>6 DEF FileFind, Goto, TypeOK
  <2>2. QED
    BY <1>6, <2>1
<1>7. CASE FileSave(h)
  <2>1. PICK to : to \in {"done", "file_save"} /\ Goto(h, "file_save", to)
    BY <1>7 DEF FileSave
  <2>2. pc'[h] \in {"done", "file_save"}
    BY <2>1 DEF Goto, TypeOK
  <2>3. QED
    BY <1>7, <2>2
<1>8. CASE DecideRead(h) \/ DecideSave(h)
  <2>1. pc'[h] \in {"decide_store", "decide_row"}
    BY <1>8 DEF DecideRead, DecideSave, SaveRow, Goto, TypeOK
  <2>2. QED
    BY <1>8, <2>1
<1>9. CASE DecideRow(h) \/ DecideMake(h)
  <2>1. PICK to : to \in {"decide_make", "decide_save"} /\ Goto(h, pc[h], to)
    <3>1. CASE DecideRow(h)
      BY <3>1 DEF DecideRow, Goto
    <3>2. CASE DecideMake(h)
      BY <3>2 DEF DecideMake, SaveRow, Goto
    <3>3. QED
      BY <1>9, <3>1, <3>2
  <2>2. pc'[h] \in {"decide_make", "decide_save"}
    BY <2>1 DEF Goto, TypeOK
  <2>3. QED
    BY <1>9, <2>2
<1>10. CASE ClockSave(h) \/ LogSave(h) \/ LogInsert(h) \/ DecideStore(h) \/ DeleteAct(h)
  <2>1. pc' = [pc EXCEPT ![h] = "done"]
    BY <1>10 DEF ClockSave, LogSave, LogInsert, DecideStore, DeleteAct, SaveRow, Goto
  <2>2. pc'[h] = "done"
    BY <2>1 DEF TypeOK
  <2>3. QED
    BY <1>10, <2>2
<1>11. QED
  BY <1>1, <1>2, <1>3, <1>4, <1>5, <1>6, <1>7, <1>8, <1>9, <1>10 DEF Moves

-----------------------------------------------------------------------------
(* What explains that an entry is missing keeps explaining it. *)
LEMMA SavesKept ==
    ASSUME CallsInv, NEW h, Frame(h), NEW a, NEW g \in Saves(a)
    PROVE  g \in Saves(a)'
<1>1. /\ g \in DOMAIN call
      /\ \/ Op(g) \in Clock \cup {"log", "delete"} /\ call[g].id = a
         \/ Op(g) = "post" /\ pc[g] = "done" /\ g \in DOMAIN var /\ var[g].id = a
         \/ Op(g) = "decide" /\ a \in DOMAIN call[g].copies
  BY Savers
<1>2. g \in DOMAIN call' /\ call'[g] = call[g] /\ Op(g)' = Op(g)
  BY <1>1 DEF Frame, Op
<1>3. CASE Op(g) \in Clock \cup {"log", "delete"} /\ call[g].id = a
  BY <1>2, <1>3 DEF Saves, Touches, All, Op, Clock
<1>4. CASE Op(g) = "post" /\ pc[g] = "done" /\ g \in DOMAIN var /\ var[g].id = a
  <2>1. g # h /\ g \in Calls
    BY <1>1, <1>4 DEF Frame, CallsInv
  <2>2. pc'[g] = "done" /\ g \in DOMAIN var' /\ var'[g].id = a
    BY <1>4, <2>1 DEF Frame
  <2>3. QED
    BY <1>2, <1>4, <2>2 DEF Saves, Touches, All, Op
<1>5. CASE Op(g) = "decide" /\ a \in DOMAIN call[g].copies
  BY <1>2, <1>5 DEF Saves, Touches, All, Op
<1>6. QED
  BY <1>1, <1>3, <1>4, <1>5

LEMMA MissedKept ==
    ASSUME NEW h, Frame(h), NEW x \in Missed
    PROVE  x \in Missed'
<1>1. PICK f \in DOMAIN missed : x \in missed[f]
  BY DEF Missed
<1>2. f \in DOMAIN missed' /\ missed'[f] = missed[f]
  BY DEF Frame
<1>3. QED
  BY <1>1, <1>2 DEF Missed

LEMMA LostKept ==
    ASSUME CallsInv, NEW h, Frame(h), RowEffect(h), NEW x, NEW a, Lost(x, a)
    PROVE  Lost(x, a)'
<1>1. CASE Deleted(a)
  BY <1>1, Kept DEF Lost
<1>2. ASSUME NEW o \in Done({"clockOut"}), x \in var[o].out PROVE Lost(x, a)'
  <2>1. o \in DOMAIN call /\ Op(o) = "clockOut" /\ pc[o] = "done" /\ o \in Calls
    BY DEF Done, All, CallsInv
  <2>2. o \in DOMAIN var /\ o # h
    BY <2>1 DEF CallsInv, Placed, Clock, Frame
  <2>3. o \in Done({"clockOut"})' /\ var'[o] = var[o]
    BY <2>1, <2>2 DEF Done, All, Op, Frame
  <2>4. QED
    BY <1>2, <2>3 DEF Lost
<1>3. ASSUME NEW g \in Saves(a) \ {x}, {g, x} \in crossed PROVE Lost(x, a)'
  BY <1>3, SavesKept DEF Lost, Frame
<1>4. ASSUME x \in Missed, NEW d \in All({"decide"}), a \in DOMAIN call[d].copies PROVE Lost(x, a)'
  <2>1. d \in All({"decide"})' /\ call'[d] = call[d]
    BY DEF All, Op, Frame
  <2>2. x \in Missed'
    BY <1>4, MissedKept
  <2>3. QED
    BY <1>4, <2>1, <2>2 DEF Lost
<1>5. QED
  BY <1>1, <1>2, <1>3, <1>4 DEF Lost

LEMMA CopyKept ==
    ASSUME CallsInv, NEW h, Frame(h), RowEffect(h), NEW x, NEW a, NEW copies, Copy(copies, x, a)
    PROVE  Copy(copies, x, a)'
<1>1. Lost(x, a) => Lost(x, a)'
  BY LostKept
<1>2. x \in Missed => x \in Missed'
  BY MissedKept
<1>3. QED
  BY <1>1, <1>2 DEF Copy, Has

LEMMA OthersKeep ==
    ASSUME Good, NEW h, Frame(h), RowEffect(h), NEW x, NEW a, NEW g \in DOMAIN call, g # h,
           Keeps(g, x, a)
    PROVE  Keeps(g, x, a)'
<1>1. /\ g \in Calls /\ call'[g] = call[g] /\ pc'[g] = pc[g] /\ Op(g)' = Op(g)
      /\ g \in DOMAIN var => var'[g] = var[g]
  BY Still DEF Good, Op
<1>2. Placed(g) /\ Lost(x, a) => Lost(x, a)'
  BY LostKept DEF Good, CallsInv
<1>3. Placed(g)
  BY DEF Good, CallsInv
<1>4. PICK v, cs : v = var[g] /\ cs = call[g].copies
  OBVIOUS
<1>5. ASSUME pc[g] \in {"clock_save", "log_save"}, var'[g].id = a
      PROVE  \/ Has(var[g].row.entries, x)' \/ Lost(x, a)' \/ {g, x} \in crossed'
             \/ Op(g)' = "clockOut" /\ x \in var'[g].out
  <2>1. var'[g] = var[g]
    BY <1>1, <1>3, <1>5 DEF Placed
  <2>2. \/ Has(var[g].row.entries, x) \/ Lost(x, a) \/ {g, x} \in crossed
        \/ Op(g) = "clockOut" /\ x \in var[g].out
    BY <1>5, <2>1 DEF Keeps
  <2>3. QED
    BY <1>1, <1>2, <1>3, <2>1, <2>2 DEF Has, Frame
<1>6. ASSUME pc[g] \in {"file_find", "file_save"}
      PROVE  var'[g] = v /\ \A e \in DOMAIN v.copies : Copy(v.copies[e], x, a)'
  <2>1. var'[g] = v /\ \A e \in DOMAIN v.copies : Copy(v.copies[e], x, a)
    BY <1>1, <1>3, <1>4, <1>6 DEF Placed, Keeps
  <2>2. QED
    BY <2>1, CopyKept DEF Good
<1>7. ASSUME Op(g) = "decide" PROVE Copy(cs, x, a)'
  BY <1>4, <1>7, CopyKept DEF Keeps, Good
<1>8. QED
  BY <1>1, <1>4, <1>5, <1>6, <1>7 DEF Keeps, Copy

-----------------------------------------------------------------------------
(* A call that records time on row a and answers. *)
LEMMA NewlyMissed ==
    ASSUME CallsInv, NEW h \in Calls, Frame(h), NEW f \in DOMAIN missed
    PROVE  h \in Missed'
<1>1. h \in missed[f]
  BY DEF CallsInv, Rest, Frame
<1>2. QED
  BY <1>1 DEF Missed, Frame

LEMMA NewlyDone ==
    ASSUME Good, StaysInv, NEW h \in Calls, Moves(h), pc'[h] = "done",
           Op(h)' \in {"post", "clockIn", "log"}, NEW a, a = RowOf(h)'
    PROVE  Stays(h, a)'
<1>1. Frame(h) /\ RowEffect(h) /\ SummaryEffect(h) /\ CallsInv /\ RowsInv
  BY StepEffects DEF Good
<1>2. ClockSave(h) \/ LogSave(h) \/ LogInsert(h) \/ FileSave(h) \/ DecideStore(h) \/ DeleteAct(h)
  BY WhereTo DEF Good
<1>3. /\ pc[h] \in {"clock_save", "log_save", "log_insert", "file_save", "decide_store",
             "delete_act"}
      /\ call' = call
  BY <1>2 DEF ClockSave, LogSave, LogInsert, FileSave, DecideStore, DeleteAct, SaveRow, Goto
<1>4. h \in DOMAIN call /\ Mine(h) /\ Op(h)' = Op(h) /\ pc[h] \in InFlight
  BY <1>3, MineNow DEF InFlight, Op
<1>5. ClockSave(h) \/ LogSave(h) \/ LogInsert(h)
  BY <1>2, <1>3, <1>4 DEF Mine, Placed, FileSave, DecideStore, DeleteAct, Goto
<1>6. a \in DOMAIN attendance' /\ Has(attendance[a].entries, h)'
  <2>1. CASE ClockSave(h)
    <3>1. /\ pc[h] = "clock_save" /\ attendance' = Save(attendance, var[h].id, var[h].row)
          /\ var'[h].id = var[h].id
      BY <2>1 DEF ClockSave, SaveRow, Goto, Set, Save
    <3>2. var[h].id = RowOf(h) /\ Has(var[h].row.entries, h)
      BY <1>4, <3>1 DEF Mine, Holds, StaysInv
    <3>3. a = var[h].id
      BY <1>3, <3>1, <3>2 DEF RowOf
    <3>4. QED
      BY <3>1, <3>2, <3>3 DEF Save, Has
  <2>2. CASE LogSave(h)
    <3>1. pc[h] = "log_save" /\ attendance' = Save(attendance, var[h].id, var[h].row)
      BY <2>2 DEF LogSave, SaveRow, Goto
    <3>2. Op(h) = "log" /\ var[h].id = RowOf(h) /\ Has(var[h].row.entries, h)
      BY <1>4, <3>1 DEF Mine, Holds, StaysInv, Placed
    <3>3. a = var[h].id
      BY <1>3, <3>1, <3>2 DEF RowOf, Op
    <3>4. QED
      BY <3>1, <3>2, <3>3 DEF Save, Has
  <2>3. CASE LogInsert(h)
    <3>1. pc[h] = "log_insert" /\ attendance' = Save(attendance, h, Opened(call[h], {Logged(h)}))
      BY <2>3 DEF LogInsert, SaveRow, Goto
    <3>2. Op(h) = "log" /\ call[h].id = h
      BY <1>4, <3>1 DEF Mine, Brings, Placed
    <3>3. a = h
      BY <1>3, <3>1, <3>2 DEF RowOf, Op
    <3>4. Opened(call[h], {Logged(h)}).entries = {Logged(h)} /\ Logged(h).by = h
      BY DEF Opened, Logged
    <3>5. attendance'[a].entries = {Logged(h)} /\ a \in DOMAIN attendance'
      BY <3>1, <3>3, <3>4 DEF Save
    <3>6. QED
      BY <3>4, <3>5 DEF Has
  <2>4. QED
    BY <1>5, <2>1, <2>2, <2>3
<1>7. missed' = missed /\ crossed' = crossed /\ summary' = summary
  BY <1>5 DEF ClockSave, LogSave, LogInsert, SaveRow
<1>8. ASSUME NEW s \in DOMAIN summary' PROVE Copy(summary[s].copies, h, a)'
  <2>1. s[1] \in DOMAIN missed
    BY <1>1, <1>7 DEF RowsInv, Filed
  <2>2. QED
    BY <1>1, <2>1, NewlyMissed DEF Copy
<1>9. ASSUME NEW g \in DOMAIN call' PROVE Keeps(g, h, a)'
  <2>1. g \in DOMAIN call /\ g \in Calls
    BY <1>1, <1>3 DEF CallsInv
  <2>2. CASE g = h
    BY <1>3, <1>4, <2>2 DEF Keeps, Op
  <2>3. CASE g # h
    <3>1. pc'[g] = pc[g] /\ call'[g] = call[g] /\ Holds(g) /\ Brings(g)
      BY <1>1, <2>1, <2>3 DEF Frame, RowsInv
    <3>2. ASSUME pc'[g] \in {"clock_save", "log_save"} PROVE {g, h} \in crossed'
      BY <1>1, <1>4, <1>7, <2>1, <2>3, <3>1, <3>2 DEF CallsInv, InFlight
    <3>3. ASSUME pc'[g] \in {"file_find", "file_save"} PROVE h \in Missed'
      BY <1>1, <3>1, <3>3, NewlyMissed DEF Holds
    <3>4. ASSUME Op(g)' = "decide" PROVE h \in Missed'
      <4>1. call[g].id \in DOMAIN summary
        BY <3>1, <3>4 DEF Brings, Op
      <4>2. call[g].id[1] \in DOMAIN missed
        BY <1>1, <4>1 DEF RowsInv, Filed
      <4>3. QED
        BY <1>1, <4>2, NewlyMissed
    <3>5. QED
      BY <3>2, <3>3, <3>4 DEF Keeps, Copy
  <2>4. QED
    BY <2>2, <2>3
<1>10. QED
  BY <1>6, <1>8, <1>9 DEF Stays

-----------------------------------------------------------------------------
(* A call that recorded time earlier. *)
LEMMA HadOfDone ==
    ASSUME CallsInv, RowsInv, NEW x \in Done({"post", "clockIn", "log"})
    PROVE  /\ x \in DOMAIN call /\ x \in Calls /\ pc[x] = "done" /\ Had(RowOf(x))
           /\ Op(x) = "post" => x \in DOMAIN var
           /\ Op(x) \in {"post", "clockIn", "log"}
<1>1. x \in DOMAIN call /\ x \in Calls /\ pc[x] = "done" /\ Op(x) \in {"post", "clockIn", "log"}
  BY DEF Done, All, CallsInv
<1>2. Brings(x) /\ Placed(x)
  BY <1>1 DEF CallsInv, RowsInv
<1>3. QED
  BY <1>1, <1>2 DEF Brings, Placed, RowOf, Op, Clock

LEMMA ClockedHas ==
    ASSUME NEW h, NEW old, NEW new \in Clocked(h, old), NEW x, Has(old, x)
    PROVE  Has(new, x) \/ (call[h].op = "clockOut" /\ x \in {e.by : e \in old} \ {e.by : e \in new})
<1>1. CASE call[h].op # "clockOut"
  BY <1>1 DEF Clocked, Has
<1>2. CASE call[h].op = "clockOut"
  BY <1>2 DEF Has
<1>3. QED
  BY <1>1, <1>2

(* The row of an earlier entry after a step. *)
LEMMA RowStays ==
    ASSUME Good, StaysInv, NEW h \in Calls, Moves(h), NEW x \in Done({"post", "clockIn", "log"}),
           NEW a, a = RowOf(x)
    PROVE  (a \in DOMAIN attendance' /\ Has(attendance[a].entries, x)') \/ Lost(x, a)'
<1>1. Frame(h) /\ RowEffect(h) /\ SummaryEffect(h) /\ CallsInv /\ RowsInv /\ TypeOK
  BY StepEffects DEF Good
<1>2. x \in DOMAIN call /\ x \in Calls /\ pc[x] = "done" /\ Had(a) /\ x # h
  BY <1>1, HadOfDone DEF Frame
<1>3. /\ (a \in DOMAIN attendance /\ Has(attendance[a].entries, x)) \/ Lost(x, a)
      /\ \A g \in DOMAIN call : Keeps(g, x, a)
  BY DEF StaysInv, Stays
<1>4. Lost(x, a) => Lost(x, a)'
  BY <1>1, LostKept
<1>5. ASSUME a \in DOMAIN attendance => a \in DOMAIN attendance' /\ attendance'[a] = attendance[a]
      PROVE  (a \in DOMAIN attendance' /\ Has(attendance[a].entries, x)') \/ Lost(x, a)'
  BY <1>3, <1>4, <1>5 DEF Has
<1>6. CASE PostInsert(h) \/ LogInsert(h)
  <2>1. pc[h] \in {"post_insert", "log_insert"} /\ \E row : attendance' = Save(attendance, h, row)
    BY <1>6 DEF PostInsert, LogInsert, SaveRow, Goto
  <2>2. ~Had(h)
    BY <2>1, MineNow DEF InFlight, Mine, Opens
  <2>3. QED
    BY <1>2, <1>5, <2>1, <2>2 DEF Save
<1>7. CASE ClockSave(h) \/ LogSave(h)
  <2>1. PICK v, row : v = var[h] /\ row = var[h].row
    OBVIOUS
  <2>2. /\ pc[h] \in {"clock_save", "log_save"} /\ call' = call
        /\ attendance' = Save(attendance, v.id, row)
    BY <1>7, <2>1 DEF ClockSave, LogSave, SaveRow, Goto
  <2>3. h \in DOMAIN call /\ Mine(h) /\ h \in DOMAIN var
    BY <2>2, MineNow DEF InFlight, Mine, Placed
  <2>4. CASE v.id # a
    BY <1>5, <2>2, <2>4 DEF Save
  <2>5. CASE v.id = a
    <3>1. \/ Has(row.entries, x) \/ Lost(x, a) \/ {h, x} \in crossed
          \/ Op(h) = "clockOut" /\ x \in v.out
      BY <1>3, <2>1, <2>2, <2>3, <2>5 DEF Keeps
    <3>2. CASE Has(row.entries, x)
      <4>1. a \in DOMAIN attendance' /\ attendance'[a] = row
        BY <2>2, <2>5 DEF Save
      <4>2. QED
        BY <3>2, <4>1 DEF Has
    <3>3. CASE {h, x} \in crossed
      <4>1. h \in Saves(a)'
        <5>1. v.id = RowOf(h)
          BY <2>1, <2>2, <2>3 DEF Mine, Holds
        <5>2. CASE ClockSave(h)
          <6>1. h \in DOMAIN var' /\ var'[h].id = a /\ pc'[h] = "done"
            BY <1>1, <2>1, <2>5, <5>2 DEF ClockSave, SaveRow, Goto, Set, Save, TypeOK
          <6>2. pc[h] = "clock_save"
            BY <5>2 DEF ClockSave
          <6>3. Op(h) \in Clock \cup {"post"}
            BY <2>3, <6>2 DEF Mine, Placed
          <6>4. QED
            BY <2>2, <2>3, <2>5, <5>1, <6>1, <6>3 DEF Saves, Touches, All, Op, RowOf
        <5>3. CASE LogSave(h)
          <6>1. pc[h] = "log_save"
            BY <5>3 DEF LogSave
          <6>2. Op(h) = "log"
            BY <2>3, <6>1 DEF Mine, Placed
          <6>3. QED
            BY <2>2, <2>3, <2>5, <5>1, <6>2 DEF Saves, Touches, All, Op, RowOf
        <5>4. QED
          BY <1>7, <5>2, <5>3
      <4>2. QED
        BY <1>1, <1>2, <3>3, <4>1 DEF Lost, Frame
    <3>4. CASE Op(h) = "clockOut" /\ x \in v.out
      <4>1. ClockSave(h)
        BY <1>7, <2>3, <3>4 DEF LogSave, Mine, Placed
      <4>2. pc'[h] = "done" /\ var'[h].out = v.out
        BY <1>1, <2>1, <4>1 DEF ClockSave, SaveRow, Goto, Set, Save, TypeOK
      <4>3. h \in Done({"clockOut"})'
        BY <2>2, <2>3, <3>4, <4>2 DEF Done, All, Op
      <4>4. QED
        BY <3>4, <4>2, <4>3 DEF Lost
    <3>5. QED
      BY <1>4, <3>1, <3>2, <3>3, <3>4
  <2>6. QED
    BY <2>4, <2>5
<1>8. CASE DecideMake(h) \/ DecideSave(h)
  <2>1. PICK b, row, entries : b = var[h].id /\ row = var[h].row /\ entries = row.entries
    OBVIOUS
  <2>2. PICK saved \in {row, [row EXCEPT !.approved = FALSE]} :
          /\ pc[h] \in {"decide_make", "decide_save"} /\ call' = call
          /\ attendance' = Save(attendance, b, saved)
    BY <1>8, <2>1 DEF DecideMake, DecideSave, SaveRow, Goto
  <2>3. h \in DOMAIN call /\ Mine(h) /\ Op(h) = "decide"
    BY <2>2, MineNow DEF InFlight, Mine, Placed
  <2>4. b \in DOMAIN call[h].copies /\ Fits(b, row) /\ entries = call[h].copies[b].entries
    BY <2>1, <2>2, <2>3 DEF Mine, Holds
  <2>5. saved.entries = entries
    <3>1. row \in Row
      BY <2>4 DEF Fits
    <3>2. [row EXCEPT !.approved = FALSE].entries = row.entries
      BY <3>1 DEF Row
    <3>3. QED
      BY <2>1, <2>2, <3>2
  <2>6. CASE b # a
    BY <1>5, <2>2, <2>6 DEF Save
  <2>7. CASE b = a
    <3>1. Has(entries, x) \/ Lost(x, a) \/ x \in Missed
      BY <1>3, <2>3, <2>4, <2>7 DEF Keeps, Copy
    <3>2. CASE Has(entries, x)
      <4>1. a \in DOMAIN attendance' /\ attendance'[a] = saved
        BY <2>2, <2>7 DEF Save
      <4>2. QED
        BY <2>5, <3>2, <4>1 DEF Has
    <3>3. CASE x \in Missed
      <4>1. Lost(x, a)
        BY <2>3, <2>4, <2>7, <3>3 DEF Lost, All
      <4>2. QED
        BY <1>4, <4>1
    <3>4. QED
      BY <1>4, <3>1, <3>2, <3>3
  <2>8. QED
    BY <2>6, <2>7
<1>9. CASE DeleteAct(h)
  <2>1. PICK b : b = call[h].id
    OBVIOUS
  <2>2. pc[h] = "delete_act" /\ attendance' \in {attendance, Delete(attendance, b)}
    BY <1>9, <2>1 DEF DeleteAct, Goto
  <2>3. h \in DOMAIN call /\ Op(h) = "delete"
    BY <2>2, MineNow DEF InFlight, Mine, Placed
  <2>4. CASE b # a
    BY <1>5, <2>2, <2>4 DEF Delete
  <2>5. CASE b = a
    <3>1. Lost(x, a)
      BY <2>1, <2>3, <2>5 DEF Lost, Deleted, All
    <3>2. QED
      BY <1>4, <3>1
  <2>6. QED
    BY <2>4, <2>5
<1>10. QED
  BY <1>5, <1>6, <1>7, <1>8, <1>9, AttendanceUnchanged

(* The copies of the summaries after a step. *)
LEMMA SummariesKeep ==
    ASSUME Good, StaysInv, NEW h \in Calls, Moves(h), NEW x \in Done({"post", "clockIn", "log"}),
           NEW a, a = RowOf(x), NEW s \in DOMAIN summary'
    PROVE  Copy(summary[s].copies, x, a)'
<1>1. Frame(h) /\ RowEffect(h) /\ CallsInv
  BY StepEffects DEF Good
<1>2. /\ \A t \in DOMAIN summary : Copy(summary[t].copies, x, a)
      /\ \A g \in DOMAIN call : Keeps(g, x, a)
  BY DEF StaysInv, Stays
<1>3. ASSUME NEW copies, Copy(copies, x, a), summary'[s].copies = copies
      PROVE  Copy(summary[s].copies, x, a)'
  <2>1. Copy(copies, x, a)'
    BY <1>1, <1>3, CopyKept
  <2>2. QED
    BY <1>3, <2>1 DEF Copy
<1>4. CASE s \in DOMAIN summary /\ summary'[s] = summary[s]
  BY <1>2, <1>3, <1>4
<1>5. CASE FileSave(h)
  <2>1. PICK copies, e, t :
          /\ e \in DOMAIN var[h].copies /\ copies = var[h].copies[e] /\ t = var[h].id[e]
          /\ summary' = Save(summary, t, [emp |-> e, status |-> "pending", copies |-> copies])
          /\ pc[h] = "file_save"
    BY <1>5 DEF FileSave
  <2>2. h \in DOMAIN call
    BY <2>1, MineNow DEF InFlight
  <2>3. Copy(copies, x, a)
    BY <1>2, <2>1, <2>2 DEF Keeps
  <2>4. CASE s # t
    BY <1>4, <2>1, <2>4 DEF Save
  <2>5. CASE s = t
    <3>1. summary'[s].copies = copies
      BY <2>1, <2>5 DEF Save
    <3>2. QED
      BY <1>3, <2>3, <3>1
  <2>6. QED
    BY <2>4, <2>5
<1>6. CASE DecideStore(h)
  <2>1. PICK t, row : t = call[h].id /\ row = var[h].sum
    OBVIOUS
  <2>2. pc[h] = "decide_store" /\ summary' = Save(summary, t, row)
    BY <1>6, <2>1 DEF DecideStore, Goto
  <2>3. h \in DOMAIN call /\ Mine(h) /\ Op(h) = "decide"
    BY <2>2, MineNow DEF InFlight, Mine, Placed
  <2>4. Copy(row.copies, x, a)
    BY <1>2, <2>1, <2>2, <2>3 DEF Keeps, Mine, Holds
  <2>5. CASE s # t
    BY <1>4, <2>2, <2>5 DEF Save
  <2>6. CASE s = t
    <3>1. summary'[s].copies = row.copies
      BY <2>2, <2>6 DEF Save
    <3>2. QED
      BY <1>3, <2>4, <3>1
  <2>7. QED
    BY <2>5, <2>6
<1>7. QED
  BY <1>4, <1>5, <1>6, SummaryUnchanged

(* What the call that moves has in hand. *)
LEMMA MineKeeps ==
    ASSUME Good, StaysInv, NEW h \in Calls, Moves(h), NEW x \in Done({"post", "clockIn", "log"}),
           NEW a, a = RowOf(x)
    PROVE  Keeps(h, x, a)'
<1>1. Frame(h) /\ RowEffect(h) /\ CallsInv /\ RowsInv /\ TypeOK
  BY StepEffects DEF Good
<1>2. /\ (a \in DOMAIN attendance /\ Has(attendance[a].entries, x)) \/ Lost(x, a)
      /\ \A t \in DOMAIN summary : Copy(summary[t].copies, x, a)
      /\ \A g \in DOMAIN call : Keeps(g, x, a)
  BY DEF StaysInv, Stays
<1>3. Lost(x, a) => Lost(x, a)'
  BY <1>1, LostKept
<1>4. ASSUME pc'[h] \in {"clock_save", "log_save"}, var'[h].id = a
      PROVE  \/ Has(var[h].row.entries, x)' \/ Lost(x, a)'
             \/ Op(h)' = "clockOut" /\ x \in var'[h].out
  <2>1. CASE ClockRead(h)
    <3>1. PICK b, old, entries, out, new :
            /\ b = RowOf(h) /\ b \in DOMAIN attendance /\ old = attendance[b]
            /\ entries \in Clocked(h, old.entries) /\ new = [old EXCEPT !.entries = entries]
            /\ out = {e.by : e \in old.entries} \ {e.by : e \in entries}
            /\ Set(h, [id |-> b, row |-> new, out |-> out]) /\ call' = call
      BY <2>1 DEF ClockRead, Own
    <3>2. var'[h].id = b /\ var'[h].row = new /\ var'[h].out = out
      BY <3>1 DEF Set, Save
    <3>3. new.entries = entries
      <4>1. old \in Row
        BY <1>1, <3>1, RowSays
      <4>2. QED
        BY <3>1, <4>1 DEF Row
    <3>4. CASE Has(old.entries, x)
      <4>1. Has(entries, x) \/ (call[h].op = "clockOut" /\ x \in out)
        BY <3>1, <3>4, ClockedHas
      <4>2. QED
        BY <3>1, <3>2, <3>3, <4>1 DEF Has, Op
    <3>5. QED
      BY <1>2, <1>3, <1>4, <3>1, <3>2, <3>4
  <2>2. CASE LogRead(h)
    <3>1. PICK b, old, entries, new :
            /\ b \in DOMAIN attendance /\ old = attendance[b]
            /\ entries = old.entries \cup {Logged(h)} /\ new = [old EXCEPT !.entries = entries]
            /\ Set(h, [id |-> b, row |-> new])
      BY <2>2 DEF LogRead
    <3>2. var'[h].id = b /\ var'[h].row = new
      BY <3>1 DEF Set, Save
    <3>3. new.entries = entries
      <4>1. old \in Row
        BY <1>1, <3>1, RowSays
      <4>2. QED
        BY <3>1, <4>1 DEF Row
    <3>4. CASE Has(old.entries, x)
      BY <3>1, <3>2, <3>3, <3>4 DEF Has
    <3>5. QED
      BY <1>2, <1>3, <1>4, <3>1, <3>2, <3>4
  <2>3. QED
    BY <1>1, <1>4, <2>1, <2>2, WhereTo
<1>5. ASSUME pc'[h] \in {"file_find", "file_save"}, NEW e \in DOMAIN var'[h].copies
      PROVE  Copy(var[h].copies[e], x, a)'
  <2>1. CASE FileRead(h)
    <3>1. var'[h].copies = [m \in Employees |-> Copies(m)] /\ missed' = Save(missed, h, TooEarly)
      BY <2>1 DEF FileRead, Set, Save
    <3>2. var'[h].copies[e] = Copies(e)
      BY <1>5, <3>1
    <3>3. ASSUME a \in DOMAIN Copies(e), ~Lost(x, a)'
          PROVE  Has(Copies(e)[a].entries, x) \/ x \in Missed'
      <4>1. a \in DOMAIN attendance
            /\ Copies(e)[a].entries = attendance[a].entries \ Running(attendance[a].entries)
        BY <3>3 DEF Copies, Copied
      <4>2. PICK en \in attendance[a].entries : en.by = x
        BY <1>2, <1>3, <3>3 DEF Has
      <4>3. CASE en \in Running(attendance[a].entries)
        <5>1. x \in TooEarly
          BY <4>1, <4>2, <4>3 DEF TooEarly, Running
        <5>2. h \in DOMAIN missed' /\ missed'[h] = TooEarly
          BY <3>1 DEF Save
        <5>3. QED
          BY <5>1, <5>2 DEF Missed
      <4>4. CASE en \notin Running(attendance[a].entries)
        BY <4>1, <4>2, <4>4 DEF Has
      <4>5. QED
        BY <4>3, <4>4
    <3>4. QED
      BY <3>2, <3>3 DEF Copy, Has
  <2>2. CASE FileFind(h) \/ FileSave(h)
    <3>1. PICK copies : copies = var[h].copies /\ e \in DOMAIN copies
                   /\ var'[h].copies[e] = copies[e]
      <4>1. CASE FileFind(h)
        BY <1>5, <4>1 DEF FileFind, Set, Save
      <4>2. CASE FileSave(h)
        <5>1. PICK d, left : left = Delete(var[h].copies, d)
                       /\ Set(h, [id |-> var[h].id, copies |-> left])
          BY <4>2 DEF FileSave
        <5>2. var'[h].copies = left
          BY <5>1 DEF Set, Save
        <5>3. QED
          BY <1>5, <5>1, <5>2 DEF Delete
      <4>3. QED
        BY <2>2, <4>1, <4>2
    <3>2. pc[h] \in {"file_find", "file_save"}
      BY <2>2 DEF FileFind, FileSave, Goto
    <3>3. h \in DOMAIN call
      BY <3>2, MineNow DEF InFlight
    <3>4. Copy(copies[e], x, a)
      BY <1>2, <3>1, <3>2, <3>3 DEF Keeps
    <3>5. PICK c : c = copies[e]
      OBVIOUS
    <3>6. Copy(c, x, a)'
      BY <1>1, <3>4, <3>5, CopyKept
    <3>7. QED
      BY <3>1, <3>5, <3>6 DEF Copy
  <2>3. QED
    BY <1>1, <1>5, <2>1, <2>2, WhereTo
<1>6. ASSUME Op(h)' = "decide" PROVE Copy(call[h].copies, x, a)'
  <2>1. PICK c : c = call'[h].copies
    OBVIOUS
  <2>2. Copy(c, x, a)
    <3>1. CASE h \in DOMAIN call
      BY <1>1, <1>2, <1>6, <2>1, <3>1 DEF Keeps, Frame, Op
    <3>2. CASE h \notin DOMAIN call
      <4>1. call' # call
        BY <1>1, <3>2 DEF Frame
      <4>2. Decide(h)
        BY <1>1, <1>6, <4>1, CallUnchanged, Posting, Clocking, Logging, Filing, Deleting
           DEF Begun, Op, Clock
      <4>3. QED
        BY <1>1, <1>2, <2>1, <4>2, Deciding
    <3>3. QED
      BY <3>1, <3>2
  <2>3. Copy(c, x, a)'
    BY <1>1, <2>2, CopyKept
  <2>4. QED
    BY <2>1, <2>3 DEF Copy
<1>7. QED
  BY <1>4, <1>5, <1>6 DEF Keeps

(* Each recorded entry has the call that recorded it in the row to be saved. *)
LEMMA OwnEntry ==
    ASSUME Good, StaysInv, NEW h \in Calls, Moves(h), NEW g \in DOMAIN call'
    PROVE  /\ pc'[g] = "clock_save" /\ Op(g)' # "clockOut" => Has(var[g].row.entries, g)'
           /\ pc'[g] = "log_save" => Has(var[g].row.entries, g)'
<1>1. Frame(h) /\ CallsInv /\ RowsInv /\ TypeOK
  BY StepEffects DEF Good
<1>2. CASE g # h
  <2>1. g \in DOMAIN call
    BY <1>1, <1>2 DEF Frame
  <2>2. /\ pc'[g] = pc[g] /\ call'[g] = call[g] /\ Op(g)' = Op(g)
        /\ g \in DOMAIN var => var'[g] = var[g]
    BY <1>1, <1>2, <2>1, Still DEF Op
  <2>3. pc[g] \in {"clock_save", "log_save"} => g \in DOMAIN var
    BY <1>1, <2>1 DEF CallsInv, Placed
  <2>4. QED
    BY <2>1, <2>2, <2>3 DEF StaysInv, Has
<1>3. CASE g = h
  <2>1. ASSUME pc'[h] = "clock_save", Op(h)' # "clockOut" PROVE Has(var[h].row.entries, h)'
    <3>1. ClockRead(h)
      BY <1>1, <2>1, WhereTo
    <3>2. PICK old, entries, new, b, out :
            /\ old \in Row /\ entries \in Clocked(h, old.entries)
            /\ new = [old EXCEPT !.entries = entries]
            /\ Set(h, [id |-> b, row |-> new, out |-> out]) /\ call' = call
      BY <1>1, <3>1, RowSays DEF ClockRead, Own
    <3>3. [by |-> h, ended |-> None] \in entries
      BY <2>1, <3>2 DEF Clocked, Op
    <3>4. new.entries = entries
      BY <3>2 DEF Row
    <3>5. var'[h].row = new
      BY <3>2 DEF Set, Save
    <3>6. QED
      BY <3>3, <3>4, <3>5 DEF Has
  <2>2. ASSUME pc'[h] = "log_save" PROVE Has(var[h].row.entries, h)'
    <3>1. LogRead(h)
      BY <1>1, <2>2, WhereTo
    <3>2. PICK old, entries, new, b :
            /\ old \in Row /\ entries = old.entries \cup {Logged(h)}
            /\ new = [old EXCEPT !.entries = entries] /\ Set(h, [id |-> b, row |-> new])
      BY <1>1, <3>1, RowSays DEF LogRead
    <3>3. new.entries = entries
      BY <3>2 DEF Row
    <3>4. var'[h].row = new
      BY <3>2 DEF Set, Save
    <3>5. Logged(h) \in entries /\ Logged(h).by = h
      BY <3>2 DEF Logged
    <3>6. QED
      BY <3>3, <3>4, <3>5 DEF Has
  <2>3. QED
    BY <1>3, <2>1, <2>2
<1>4. QED
  BY <1>2, <1>3

LEMMA StaysNext ==
    ASSUME Good, StaysInv, NEW h \in Calls, Moves(h)
    PROVE  StaysInv'
<1>1. Frame(h) /\ RowEffect(h) /\ CallsInv /\ RowsInv
  BY StepEffects DEF Good
<1>2. ASSUME NEW x \in Done({"post", "clockIn", "log"})', NEW a, a = RowOf(x)'
      PROVE  Stays(x, a)'
  <2>1. x \in DOMAIN call' /\ pc'[x] = "done" /\ Op(x)' \in {"post", "clockIn", "log"}
    BY DEF Done, All
  <2>2. CASE x = h
    BY <1>2, <2>1, <2>2, NewlyDone
  <2>3. CASE x # h
    <3>1. x \in DOMAIN call /\ call'[x] = call[x] /\ pc[x] = "done"
      BY <1>1, <2>1, <2>3 DEF Frame, CallsInv
    <3>2. x \in Done({"post", "clockIn", "log"})
      BY <2>1, <3>1 DEF Done, All, Op
    <3>3. a = RowOf(x)
      BY <1>1, <1>2, <2>3, <3>1, <3>2, HadOfDone DEF RowOf, Op, Frame
    <3>4. (a \in DOMAIN attendance' /\ Has(attendance[a].entries, x)') \/ Lost(x, a)'
      BY <3>2, <3>3, RowStays
    <3>5. \A s \in DOMAIN summary' : Copy(summary[s].copies, x, a)'
      BY <3>2, <3>3, SummariesKeep
    <3>6. ASSUME NEW g \in DOMAIN call' PROVE Keeps(g, x, a)'
      <4>1. CASE g = h
        BY <3>2, <3>3, <4>1, MineKeeps
      <4>2. CASE g # h
        <5>1. g \in DOMAIN call
          BY <1>1, <4>2 DEF Frame
        <5>2. Keeps(g, x, a)
          BY <3>2, <3>3, <5>1 DEF StaysInv, Stays
        <5>3. QED
          BY <1>1, <4>2, <5>1, <5>2, OthersKeep
      <4>3. QED
        BY <4>1, <4>2
    <3>7. QED
      BY <3>4, <3>5, <3>6 DEF Stays
  <2>4. QED
    BY <2>2, <2>3
<1>3. QED
  BY <1>2, OwnEntry DEF StaysInv

-----------------------------------------------------------------------------
(* A row that another call has not saved is as it was. *)
LEMMA RowUntouched ==
    ASSUME Good, NEW h \in Calls, Moves(h), NEW a, Had(a), h \notin Saves(a)'
    PROVE  /\ a \in DOMAIN attendance => a \in DOMAIN attendance'
           /\ a \in DOMAIN attendance => attendance'[a] = attendance[a]
<1>1. RowEffect(h)
  BY StepEffects
<1>2. ASSUME NEW row, OpensRow(h, row) PROVE a # h /\ attendance' = Save(attendance, h, row)
  BY <1>2 DEF OpensRow
<1>3. ASSUME NEW b, NEW row, StoresRow(h, b, row)
      PROVE  a # b /\ attendance' = Save(attendance, b, row)
  BY <1>3 DEF StoresRow
<1>4. ASSUME NEW b, DeletesRow(h, b)
      PROVE  a # b /\ attendance' \in {attendance, Delete(attendance, b)}
  <2>1. h \in Saves(b)'
    BY <1>4 DEF DeletesRow, Saves, Touches, All, Op
  <2>2. QED
    BY <1>4, <2>1 DEF DeletesRow
<1>5. CASE attendance' = attendance
  BY <1>5
<1>6. CASE \E row : OpensRow(h, row)
  BY <1>2, <1>6 DEF Save
<1>7. CASE \E b, row : StoresRow(h, b, row)
  BY <1>3, <1>7 DEF Save
<1>8. CASE \E b : DeletesRow(h, b)
  <2>1. PICK b : a # b /\ attendance' \in {attendance, Delete(attendance, b)}
    BY <1>4, <1>8
  <2>2. QED
    BY <2>1 DEF Delete
<1>9. QED
  BY <1>1, <1>5, <1>6, <1>7, <1>8 DEF RowEffect

(* A decision with a status obeys it on every row it has been through. *)
LEMMA OthersObey ==
    ASSUME Good, AgreesInv, NEW h \in Calls, Moves(h), NEW d \in All({"decide"}), d # h,
           call[d].status # None
    PROVE  Obeyed(d)'
<1>1. Frame(h) /\ CallsInv
  BY StepEffects DEF Good
<1>2. d \in DOMAIN call /\ d \in Calls /\ Op(d) = "decide"
  BY <1>1 DEF All, CallsInv
<1>3. call'[d] = call[d] /\ pc'[d] = pc[d] /\ (d \in DOMAIN var => var'[d] = var[d])
  BY <1>1, <1>2, Still DEF Good
<1>4. ASSUME NEW a \in DOMAIN call[d].copies, Through(d, a)',
          (Saves(a)' \ {d}) \cap call[d].rest = {}
      PROVE  Agrees(d, a)'
  <2>1. Through(d, a)
    <3>1. pc[d] \in {"decide_row", "decide_make", "decide_save"} => d \in DOMAIN var
      BY <1>1, <1>2 DEF CallsInv, Placed
    <3>2. QED
      BY <1>3, <1>4, <3>1 DEF Through
  <2>2. Saves(a) \subseteq Saves(a)'
    BY <1>1, SavesKept
  <2>3. Agrees(d, a)
    BY <1>4, <2>1, <2>2 DEF AgreesInv, Obeyed
  <2>4. h \in call[d].rest
    BY <1>1, <1>2 DEF CallsInv, Rest, Frame
  <2>5. h \notin Saves(a)'
    BY <1>4, <2>4
  <2>6. Had(a)
    BY <1>2 DEF Good, RowsInv, Brings, AllFit
  <2>7. QED
    BY <1>3, <2>3, <2>5, <2>6, RowUntouched DEF Agrees
<1>5. QED
  BY <1>3, <1>4 DEF Obeyed

LEMMA MineObeys ==
    ASSUME Good, AgreesInv, NEW h \in Calls, Moves(h), h \in DOMAIN call', Op(h)' = "decide",
           call'[h].status # None
    PROVE  Obeyed(h)'
<1>1. Frame(h) /\ CallsInv /\ TypeOK
  BY StepEffects DEF Good
<1>2. ASSUME NEW a \in DOMAIN call'[h].copies, Through(h, a)',
          (Saves(a)' \ {h}) \cap call'[h].rest = {}
      PROVE  Agrees(h, a)'
  <2>1. DecideRead(h) \/ DecideRow(h) \/ DecideMake(h) \/ DecideSave(h) \/ DecideStore(h)
    <3>1. pc'[h] \in {"decide_row", "decide_make", "decide_save", "decide_store", "done"}
      BY <1>2 DEF Through
    <3>2. CASE pc'[h] # "done"
      BY <1>1, <3>1, <3>2, WhereTo
    <3>3. CASE pc'[h] = "done"
      <4>1. \/ ClockSave(h) \/ LogSave(h) \/ LogInsert(h)
            \/ FileSave(h) \/ DecideStore(h) \/ DeleteAct(h)
        BY <1>1, <3>3, WhereTo
      <4>2. CASE ~DecideStore(h)
        <5>1. /\ pc[h] \in {"clock_save", "log_save", "log_insert", "file_save", "delete_act"}
              /\ call' = call
          BY <4>1, <4>2 DEF ClockSave, LogSave, LogInsert, FileSave, DeleteAct, SaveRow, Goto
        <5>2. Placed(h) /\ Op(h) = "decide"
          BY <5>1, MineNow DEF InFlight, Mine, Op
        <5>3. QED
          BY <5>1, <5>2 DEF Placed, Clock
      <4>3. QED
        BY <4>2
    <3>4. QED
      BY <3>2, <3>3
  <2>2. /\ pc[h] \in {"decide_read", "decide_row", "decide_make", "decide_save", "decide_store"}
        /\ call' = call
    BY <2>1 DEF DecideRead, DecideRow, DecideMake, DecideSave, DecideStore, Own, SaveRow, Goto
  <2>3. h \in DOMAIN call /\ Mine(h) /\ Op(h) = "decide"
    BY <2>2, MineNow DEF InFlight, Op, Mine, Placed
  <2>4. ASSUME Through(h, a) PROVE Agrees(h, a)
    <3>1. Saves(a) \subseteq Saves(a)'
      BY <1>1, SavesKept
    <3>2. h \in All({"decide"})
      BY <2>3 DEF All
    <3>3. QED
      BY <1>2, <2>2, <2>4, <3>1, <3>2 DEF AgreesInv, Obeyed
  <2>5. CASE DecideRead(h)
    <3>1. /\ pc'[h] = IF DOMAIN call[h].copies = {} THEN "decide_store" ELSE "decide_row"
          /\ var'[h].todo = DOMAIN call[h].copies
      BY <1>1, <2>5 DEF DecideRead, Goto, Set, Save, TypeOK
    <3>2. QED
      BY <1>2, <2>2, <3>1 DEF Through
  <2>6. CASE DecideRow(h)
    <3>1. PICK b, sum, todo, new : b \in var[h].todo /\ todo = var[h].todo \ {b}
                   /\ Set(h, [sum |-> sum, todo |-> todo, id |-> b, row |-> new])
      BY <2>6 DEF DecideRow
    <3>2. var'[h].todo = var[h].todo \ {b} /\ var'[h].id = b
      BY <3>1 DEF Set, Save
    <3>3. pc[h] = "decide_row" /\ pc'[h] \in {"decide_make", "decide_save"}
              /\ attendance' = attendance
      BY <1>1, <2>6 DEF DecideRow, Goto, Own, TypeOK
    <3>4. Agrees(h, a)
      BY <1>2, <2>4, <3>2, <3>3 DEF Through
    <3>5. QED
      BY <2>2, <3>3, <3>4 DEF Agrees
  <2>7. CASE DecideMake(h)
    <3>1. PICK b, row : b = var[h].id /\ attendance' = Save(attendance, b, row)
      BY <2>7 DEF DecideMake, SaveRow
    <3>2. pc[h] = "decide_make" /\ pc'[h] = "decide_save" /\ var' = var
      BY <1>1, <2>7 DEF DecideMake, SaveRow, Goto, TypeOK
    <3>3. a # b /\ Agrees(h, a)
      BY <1>2, <2>4, <3>1, <3>2 DEF Through
    <3>4. QED
      BY <2>2, <3>1, <3>3 DEF Agrees, Save
  <2>8. CASE DecideSave(h)
    <3>1. PICK b, row : b = var[h].id /\ row = var[h].row /\ attendance' = Save(attendance, b, row)
      BY <2>8 DEF DecideSave, SaveRow
    <3>2. /\ pc[h] = "decide_save" /\ var' = var
          /\ pc'[h] = IF var[h].todo = {} THEN "decide_store" ELSE "decide_row"
      BY <1>1, <2>8 DEF DecideSave, SaveRow, Goto, TypeOK
    <3>3. CASE a = b
      <4>1. /\ row.entries = call[h].copies[b].entries
            /\ row.approved = (call[h].status = "approved")
        BY <2>2, <2>3, <3>1, <3>2 DEF Mine, Holds
      <4>2. b \in DOMAIN attendance' /\ attendance'[b] = row
        BY <3>1 DEF Save
      <4>3. QED
        BY <2>2, <3>3, <4>1, <4>2 DEF Agrees
    <3>4. CASE a # b
      <4>1. Agrees(h, a)
        BY <1>2, <2>4, <3>1, <3>2, <3>4 DEF Through
      <4>2. QED
        BY <2>2, <3>1, <3>4, <4>1 DEF Agrees, Save
    <3>5. QED
      BY <3>3, <3>4
  <2>9. CASE DecideStore(h)
    <3>1. pc[h] = "decide_store" /\ attendance' = attendance
      BY <2>9 DEF DecideStore, Goto
    <3>2. Agrees(h, a)
      BY <2>4, <3>1 DEF Through
    <3>3. QED
      BY <2>2, <3>1, <3>2 DEF Agrees
  <2>10. QED
    BY <2>1, <2>5, <2>6, <2>7, <2>8, <2>9
<1>3. QED
  BY <1>2 DEF Obeyed

(* The decisions on a summary: a decision is one when it has stored it. *)
LEMMA DecisionsNext ==
    ASSUME Good, NEW h \in Calls, Moves(h), NEW s
    PROVE  /\ \A d \in Decisions(s) : d # h /\ d \in DOMAIN call /\ call'[d] = call[d]
           /\ Decisions(s) \subseteq Decisions(s)'
           /\ Decisions(s)' \subseteq Decisions(s) \cup {h}
           /\ h \in Decisions(s)' => DecideStore(h) /\ call' = call /\ call[h].id = s
<1>1. Frame(h) /\ CallsInv /\ TypeOK
  BY StepEffects DEF Good
<1>2. \A d : d \in Decisions(s) <=> d \in DOMAIN call /\ Op(d) = "decide" /\ pc[d] = "done"
          /\ call[d].id = s
  BY DEF Decisions, Done, All
<1>3. \A d : d \in Decisions(s)' <=> d \in DOMAIN call' /\ Op(d)' = "decide"
          /\ pc'[d] = "done" /\ call'[d].id = s
  BY DEF Decisions, Done, All
<1>4. ASSUME NEW d \in Decisions(s)
      PROVE  d # h /\ d \in DOMAIN call /\ call'[d] = call[d] /\ d \in Decisions(s)'
  BY <1>1, <1>2, <1>3 DEF Frame, CallsInv, Op
<1>5. ASSUME NEW d \in Decisions(s)', d # h PROVE d \in Decisions(s)
  BY <1>1, <1>2, <1>3, <1>5 DEF Frame, CallsInv, Op
<1>6. ASSUME h \in Decisions(s)' PROVE DecideStore(h) /\ call' = call /\ call[h].id = s
  <2>1. Op(h)' = "decide" /\ pc'[h] = "done" /\ call'[h].id = s
    BY <1>3, <1>6
  <2>2. ClockSave(h) \/ LogSave(h) \/ LogInsert(h) \/ FileSave(h) \/ DecideStore(h) \/ DeleteAct(h)
    BY <1>1, <2>1, WhereTo
  <2>3. /\ pc[h] \in {"clock_save", "log_save", "log_insert", "file_save", "delete_act",
               "decide_store"}
        /\ call' = call /\ (pc[h] = "decide_store" => DecideStore(h))
    <3>1. CASE DecideStore(h)
      <4>1. pc[h] = "decide_store" /\ call' = call
        BY <3>1 DEF DecideStore, Goto
      <4>2. QED
        BY <3>1, <4>1
    <3>2. CASE ~DecideStore(h)
      BY <2>2, <3>2 DEF ClockSave, LogSave, LogInsert, FileSave, DeleteAct, SaveRow, Goto
    <3>3. QED
      BY <3>1, <3>2
  <2>4. Placed(h) /\ Op(h) = "decide"
    BY <2>1, <2>3, MineNow DEF InFlight, Mine, Op
  <2>5. QED
    BY <2>1, <2>3, <2>4 DEF Placed, Clock
<1>7. QED
  BY <1>4, <1>5, <1>6

LEMMA SettledNext ==
    ASSUME Good, AgreesInv, NEW h \in Calls, Moves(h), NEW s \in DOMAIN summary',
           summary'[s].status = "approved"
    PROVE  Settled(s)'
<1>1. Frame(h) /\ CallsInv /\ TypeOK
  BY StepEffects DEF Good
<1>2. CASE h \notin Decisions(s)' /\ s \in DOMAIN summary /\ summary'[s] = summary[s]
  <2>1. Settled(s) /\ Decisions(s)' = Decisions(s) /\ \A d \in Decisions(s) : call'[d] = call[d]
    <3>1. Settled(s)
      BY <1>2 DEF AgreesInv
    <3>2. /\ Decisions(s) \subseteq Decisions(s)' /\ Decisions(s)' \subseteq Decisions(s) \cup {h}
          /\ \A d \in Decisions(s) : call'[d] = call[d]
      BY DecisionsNext
    <3>3. QED
      BY <1>2, <3>1, <3>2
  <2>2. CASE \E d \in Decisions(s) : call[d].status = None
    BY <2>1, <2>2 DEF Settled
  <2>3. CASE ~\E d \in Decisions(s) : call[d].status = None
    <3>1. PICK d \in Decisions(s) :
            /\ call[d].status = "approved" /\ call[d].copies = summary[s].copies
            /\ \A o \in Decisions(s) \ {d} : d \in call[o].rest
      BY <2>1, <2>3 DEF Settled
    <3>2. /\ d \in Decisions(s)' /\ call'[d].status = "approved"
          /\ call'[d].copies = summary'[s].copies
          /\ \A o \in Decisions(s)' \ {d} : d \in call'[o].rest
      BY <1>2, <2>1, <3>1
    <3>3. QED
      BY <3>2 DEF Settled
  <2>4. QED
    BY <2>2, <2>3
<1>3. CASE FileSave(h)
  <2>1. PICK e, t, copies :
          summary' = Save(summary, t, [emp |-> e, status |-> "pending", copies |-> copies])
    BY <1>3 DEF FileSave
  <2>2. s # t /\ s \in DOMAIN summary /\ summary'[s] = summary[s]
    BY <2>1 DEF Save
  <2>3. h \notin Decisions(s)'
    <3>1. pc[h] = "file_save"
      BY <1>3 DEF FileSave
    <3>2. ~DecideStore(h)
      BY <3>1 DEF DecideStore, Goto
    <3>3. QED
      BY <3>2, DecisionsNext
  <2>4. QED
    BY <1>2, <2>2, <2>3
<1>4. CASE DecideStore(h)
  <2>1. PICK t, row : t = call[h].id /\ row = var[h].sum
    OBVIOUS
  <2>2. pc[h] = "decide_store" /\ call' = call /\ summary' = Save(summary, t, row)
        /\ pc'[h] = "done"
    BY <1>1, <1>4, <2>1 DEF DecideStore, Goto, TypeOK
  <2>3. h \in DOMAIN call /\ Mine(h) /\ Op(h) = "decide"
    BY <2>2, MineNow DEF InFlight, Op, Mine, Placed
  <2>4. CASE s # t
    <3>1. s \in DOMAIN summary /\ summary'[s] = summary[s]
      BY <2>2, <2>4 DEF Save
    <3>2. h \notin Decisions(s)'
      BY <2>1, <2>4, DecisionsNext
    <3>3. QED
      BY <1>2, <3>1, <3>2
  <2>5. CASE s = t
    <3>1. h \in Decisions(s)'
      BY <2>1, <2>2, <2>3, <2>5 DEF Decisions, Done, All, Op
    <3>2. CASE call[h].status = None
      BY <2>2, <3>1, <3>2 DEF Settled
    <3>3. CASE call[h].status # None
      <4>1. summary'[s] = row /\ row.copies = call[h].copies /\ row.status = call[h].status
        BY <2>1, <2>2, <2>3, <2>5, <3>3 DEF Save, Mine, Holds
      <4>2. ASSUME NEW o \in Decisions(s)', o # h PROVE h \in call'[o].rest
        <5>1. o \in DOMAIN call /\ call'[o] = call[o]
          BY <4>2, DecisionsNext
        <5>2. h \in Rest
          BY <2>2 DEF Rest
        <5>3. QED
          BY <1>1, <5>1, <5>2 DEF CallsInv
      <4>3. QED
        BY <2>2, <3>1, <4>1, <4>2 DEF Settled
    <3>4. QED
      BY <3>2, <3>3
  <2>6. QED
    BY <2>4, <2>5
<1>5. CASE ~FileSave(h) /\ ~DecideStore(h)
  BY <1>2, <1>5, SummaryUnchanged, DecisionsNext
<1>6. QED
  BY <1>3, <1>4, <1>5

LEMMA AgreesNext ==
    ASSUME Good, AgreesInv, NEW h \in Calls, Moves(h)
    PROVE  AgreesInv'
<1>1. Frame(h)
  BY StepEffects
<1>2. ASSUME NEW d \in All({"decide"})', call'[d].status # None PROVE Obeyed(d)'
  <2>1. d \in DOMAIN call' /\ Op(d)' = "decide"
    BY DEF All
  <2>2. CASE d = h
    BY <1>2, <2>1, <2>2, MineObeys
  <2>3. CASE d # h
    <3>1. d \in All({"decide"}) /\ call'[d] = call[d]
      BY <1>1, <2>1, <2>3 DEF All, Op, Frame
    <3>2. QED
      BY <1>2, <2>3, <3>1, OthersObey
  <2>4. QED
    BY <2>2, <2>3
<1>3. QED
  BY <1>2, SettledNext DEF AgreesInv

-----------------------------------------------------------------------------
(* At the start no call has begun, and the rows that are known are there.  *)
LEMMA InitHolds ==
    ASSUME Init, WeekAssumption
    PROVE  IInv
<1>1. /\ DOMAIN attendance = Known /\ DOMAIN summary = {} /\ DOMAIN call = {}
      /\ DOMAIN var = {} /\ DOMAIN missed = {} /\ crossed = {} /\ pc = [h \in Calls |-> "idle"]
      /\ \A k \in Known : attendance[k] = [emp |-> Of[k], day |-> On[k], approved |-> FALSE,
                                           entries |-> {}]
  BY DEF Init, NoRows
<1>2. All({"decide"}) = {} /\ \A ops : Done(ops) = {}
  BY <1>1 DEF All, Done
<1>3. \A k \in Known : Had(k) /\ Fits(k, attendance[k])
  <2>1. ASSUME NEW k \in Known PROVE Had(k) /\ Fits(k, attendance[k])
    <3>1. Of[k] \in Employees /\ On[k] \in Days
      BY DEF WeekAssumption
    <3>2. attendance[k] \in Row
      <4>1. [emp |-> Of[k], day |-> On[k], approved |-> FALSE, entries |-> {}] \in Row
        BY <3>1 DEF Row
      <4>2. attendance[k] = [emp |-> Of[k], day |-> On[k], approved |-> FALSE, entries |-> {}]
        BY <1>1
      <4>3. QED
        BY <4>1, <4>2
    <3>3. <<attendance[k].emp, attendance[k].day>> = Whose(k)
      BY <1>1 DEF Whose
    <3>4. QED
      BY <1>1, <3>2, <3>3 DEF Had, Fits
  <2>2. QED
    BY <2>1
<1>4. TypeOK
  <2>1. attendance \in [Known -> Row]
    BY <1>3 DEF Init, Fits
  <2>2. pc \in [Calls -> Steps]
    BY <1>1 DEF Steps
  <2>3. missed \in [DOMAIN missed -> SUBSET Calls]
    BY <1>1 DEF Init, NoRows
  <2>4. QED
    BY <1>1, <2>1, <2>2, <2>3 DEF TypeOK, IsTable, RowIds
<1>5. CallsInv
  BY <1>1 DEF CallsInv, InFlight
<1>6. RowsInv
  BY <1>1, <1>3 DEF RowsInv
<1>7. OpenInv
  BY <1>1 DEF OpenInv
<1>8. Apart
  BY <1>1 DEF Apart, Whose, WeekAssumption
<1>9. StaysInv
  BY <1>1, <1>2 DEF StaysInv
<1>10. AgreesInv
  BY <1>1, <1>2 DEF AgreesInv
<1>11. QED
  BY <1>4, <1>5, <1>6, <1>7, <1>8, <1>9, <1>10 DEF IInv

LEMMA StepHolds ==
    ASSUME IInv, [Next]_vars
    PROVE  IInv'
<1>1. CASE Next
  <2>1. PICK h \in Calls : Moves(h)
    BY <1>1 DEF Next, Moves
  <2>2. Good /\ Apart /\ StaysInv /\ AgreesInv
    BY DEF IInv, Good
  <2>3. QED
    BY <2>1, <2>2, TypeNext, CallsNext, RowsNext, OpenNext, ApartNext, StaysNext, AgreesNext
       DEF IInv
<1>2. CASE UNCHANGED vars
  <2>1. /\ attendance' = attendance /\ summary' = summary /\ pc' = pc /\ call' = call
        /\ var' = var /\ crossed' = crossed /\ missed' = missed
    BY <1>2 DEF vars
  <2>2. TypeOK' /\ CallsInv'
    BY <2>1 DEF IInv, TypeOK, CallsInv, Rest, Placed, Op
  <2>3. /\ \A a, row : /\ Had(a)' = Had(a) /\ Deleted(a)' = Deleted(a) /\ Whose(a)' = Whose(a)
                     /\ Fits(a, row)' = Fits(a, row) /\ AllFit(a, row)' = AllFit(a, row)
        /\ \A h : RowOf(h)' = RowOf(h) /\ Op(h)' = Op(h)
    BY <2>1 DEF Had, Deleted, Whose, Fits, AllFit, All, Op, RowOf
  <2>4. RowsInv'
    <3>1. \A s \in DOMAIN summary : Filed(s)'
      BY <2>1, <2>3 DEF IInv, RowsInv, Filed
    <3>2. \A h \in DOMAIN call : Brings(h)'
      BY <2>1, <2>3 DEF IInv, RowsInv, Brings
    <3>3. \A h \in DOMAIN call : Holds(h)'
      BY <2>1, <2>3 DEF IInv, RowsInv, Holds
    <3>4. (\A a \in DOMAIN attendance : Had(a) /\ Fits(a, attendance[a]))'
      BY <2>1 DEF IInv, RowsInv, Had, Fits, Deleted, Whose, All, Op
    <3>5. QED
      BY <2>1, <3>1, <3>2, <3>3, <3>4 DEF RowsInv
  <2>5. OpenInv' /\ Apart'
    BY <2>1, <2>3 DEF IInv, OpenInv, Opens, Begins, Apart
  <2>6. /\ \A a, x, copies : Lost(x, a)' = Lost(x, a) /\ Copy(copies, x, a)' = Copy(copies, x, a)
        /\ \A ops : Done(ops)' = Done(ops) /\ All(ops)' = All(ops)
    BY <2>1 DEF Lost, Copy, Saves, Touches, Missed, Deleted, Done, All, Op
  <2>7. StaysInv'
    BY <2>1, <2>3, <2>6 DEF IInv, StaysInv, Stays, Keeps
  <2>8. AgreesInv'
    BY <2>1 DEF IInv, AgreesInv, Obeyed, Through, Agrees, Saves, Touches, Settled, Decisions, Done,
                All, Op
  <2>9. QED
    BY <2>1, <2>2, <2>4, <2>5, <2>7, <2>8 DEF IInv
<1>3. QED
  BY <1>1, <1>2

LEMMA OneOfEachHolds ==
    ASSUME IInv
    PROVE  OneOfEach
<1>1. RowsInv /\ Apart
  BY DEF IInv
<1>2. ASSUME NEW a \in DOMAIN attendance, NEW b \in DOMAIN attendance, a # b,
             attendance[a].emp = attendance[b].emp, attendance[a].day = attendance[b].day
      PROVE  {a, b} \in crossed \/ \E d \in Touches(a) \cup Touches(b) : Op(d) = "delete"
  <2>1. Whose(a) = Whose(b)
    BY <1>1, <1>2, RowSays
  <2>2. {a, b} \in crossed \/ Deleted(a) \/ Deleted(b)
    BY <1>1, <1>2, <2>1 DEF Apart
  <2>3. \A c : Deleted(c) => \E d \in Touches(c) : Op(d) = "delete"
    BY DEF Deleted, Touches, All
  <2>4. QED
    BY <2>2, <2>3
<1>3. QED
  BY <1>1, <1>2 DEF Apart, OneOfEach

LEMMA TimeStaysHolds ==
    ASSUME IInv
    PROVE  TimeStays
<1>1. ASSUME NEW x \in Done({"post", "clockIn", "log"}), NEW a, a = RowOf(x)
      PROVE  \/ a \in DOMAIN attendance /\ \E e \in attendance[a].entries : e.by = x
             \/ \E d \in Touches(a) : Op(d) = "delete"
             \/ \E o \in Done({"clockOut"}) : x \in var[o].out
             \/ \E h \in Touches(a) \ {x} : {h, x} \in crossed
             \/ \E d \in Touches(a), f \in DOMAIN missed : Op(d) = "decide" /\ x \in missed[f]
  <2>1. (a \in DOMAIN attendance /\ Has(attendance[a].entries, x)) \/ Lost(x, a)
    BY <1>1 DEF IInv, StaysInv, Stays
  <2>2. CASE a \in DOMAIN attendance /\ Has(attendance[a].entries, x)
    BY <2>2 DEF Has
  <2>3. CASE Deleted(a)
    BY <2>3 DEF Deleted, Touches, All
  <2>4. CASE \E h \in Saves(a) \ {x} : {h, x} \in crossed
    BY <2>4 DEF Saves
  <2>5. CASE x \in Missed /\ \E d \in All({"decide"}) : a \in DOMAIN call[d].copies
    <3>1. PICK d \in All({"decide"}) : a \in DOMAIN call[d].copies
      BY <2>5
    <3>2. d \in Touches(a) /\ Op(d) = "decide"
      BY <3>1 DEF Touches, All
    <3>3. PICK f \in DOMAIN missed : x \in missed[f]
      BY <2>5 DEF Missed
    <3>4. QED
      BY <3>2, <3>3
  <2>6. QED
    BY <2>1, <2>2, <2>3, <2>4, <2>5 DEF Lost
<1>2. QED
  BY <1>1 DEF TimeStays

LEMMA SummaryAgreesHolds ==
    ASSUME IInv
    PROVE  SummaryAgrees
<1>1. ASSUME NEW s \in DOMAIN summary, summary[s].status = "approved",
             NEW a \in DOMAIN summary[s].copies,
             ~\E d \in Decisions(s) : call[d].status = None,
             NEW n \in Decisions(s), (Touches(a) \ {n}) \cap call[n].rest = {}
      PROVE  /\ a \in DOMAIN attendance /\ attendance[a].approved
             /\ attendance[a].entries = summary[s].copies[a].entries
  <2>1. PICK d \in Decisions(s) :
          /\ call[d].status = "approved" /\ call[d].copies = summary[s].copies
          /\ \A o \in Decisions(s) \ {d} : d \in call[o].rest
    BY <1>1 DEF IInv, AgreesInv, Settled
  <2>2. d \in All({"decide"}) /\ pc[d] = "done" /\ a \in DOMAIN call[d].copies
    BY <1>1, <2>1 DEF Decisions, Done
  <2>3. d \in Touches(a) /\ Saves(a) \subseteq Touches(a)
    BY <2>2 DEF Touches, Saves
  <2>4. d = n
    BY <1>1, <2>1, <2>3
  <2>5. (Saves(a) \ {d}) \cap call[d].rest = {}
    BY <1>1, <2>3, <2>4
  <2>6. Obeyed(d)
    BY <2>1, <2>2 DEF IInv, AgreesInv, None
  <2>7. Agrees(d, a)
    BY <2>2, <2>5, <2>6 DEF Obeyed, Through
  <2>8. QED
    BY <2>1, <2>7 DEF Agrees
<1>2. QED
  BY <1>1 DEF SummaryAgrees, Decisions

-----------------------------------------------------------------------------
(* The inductive invariant holds in every reachable state: calls know what *)
(* was done before them, an id says whose a row is, and whatever is        *)
(* missing, doubled or does not agree has its reason.                      *)
THEOREM WeeksInductive == Spec => []IInv
<1>1. Init => IInv
  BY InitHolds, WeekAssumption
<1>2. IInv /\ [Next]_vars => IInv'
  BY StepHolds
<1>3. QED
  BY <1>1, <1>2, PTL DEF Spec

(* The tables and the locals of the handlers of attendance and its weekly  *)
(* summaries keep their types.                                             *)
THEOREM WeeksTypeCorrect == Spec => []TypeOK
<1>1. IInv => TypeOK
  BY DEF IInv
<1>2. QED
  BY <1>1, WeeksInductive, PTL

(* Whatever interleaves and fails, an employee has one row a day and one   *)
(* summary a week, but for the calls that OneOfEach names.                 *)
THEOREM WeeksOneOfEach == Spec => []OneOfEach
  BY OneOfEachHolds, WeeksInductive, PTL

(* Time that a call has recorded on a row of attendance, and answered, is  *)
(* lost only in the ways that TimeStays names.                             *)
THEOREM WeeksTimeStays == Spec => []TimeStays
  BY TimeStaysHolds, WeeksInductive, PTL

(* While a summary is approved, the rows it has copied are approved and as *)
(* it copied them, but for the calls that SummaryAgrees names.             *)
THEOREM WeeksSummaryAgrees == Spec => []SummaryAgrees
  BY SummaryAgreesHolds, WeeksInductive, PTL

-----------------------------------------------------------------------------
(* The clock. *)

(* Of some natural numbers one is the least, and so of some shifts one is  *)
(* the first.                                                              *)
LEMMA Least ==
    ASSUME NEW T, T \subseteq Nat, T # {}
    PROVE  \E m \in T : \A n \in T : m <= n
<1> DEFINE R == OpToRel(<, Nat)
<1>1. IsWellFoundedOn(R, Nat)
  BY NatLessThanWellFounded
<1>2. PICK m \in T : \A n \in T : <<n, m>> \notin R
  <2> HIDE DEF R
  <2> QED
    BY <1>1, WFMin
<1>3. \A n \in T : ~(n < m)
  BY <1>2 DEF OpToRel
<1> HIDE DEF R
<1>4. QED
  BY <1>2, <1>3

LEMMA FirstIsDue ==
    ASSUME NEW due, due \subseteq C!ShiftRow, due # {}
    PROVE  C!First(due) \in due /\ \A o \in due : C!First(due).start <= o.start
<1> DEFINE T == {s.start : s \in due}
<1>1. T \subseteq Nat /\ T # {}
  BY ClockAssumption DEF C!ShiftRow, C!Minutes
<1>2. PICK m \in T : \A n \in T : m <= n
  BY <1>1, Least
<1>3. \E s \in due : \A o \in due : s.start <= o.start
  BY <1>2
<1>4. QED
  BY <1>3 DEF C!First

(* On day 0 the time of day is the clock's.                                *)
LEMMA TimesOfDay ==
    ASSUME NEW t \in Instants
    PROVE  t \in Nat /\ Day \in Nat /\ C!TimeOfDay(t) \in C!Minutes
               /\ (t < Day => C!TimeOfDay(t) = t)
  BY ClockAssumption DEF C!TimeOfDay, C!Minutes

-----------------------------------------------------------------------------
(* The lists that the handlers make of a list of entries.                  *)
Hour == C!Minutes \cup {C!Undefined}

LEMMA NewEntryType ==
    ASSUME NEW in \in Hour, NEW out \in Hour, NEW overtime \in BOOLEAN
    PROVE  C!NewEntry(in, out, overtime) \in C!Entry
  BY DEF C!NewEntry, C!Entry, Hour

LEMMA ClosedEntries ==
    ASSUME NEW entries \in Seq(C!Entry), NEW i \in DOMAIN entries, NEW now \in C!Minutes
    PROVE  /\ C!Closed(entries, i, now) \in Seq(C!Entry)
           /\ DOMAIN C!Closed(entries, i, now) = DOMAIN entries
           /\ C!Closed(entries, i, now)[i] =
                [clockIn |-> entries[i].clockIn, clockOut |-> now, ongoing |-> FALSE,
                 isOvertime |-> entries[i].isOvertime]
           /\ \A j \in DOMAIN entries : j # i => C!Closed(entries, i, now)[j] = entries[j]
<1>1. entries[i] \in C!Entry
  OBVIOUS
<1>2. C!Closed(entries, i, now)[i] =
        [clockIn |-> entries[i].clockIn, clockOut |-> now, ongoing |-> FALSE,
         isOvertime |-> entries[i].isOvertime]
  BY <1>1 DEF C!Closed, C!Entry
<1>3. C!Closed(entries, i, now)[i] \in C!Entry
  BY <1>1, <1>2 DEF C!Entry
<1> DEFINE c == C!Closed(entries, i, now)
<1>4. DOMAIN c = DOMAIN entries /\ \A j \in DOMAIN entries : j # i => c[j] = entries[j]
  BY DEF C!Closed
<1>5. c = [j \in 1 .. Len(entries) |-> c[j]] /\ Len(entries) \in Nat
  BY DEF C!Closed
<1>6. c \in Seq(C!Entry)
  <2>1. \A j \in 1 .. Len(entries) : c[j] \in C!Entry
    BY <1>3, <1>4
  <2> HIDE DEF c
  <2>2. QED
    BY <1>5, <2>1
<1>7. QED
  BY <1>2, <1>4, <1>6

LEMMA AppendedEntries ==
    ASSUME NEW entries \in Seq(C!Entry), NEW e \in C!Entry
    PROVE  /\ Append(entries, e) \in Seq(C!Entry)
           /\ DOMAIN Append(entries, e) = DOMAIN entries \cup {Len(entries) + 1}
           /\ Len(entries) + 1 \notin DOMAIN entries
           /\ Append(entries, e)[Len(entries) + 1] = e
           /\ \A j \in DOMAIN entries : Append(entries, e)[j] = entries[j]
  OBVIOUS

LEMMA RemovedEntries ==
    ASSUME NEW entries \in Seq(C!Entry), NEW i \in DOMAIN entries
    PROVE  /\ C!RemoveAt(entries, i) \in Seq(C!Entry)
           /\ \A j \in DOMAIN C!RemoveAt(entries, i) :
                \E k \in DOMAIN entries :
                  /\ C!RemoveAt(entries, i)[j] = entries[k]
                  /\ k = IF j < i THEN j ELSE j + 1
<1>1. i \in 1 .. Len(entries) /\ Len(entries) \in Nat
  OBVIOUS
<1> DEFINE a == SubSeq(entries, 1, i - 1)
           b == SubSeq(entries, i + 1, Len(entries))
<1>2. a \in Seq(C!Entry) /\ Len(a) = i - 1 /\ \A j \in 1 .. i - 1 : a[j] = entries[j]
  BY <1>1
<1>3. /\ b \in Seq(C!Entry) /\ Len(b) = Len(entries) - i
      /\ \A j \in 1 .. Len(entries) - i : b[j] = entries[i + j]
  BY <1>1
<1>4. C!RemoveAt(entries, i) = a \o b
  BY DEF C!RemoveAt
<1> HIDE DEF a, b
<1>5. /\ a \o b \in Seq(C!Entry) /\ Len(a \o b) = Len(entries) - 1
      /\ \A j \in 1 .. Len(entries) - 1 : (a \o b)[j] = IF j < i THEN a[j] ELSE b[j - (i - 1)]
  <2>1. /\ a \o b \in Seq(C!Entry) /\ Len(a \o b) = Len(a) + Len(b)
        /\ \A j \in 1 .. Len(a) + Len(b) :
             (a \o b)[j] = IF j <= Len(a) THEN a[j] ELSE b[j - Len(a)]
    BY <1>2, <1>3, ConcatProperties
  <2>2. Len(a) + Len(b) = Len(entries) - 1 /\ \A j \in Int : j <= Len(a) <=> j < i
    BY <1>1, <1>2, <1>3
  <2>3. QED
    BY <1>1, <1>2, <2>1, <2>2
<1>6. \A j \in 1 .. Len(entries) - 1 : (a \o b)[j] = IF j < i THEN entries[j] ELSE entries[j + 1]
  <2> TAKE j \in 1 .. Len(entries) - 1
  <2>1. CASE j < i
    BY <1>1, <1>2, <1>5, <2>1
  <2>2. CASE ~(j < i)
    <3>1. j - (i - 1) \in 1 .. Len(entries) - i /\ i + (j - (i - 1)) = j + 1
      BY <1>1, <2>2
    <3>2. QED
      BY <1>1, <1>3, <1>5, <2>2, <3>1
  <2>3. QED
    BY <2>1, <2>2
<1>7. DOMAIN (a \o b) = 1 .. Len(entries) - 1 /\ DOMAIN entries = 1 .. Len(entries)
  BY <1>1, <1>5
<1>8. QED
  BY <1>1, <1>4, <1>5, <1>6, <1>7

-----------------------------------------------------------------------------
(* What keeps a list of entries in order.                                  *)
LEMMA EntryFields ==
    ASSUME NEW entries \in Seq(C!Entry), NEW i \in DOMAIN entries
    PROVE  /\ entries[i] \in C!Entry /\ entries[i].clockIn \in Int /\ entries[i].clockOut \in Int
           /\ entries[i].clockIn # C!Undefined => entries[i].clockIn \in C!Minutes
           /\ entries[i].ongoing \in BOOLEAN /\ entries[i].isOvertime \in BOOLEAN
<1>1. entries[i] \in C!Entry
  OBVIOUS
<1>2. C!Minutes \subseteq Int /\ C!Undefined \in Int
  BY ClockAssumption DEF C!Minutes, C!Undefined
<1>3. QED
  BY <1>1, <1>2 DEF C!Entry

LEMMA LaterOrderly ==
    ASSUME NEW entries \in Seq(C!Entry), NEW t \in Int, NEW u \in Int, t <= u, C!Orderly(entries, t)
    PROVE  C!Orderly(entries, u)
  BY EntryFields DEF C!Orderly

(* The entry that is ongoing in an orderly list is the only one.           *)
LEMMA OnlyOngoing ==
    ASSUME NEW entries, NEW t, C!Orderly(entries, t), NEW i \in DOMAIN entries, entries[i].ongoing
    PROVE  /\ \A j \in DOMAIN entries : j # i => ~entries[j].ongoing
           /\ \A j \in DOMAIN entries : j # i => entries[j].clockOut <= entries[i].clockIn
  BY DEF C!Orderly

LEMMA NothingOngoing ==
    ASSUME NEW entries \in Seq(C!Entry), NEW t, C!Orderly(entries, t), C!Ongoing(entries) = {}
    PROVE  \A i \in DOMAIN entries : ~entries[i].ongoing
<1>1. SUFFICES ASSUME NEW i \in DOMAIN entries, entries[i].ongoing PROVE i \in C!Ongoing(entries)
  OBVIOUS
<1>2. \A j \in 1 .. i - 1 : j \in DOMAIN entries /\ j # i
  OBVIOUS
<1>3. QED
  BY <1>1, <1>2, OnlyOngoing DEF C!Ongoing

LEMMA ClosedOrderly ==
    ASSUME NEW entries \in Seq(C!Entry), NEW t \in Int, C!Orderly(entries, t),
           NEW i \in DOMAIN entries, entries[i].ongoing,
           NEW out \in C!Minutes, entries[i].clockIn <= out, out <= t
    PROVE  /\ C!Orderly(C!Closed(entries, i, out), t)
           /\ \A j \in DOMAIN entries : /\ ~C!Closed(entries, i, out)[j].ongoing
                                        /\ C!Closed(entries, i, out)[j].clockOut <= out
<1> DEFINE c == C!Closed(entries, i, out)
<1>1. /\ DOMAIN c = DOMAIN entries
      /\ c[i].clockIn = entries[i].clockIn /\ c[i].clockOut = out /\ c[i].ongoing = FALSE
      /\ \A j \in DOMAIN entries : j # i => c[j] = entries[j]
  <2>1. /\ DOMAIN c = DOMAIN entries /\ \A j \in DOMAIN entries : j # i => c[j] = entries[j]
        /\ c[i] = [clockIn |-> entries[i].clockIn, clockOut |-> out, ongoing |-> FALSE,
                   isOvertime |-> entries[i].isOvertime]
    BY ClosedEntries
  <2> HIDE DEF c
  <2>2. QED
    BY <2>1
<1> HIDE DEF c
<1>2. \A j \in DOMAIN entries : j # i => ~entries[j].ongoing
          /\ entries[j].clockOut <= entries[i].clockIn
  BY OnlyOngoing
<1>3. \A j \in DOMAIN entries : entries[j].clockIn \in Int /\ entries[j].clockOut \in Int
  BY EntryFields
<1>4. out \in Int
  BY ClockAssumption DEF C!Minutes
<1>5. \A j \in DOMAIN c : ~c[j].ongoing /\ c[j].clockOut <= out
  BY <1>1, <1>2, <1>3, <1>4
<1>6. C!Orderly(c, t)
  BY <1>1, <1>2, <1>3, <1>4 DEF C!Orderly
<1>7. QED
  BY <1>1, <1>5, <1>6 DEF c

LEMMA AppendedOrderly ==
    ASSUME NEW entries \in Seq(C!Entry), NEW t \in Int, C!Orderly(entries, t),
           NEW e \in C!Entry, e.clockIn # C!Undefined,
           e.ongoing \/ (e.clockIn <= e.clockOut /\ e.clockOut <= t),
           \A j \in DOMAIN entries : ~entries[j].ongoing /\ entries[j].clockOut <= e.clockIn
    PROVE  C!Orderly(Append(entries, e), t)
<1> DEFINE a == Append(entries, e)
           n == Len(entries) + 1
<1>1. /\ DOMAIN a = DOMAIN entries \cup {n} /\ n \notin DOMAIN entries
      /\ a[n] = e /\ \A j \in DOMAIN entries : a[j] = entries[j]
  BY AppendedEntries
<1> HIDE DEF a, n
<1>2. C!Orderly(a, t)
  BY <1>1 DEF C!Orderly
<1>3. QED
  BY <1>2 DEF a

LEMMA RemovedOrderly ==
    ASSUME NEW entries \in Seq(C!Entry), NEW t \in Int,
               C!Orderly(entries, t), NEW i \in DOMAIN entries
    PROVE  C!Orderly(C!RemoveAt(entries, i), t)
<1> DEFINE r == C!RemoveAt(entries, i)
           k(j) == IF j < i THEN j ELSE j + 1
<1>1. \A j \in DOMAIN r : k(j) \in DOMAIN entries /\ r[j] = entries[k(j)]
  BY RemovedEntries
<1>2. r \in Seq(C!Entry) /\ i \in Int
  BY RemovedEntries
<1>3. DOMAIN r \subseteq Int
  BY <1>2
<1> HIDE DEF r
<1>4. \A j, l \in DOMAIN r : j # l => k(j) # k(l)
  BY <1>2, <1>3
<1> HIDE DEF k
<1>5. C!Orderly(r, t)
  BY <1>1, <1>4 DEF C!Orderly
<1>6. QED
  BY <1>5 DEF r

-----------------------------------------------------------------------------
(* What a clock call makes of the row it reads: the list stays in order,   *)
(* and a clock-out records the ongoing time, with the exceptions that      *)
(* EntriesDisjoint and WorkIsKept name.                                    *)
Reads(h, on, isOnline, entries, causes) ==
    /\ C!ToSave(h, on, isOnline, entries, causes)
    /\ on \in BOOLEAN /\ isOnline \in BOOLEAN /\ entries \in Seq(C!Entry)
        /\ causes \subseteq C!Cause
    /\ causes \cap C!Doubling = {} /\ clockCall[h].at < Day
        /\ C!Orderly(dayRow.entries, clockCall[h].at) =>
         C!Orderly(entries, clockCall[h].at)
    /\ clockCall[h].op = "clockOut" /\ clockCall[h].at < Day /\ "nextShift" \notin causes =>
         C!Records(entries, clockCall[h].at)

(* A call that clocks, and the row it finds                                *)
LEMMA Clocks ==
    ASSUME C!TypeOK, C!CallsInv, NEW h \in Calls, clockPc[h] = "clock_read"
    PROVE  /\ h \in DOMAIN clockCall /\ clockCall[h].op \in {"clockIn", "clockOut"}
               /\ clockCall[h].on \in BOOLEAN
           /\ clockCall[h].at \in Instants /\ dayRow.isOnline \in BOOLEAN
               /\ dayRow.entries \in Seq(C!Entry)
  BY DEF C!TypeOK, C!CallsInv, C!InFlight, C!Clocking, C!Row

LEMMA ClockInReads ==
    ASSUME C!TypeOK, C!CallsInv, NEW h \in Calls, C!ClockIn(h)
    PROVE  \E on, isOnline, entries, causes : Reads(h, on, isOnline, entries, causes)
<1> DEFINE k == clockCall[h]
           now == C!TimeOfDay(k.at)
           old == dayRow.entries
<1>1. /\ clockPc[h] = "clock_read" /\ k.op = "clockIn" /\ k.at \in Instants /\ old \in Seq(C!Entry)
      /\ now \in C!Minutes /\ k.at \in Nat /\ (k.at < Day => now = k.at)
  BY Clocks, TimesOfDay DEF C!ClockIn
<1>2. PICK p \in Policies, roster \in Rosters :
        LET due == C!Due(roster, k.at) IN
        /\ C!MayClockIn(p, old, due, now)
        /\ C!ToSave(h, TRUE, TRUE, C!ClockedIn(p, old, due, now),
            {c \in {"again"} : C!Ongoing(old) # {}})
  BY DEF C!ClockIn
<1> DEFINE due == C!Due(roster, k.at)
           hour == C!ClockInHour(old, due, now)
           over == C!BreakOver(old, due, now)
           late == C!Overtime(p, due, now)
           ended == IF over # {} THEN C!Closed(old, CHOOSE i \in over : TRUE, now) ELSE old
           e == C!NewEntry(hour, C!Undefined, late)
<1>3. due \subseteq C!ShiftRow /\ (due # {} => C!First(due) \in C!ShiftRow /\ C!First(due) \in due)
  <2>1. due \subseteq C!ShiftRow
    BY ClockAssumption DEF C!Due
  <2>2. QED
    BY <2>1, FirstIsDue
<1>4. \A s \in due : s.end > now /\ s.start \in C!Minutes /\ s.end \in C!Minutes
  BY <1>3 DEF C!Due, C!ShiftRow
<1>5. hour \in Hour /\ late \in BOOLEAN
  <2>1. hour \in Hour
    BY <1>1, <1>3, <1>4 DEF C!ClockInHour, Hour
  <2>2. late \in BOOLEAN
    BY <1>3, ClockAssumption DEF C!Overtime, C!ShiftRow, C!Policy
  <2>3. QED
    BY <2>1, <2>2
<1>6. e \in C!Entry /\ e.clockIn = hour /\ e.ongoing
  BY <1>5, NewEntryType DEF C!NewEntry, Hour
<1>7. ended \in Seq(C!Entry)
  <2>1. ASSUME over # {} PROVE (CHOOSE i \in over : TRUE) \in DOMAIN old
    BY <2>1 DEF C!BreakOver, C!Ongoing
  <2>2. QED
    BY <1>1, <2>1, ClosedEntries
<1>8. C!ClockedIn(p, old, due, now) = Append(ended, e)
  BY DEF C!ClockedIn
<1> DEFINE new == Append(ended, e)
           causes == {c \in {"again"} : C!Ongoing(old) # {}}
<1>9. new \in Seq(C!Entry)
  BY <1>6, <1>7, AppendedEntries
<1>10. ASSUME causes \cap C!Doubling = {}, k.at < Day, C!Orderly(old, k.at)
       PROVE  C!Orderly(new, k.at)
  <2>1. C!Ongoing(old) = {}
    BY <1>10 DEF C!Doubling
  <2>2. over = {} /\ ended = old
    BY <2>1 DEF C!BreakOver
  <2>3. hour \in C!Minutes /\ hour >= now
    <3>1. CASE due = {}
      <4>1. hour = now
        BY <3>1 DEF C!ClockInHour
      <4>2. QED
        BY <1>1, <4>1, ClockAssumption DEF C!Minutes
    <3>2. CASE due # {} /\ C!Current(due, now) = {}
      <4>1. hour = C!First(due).start
        BY <3>2 DEF C!ClockInHour
      <4>2. ~(C!First(due).start <= now /\ now <= C!First(due).end) /\ C!First(due).end > now
        BY <1>3, <1>4, <3>2 DEF C!Current
      <4>3. QED
        BY <1>1, <1>3, <1>4, <3>2, <4>1, <4>2, ClockAssumption DEF C!Minutes
    <3>3. CASE due # {} /\ C!Current(due, now) # {}
      <4>1. hour = now
        BY <2>1, <3>3 DEF C!ClockInHour, C!AtBreak
      <4>2. QED
        BY <1>1, <4>1, ClockAssumption DEF C!Minutes
    <3>4. QED
      BY <3>1, <3>2, <3>3
  <2>4. \A j \in DOMAIN old : ~old[j].ongoing /\ old[j].clockOut <= hour
    <3>1. \A j \in DOMAIN old : ~old[j].ongoing /\ old[j].clockOut <= k.at
      BY <1>1, <1>10, <2>1, NothingOngoing DEF C!Orderly
    <3>2. \A j \in DOMAIN old : old[j].clockOut \in Int
      BY <1>1, EntryFields
    <3>3. QED
      BY <1>1, <1>10, <2>3, <3>1, <3>2, ClockAssumption DEF C!Minutes
  <2>5. hour # C!Undefined
    BY <2>3, ClockAssumption DEF C!Minutes, C!Undefined
  <2> HIDE DEF e, hour, old, ended, k
  <2>6. C!Orderly(Append(old, e), k.at)
    BY <1>1, <1>6, <1>10, <2>4, <2>5, AppendedOrderly
  <2>7. QED
    BY <2>2, <2>6
<1>11. C!ToSave(h, TRUE, TRUE, new, causes) /\ causes \subseteq C!Cause
  BY <1>2, <1>8 DEF C!Cause
<1> HIDE DEF new, causes
<1>12. Reads(h, TRUE, TRUE, new, causes)
  BY <1>1, <1>9, <1>10, <1>11 DEF Reads
<1>13. QED
  BY <1>12

(* The minutes that an entry records, from and to hours of the day         *)
LEMMA MinutesOf ==
    ASSUME NEW e \in C!Entry, ~e.ongoing, NEW m \in Int, e.clockIn \in C!Minutes,
               e.clockOut \in C!Minutes,
           e.clockIn <= m, m < e.clockOut
    PROVE  m \in C!Minute(e)
  BY ClockAssumption DEF C!Minute, C!Minutes

(* Closing the ongoing entry now records the time since its clock-in.      *)
LEMMA ClosingRecords ==
    ASSUME NEW entries \in Seq(C!Entry), NEW i \in DOMAIN entries, NEW now \in C!Minutes,
           entries[i].clockIn \in C!Minutes, NEW m \in Int, entries[i].clockIn <= m, m < now
    PROVE  \E e \in C!Range(C!Closed(entries, i, now)) : m \in C!Minute(e)
<1> DEFINE c == C!Closed(entries, i, now)
<1>1. c \in Seq(C!Entry) /\ i \in DOMAIN c
  BY ClosedEntries
<1>2. c[i] \in C!Entry
  BY <1>1
<1>3. ~c[i].ongoing /\ c[i].clockIn = entries[i].clockIn /\ c[i].clockOut = now
  <2>1. c[i] = [clockIn |-> entries[i].clockIn, clockOut |-> now, ongoing |-> FALSE,
                isOvertime |-> entries[i].isOvertime]
    BY ClosedEntries
  <2> HIDE DEF c
  <2>2. QED
    BY <2>1
<1> HIDE DEF c
<1>4. m \in C!Minute(c[i])
  BY <1>2, <1>3, MinutesOf
<1>5. c[i] \in C!Range(c)
  BY <1>1 DEF C!Range
<1>6. QED
  BY <1>4, <1>5 DEF c

(* There is but one first ongoing entry.                                   *)
LEMMA OneOngoing ==
    ASSUME NEW entries \in Seq(C!Entry), NEW i \in C!Ongoing(entries), NEW j \in C!Ongoing(entries)
    PROVE  i = j
<1>1. i \in 1 .. Len(entries) /\ j \in 1 .. Len(entries)
  BY DEF C!Ongoing
<1>2. QED
  BY <1>1 DEF C!Ongoing

LEMMA RosteredReads ==
    ASSUME C!TypeOK, C!CallsInv, NEW h \in Calls, C!ClockOutRostered(h)
    PROVE  \E on, isOnline, entries, causes : Reads(h, on, isOnline, entries, causes)
<1> DEFINE k == clockCall[h]
           now == C!TimeOfDay(k.at)
           old == dayRow.entries
<1>1. /\ clockPc[h] = "clock_read" /\ k.op = "clockOut" /\ k.at \in Instants /\ old \in Seq(C!Entry)
      /\ now \in C!Minutes /\ k.at \in Nat /\ (k.at < Day => now = k.at)
      /\ k.on \in BOOLEAN /\ dayRow.isOnline \in BOOLEAN
  BY Clocks, TimesOfDay DEF C!ClockOutRostered
<1>2. PICK p \in Policies, roster \in Rosters, i \in C!Ongoing(old) :
        LET due  == C!Due(roster, k.at)
            in   == old[i].clockIn
            kept == {s \in due : in # C!Undefined /\ in <= s.end} IN
        \/ /\ kept = {} /\ due # {}
           /\ C!ToSave(h, k.on, dayRow.isOnline, old, C!Ahead(in, now))
        \/ /\ kept # {} /\ now <= C!First(kept).start
           /\ C!ToSave(h, FALSE, FALSE, C!RemoveAt(old, i), {c \in {"nextShift"} : in < now})
        \/ /\ kept # {} /\ now > C!First(kept).start /\ p.clockOutEarly
           /\ C!ToSave(h, k.on, FALSE, C!Closed(old, i, now), C!Ahead(in, now))
  BY DEF C!ClockOutRostered
<1> DEFINE due  == C!Due(roster, k.at)
           in   == old[i].clockIn
           kept == {s \in due : in # C!Undefined /\ in <= s.end}
<1>3. i \in DOMAIN old /\ old[i].ongoing /\ in \in Int /\ (in # C!Undefined => in \in C!Minutes)
  BY <1>1, EntryFields DEF C!Ongoing
<1>4. due \subseteq C!ShiftRow /\ (\A s \in due : s.end > now /\ s.end \in C!Minutes)
  BY ClockAssumption DEF C!Due, C!ShiftRow
<1>5. C!Ahead(in, now) \subseteq C!Cause
  BY DEF C!Ahead, C!Cause
<1>6. \A j \in C!Ongoing(old) : j = i
  BY <1>1, OneOngoing
<1>7. C!Minutes \subseteq Int
  BY ClockAssumption DEF C!Minutes
<1>8. ASSUME NEW entries, in # C!Undefined /\ k.at < Day =>
               \A m \in in .. now - 1 : \E e \in C!Range(entries) : m \in C!Minute(e)
      PROVE  k.at < Day => C!Records(entries, k.at)
  BY <1>1, <1>6, <1>8 DEF C!Records
<1>9. now \in Int /\ in \in Int
  BY <1>1, <1>3, <1>7
<1> HIDE DEF in, now, due, kept
<1>10. CASE kept = {} /\ due # {} /\ C!ToSave(h, k.on, dayRow.isOnline, old, C!Ahead(in, now))
  <2>1. in # C!Undefined => in > now
    <3>1. SUFFICES ASSUME in # C!Undefined PROVE in > now
      OBVIOUS
    <3>2. PICK s \in due : TRUE
      BY <1>10
    <3>3. ~(in <= s.end) /\ s.end > now /\ s.end \in Int
      BY <1>4, <1>7, <1>10, <3>1 DEF kept
    <3>4. QED
      BY <1>9, <3>3
  <2>2. in # C!Undefined => in .. now - 1 = {}
    BY <1>9, <2>1
  <2>3. k.at < Day => C!Records(old, k.at)
    BY <1>8, <2>2
  <2>4. Reads(h, k.on, dayRow.isOnline, old, C!Ahead(in, now))
    BY <1>1, <1>5, <1>10, <2>3 DEF Reads
  <2>5. QED
    BY <2>4
<1>11. CASE /\ kept # {} /\ now <= C!First(kept).start
            /\ C!ToSave(h, FALSE, FALSE, C!RemoveAt(old, i), {c \in {"nextShift"} : in < now})
  <2> DEFINE causes == {c \in {"nextShift"} : in < now}
             new == C!RemoveAt(old, i)
  <2>1. "nextShift" \notin causes => in .. now - 1 = {}
    BY <1>9
  <2>2. k.at < Day /\ "nextShift" \notin causes => C!Records(new, k.at)
    BY <1>8, <2>1
  <2>3. new \in Seq(C!Entry) /\ causes \subseteq C!Cause
    BY <1>1, <1>3, RemovedEntries DEF C!Cause
  <2>4. C!Orderly(old, k.at) => C!Orderly(new, k.at)
    BY <1>1, <1>3, RemovedOrderly
  <2>5. C!ToSave(h, FALSE, FALSE, new, causes)
    BY <1>11
  <2> HIDE DEF new, causes
  <2>6. Reads(h, FALSE, FALSE, new, causes)
    BY <1>1, <2>2, <2>3, <2>4, <2>5 DEF Reads
  <2>7. QED
    BY <2>6
<1>12. CASE /\ kept # {} /\ now > C!First(kept).start /\ p.clockOutEarly
            /\ C!ToSave(h, k.on, FALSE, C!Closed(old, i, now), C!Ahead(in, now))
  <2> DEFINE new == C!Closed(old, i, now)
  <2>1. in \in C!Minutes
    <3>1. in # C!Undefined
      BY <1>12 DEF kept
    <3>2. QED
      BY <1>3, <3>1
  <2>2. \A m \in in .. now - 1 : \E e \in C!Range(new) : m \in C!Minute(e)
    <3>1. \A m \in in .. now - 1 : m \in Int /\ in <= m /\ m < now
      BY <1>9
    <3>2. QED
      BY <1>1, <1>3, <2>1, <3>1, ClosingRecords DEF in
  <2>3. k.at < Day => C!Records(new, k.at)
    BY <1>8, <2>2
  <2>4. new \in Seq(C!Entry)
    BY <1>1, <1>3, ClosedEntries
  <2>5. C!Ahead(in, now) \cap C!Doubling = {} => in <= now
    BY <1>9 DEF C!Ahead, C!Doubling
  <2>6. C!Ahead(in, now) \cap C!Doubling = {} /\ k.at < Day /\ C!Orderly(old, k.at)
            => C!Orderly(new, k.at)
    <3>1. SUFFICES ASSUME in <= now, now = k.at, C!Orderly(old, k.at) PROVE C!Orderly(new, k.at)
      BY <1>1, <2>5
    <3>2. old[i].clockIn <= now /\ now <= k.at /\ k.at \in Int
      BY <1>1, <3>1 DEF in
    <3>3. QED
      BY <1>1, <1>3, <3>1, <3>2, ClosedOrderly
  <2>7. C!ToSave(h, k.on, FALSE, new, C!Ahead(in, now))
    BY <1>12
  <2> HIDE DEF new
  <2>8. Reads(h, k.on, FALSE, new, C!Ahead(in, now))
    BY <1>1, <1>5, <2>3, <2>4, <2>6, <2>7 DEF Reads
  <2>9. QED
    BY <2>8
<1>13. QED
  BY <1>2, <1>10, <1>11, <1>12 DEF in, now, due, kept


(* Closing it at the end of the working day and adding the rest records    *)
(* that time as well.                                                      *)
LEMMA PastTheDayRecords ==
    ASSUME NEW entries \in Seq(C!Entry), NEW i \in DOMAIN entries, NEW now \in C!Minutes,
               now > WorkEnd,
           entries[i].clockIn \in C!Minutes, NEW m \in Int, entries[i].clockIn <= m, m < now
    PROVE  \E e \in C!Range(C!PastTheDay(entries, i, now)) : m \in C!Minute(e)
<1>1. WorkEnd \in C!Minutes /\ WorkEnd \in Int
  BY ClockAssumption DEF C!Minutes
<1>2. CASE entries[i].isOvertime
  BY <1>2, ClosingRecords DEF C!PastTheDay
<1> DEFINE c == C!Closed(entries, i, WorkEnd)
           e == C!NewEntry(WorkEnd, now, TRUE)
           a == Append(c, e)
<1>3. CASE ~entries[i].isOvertime
  <2>1. C!PastTheDay(entries, i, now) = a
    BY <1>3 DEF C!PastTheDay
  <2>2. c \in Seq(C!Entry)
    BY <1>1, ClosedEntries
  <2>3. e \in C!Entry
    BY <1>1, NewEntryType DEF Hour
  <2>4. ~e.ongoing /\ e.clockIn = WorkEnd /\ e.clockOut = now
    <3>1. now # C!Undefined
      BY ClockAssumption DEF C!Minutes, C!Undefined
    <3>2. QED
      BY <3>1 DEF C!NewEntry
  <2>5. C!Range(c) \subseteq C!Range(a) /\ e \in C!Range(a)
    <3> HIDE DEF c, e
    <3>1. /\ DOMAIN a = DOMAIN c \cup {Len(c) + 1} /\ a[Len(c) + 1] = e
          /\ \A j \in DOMAIN c : a[j] = c[j]
      BY <2>2, <2>3, AppendedEntries
    <3> HIDE DEF a
    <3>2. QED
      BY <3>1 DEF C!Range
  <2>6. CASE m < WorkEnd
    <3>1. \E x \in C!Range(c) : m \in C!Minute(x)
      BY <1>1, <2>6, ClosingRecords
    <3> HIDE DEF a, c
    <3>2. QED
      BY <2>1, <2>5, <3>1
  <2>7. CASE ~(m < WorkEnd)
    <3> HIDE DEF a, c, e
    <3>1. m \in C!Minute(e)
      BY <1>1, <2>3, <2>4, <2>7, MinutesOf
    <3>2. QED
      BY <2>1, <2>5, <3>1
  <2>8. QED
    BY <2>6, <2>7
<1>4. QED
  BY <1>2, <1>3

LEMMA PastTheDayOrderly ==
    ASSUME NEW entries \in Seq(C!Entry), NEW t \in Int, C!Orderly(entries, t),
           NEW i \in DOMAIN entries, entries[i].ongoing,
           t \in C!Minutes, t > WorkEnd, entries[i].clockIn <= WorkEnd
    PROVE  C!Orderly(C!PastTheDay(entries, i, t), t)
<1>1. WorkEnd \in C!Minutes /\ WorkEnd \in Int /\ WorkEnd <= t
  BY ClockAssumption DEF C!Minutes
<1>2. entries[i].clockIn \in Int /\ entries[i].clockIn <= t
  BY <1>1, EntryFields
<1>3. CASE entries[i].isOvertime
  BY <1>2, <1>3, ClosedOrderly DEF C!PastTheDay
<1> DEFINE c == C!Closed(entries, i, WorkEnd)
           e == C!NewEntry(WorkEnd, t, TRUE)
<1>4. CASE ~entries[i].isOvertime
  <2>1. C!PastTheDay(entries, i, t) = Append(c, e)
    BY <1>4 DEF C!PastTheDay
  <2>2. c \in Seq(C!Entry) /\ DOMAIN c = DOMAIN entries
    BY <1>1, ClosedEntries
  <2>3. e \in C!Entry
    BY <1>1, NewEntryType DEF Hour
  <2>4. e.clockIn = WorkEnd /\ e.clockOut = t /\ WorkEnd # C!Undefined
    BY ClockAssumption DEF C!NewEntry, C!Minutes, C!Undefined
  <2>5. C!Orderly(c, t) /\ \A j \in DOMAIN c : ~c[j].ongoing /\ c[j].clockOut <= WorkEnd
    BY <1>1, <2>2, ClosedOrderly
  <2> HIDE DEF c, e
  <2>6. C!Orderly(Append(c, e), t)
    BY <1>1, <2>2, <2>3, <2>4, <2>5, AppendedOrderly
  <2>7. QED
    BY <2>1, <2>6
<1>5. QED
  BY <1>3, <1>4

LEMMA PastTheDayType ==
    ASSUME NEW entries \in Seq(C!Entry), NEW i \in DOMAIN entries, NEW now \in C!Minutes
    PROVE  C!PastTheDay(entries, i, now) \in Seq(C!Entry)
<1>1. WorkEnd \in C!Minutes
  BY ClockAssumption
<1>2. C!Closed(entries, i, now) \in Seq(C!Entry) /\ C!Closed(entries, i, WorkEnd) \in Seq(C!Entry)
  BY <1>1, ClosedEntries
<1>3. C!NewEntry(WorkEnd, now, TRUE) \in C!Entry
  BY <1>1, NewEntryType DEF Hour
<1>4. Append(C!Closed(entries, i, WorkEnd), C!NewEntry(WorkEnd, now, TRUE)) \in Seq(C!Entry)
  BY <1>2, <1>3, AppendedEntries
<1>5. QED
  BY <1>2, <1>4 DEF C!PastTheDay

LEMMA FreeReads ==
    ASSUME C!TypeOK, C!CallsInv, NEW h \in Calls, C!ClockOutFree(h)
    PROVE  \E on, isOnline, entries, causes : Reads(h, on, isOnline, entries, causes)
<1> DEFINE k == clockCall[h]
           now == C!TimeOfDay(k.at)
           old == dayRow.entries
           in(i) == old[i].clockIn
           new(p, i) == IF C!Late(p, now) THEN C!PastTheDay(old, i, now) ELSE C!Closed(old, i, now)
           causes(p, i) == C!Ahead(in(i), now)
               \cup {c \in {"evening"} : C!Late(p, now) /\ in(i) > WorkEnd}
<1>1. /\ clockPc[h] = "clock_read" /\ k.op = "clockOut" /\ k.at \in Instants /\ old \in Seq(C!Entry)
      /\ now \in C!Minutes /\ k.at \in Nat /\ (k.at < Day => now = k.at)
  BY Clocks, TimesOfDay DEF C!ClockOutFree
<1>2. PICK p \in Policies, i \in C!Ongoing(old) : C!ToSave(h, FALSE, FALSE, new(p, i), causes(p, i))
  BY DEF C!ClockOutFree
<1>3. i \in DOMAIN old /\ old[i].ongoing /\ in(i) \in Int
          /\ (in(i) # C!Undefined => in(i) \in C!Minutes)
  BY <1>1, EntryFields DEF C!Ongoing
<1>4. C!Minutes \subseteq Int /\ WorkEnd \in Int
  BY ClockAssumption DEF C!Minutes
<1>5. now \in Int /\ (C!Late(p, now) => now > WorkEnd)
  BY <1>1, <1>4 DEF C!Late
<1>6. \A j \in C!Ongoing(old) : j = i
  BY <1>1, OneOngoing
<1>7. new(p, i) \in Seq(C!Entry)
  BY <1>1, <1>3, ClosedEntries, PastTheDayType
<1>8. causes(p, i) \subseteq C!Cause
  BY DEF C!Ahead, C!Cause
<1>9. k.at < Day => C!Records(new(p, i), k.at)
  <2>1. in(i) # C!Undefined
            => \A m \in in(i) .. now - 1 : \E e \in C!Range(new(p, i)) : m \in C!Minute(e)
    <3>1. SUFFICES ASSUME in(i) \in C!Minutes, NEW m \in Int, in(i) <= m, m < now
                   PROVE  \E e \in C!Range(new(p, i)) : m \in C!Minute(e)
      <4> HIDE DEF in, now
      <4>1. \A m \in in(i) .. now - 1 : m \in Int /\ in(i) <= m /\ m < now
        BY <1>3, <1>5
      <4>2. QED
        BY <1>3, <4>1
    <3>2. CASE C!Late(p, now)
      BY <1>1, <1>3, <1>5, <3>1, <3>2, PastTheDayRecords
    <3>3. CASE ~C!Late(p, now)
      BY <1>1, <1>3, <3>1, <3>3, ClosingRecords
    <3>4. QED
      BY <3>2, <3>3
  <2> HIDE DEF new
  <2>2. QED
    BY <1>1, <1>6, <2>1 DEF C!Records
<1>10. ASSUME causes(p, i) \cap C!Doubling = {}, k.at < Day, C!Orderly(old, k.at)
       PROVE  C!Orderly(new(p, i), k.at)
  <2>1. now = k.at
    BY <1>1, <1>10
  <2>2. in(i) <= now /\ (C!Late(p, now) => in(i) <= WorkEnd)
    <3> HIDE DEF in, now
    <3>1. QED
      BY <1>3, <1>4, <1>5, <1>10 DEF C!Ahead, C!Doubling
  <2>3. CASE C!Late(p, now)
    BY <1>1, <1>3, <1>4, <1>5, <1>10, <2>1, <2>2, <2>3, PastTheDayOrderly
  <2>4. CASE ~C!Late(p, now)
    BY <1>1, <1>3, <1>5, <1>10, <2>1, <2>2, <2>4, ClosedOrderly
  <2>5. QED
    BY <2>3, <2>4
<1> HIDE DEF new, causes
<1>11. Reads(h, FALSE, FALSE, new(p, i), causes(p, i))
  BY <1>1, <1>2, <1>7, <1>8, <1>9, <1>10 DEF Reads
<1>12. QED
  BY <1>11


-----------------------------------------------------------------------------
(* The steps: a clock call reads the row in one of three ways.             *)
Reading(h) == \E on, isOnline, entries, causes : Reads(h, on, isOnline, entries, causes)

LEMMA Acts ==
    ASSUME C!TypeOK, C!CallsInv, C!Next
    PROVE  \E h \in Calls :
             \/ C!ClockStart(h) \/ Reading(h) \/ C!SaveOnline(h) \/ C!SaveRow(h)
             \/ C!LogDecide(h) \/ C!LogRead(h) \/ C!LogSave(h) \/ C!Abort(h)
  BY ClockInReads, RosteredReads, FreeReads DEF C!Next, Reading

(* Copies are of calls in flight, and while no two overlap there is but    *)
(* one.                                                                    *)
LEMMA ClockCopies ==
    ASSUME C!TypeOK, C!CallsInv
    PROVE  /\ DOMAIN clockCopy \subseteq DOMAIN clockCall /\ DOMAIN clockCall \subseteq Calls
           /\ \A h \in DOMAIN clockCopy : clockPc[h] \in {"clock_online", "clock_save", "log_save"}
           /\ \A h \in Calls : clockPc[h] \in C!InFlight <=> h \in DOMAIN clockCall
           /\ "raced" \notin blots => \A h \in DOMAIN clockCall : DOMAIN clockCall = {h}
  BY DEF C!TypeOK, C!CallsInv, C!InFlight

LEMMA InitTypeCorrect ==
    ASSUME C!Init PROVE C!TypeOK
<1>1. dayRow \in C!Row
  BY DEF C!Init, C!Row
<1>2. DOMAIN C!NoRows = {}
  BY DEF C!NoRows
<1>3. QED
  BY <1>1, <1>2 DEF C!Init, C!TypeOK, C!Statuses, C!Steps, C!InFlight, C!IsTable, C!NoRows

LEMMA TypeStep ==
    ASSUME C!TypeOK, C!CallsInv, [C!Next]_(C!vars)
    PROVE  C!TypeOK'
<1>1. CASE UNCHANGED C!vars
  BY <1>1 DEF C!vars, C!TypeOK, C!IsTable
<1>2. CASE C!Next
  <2>1. PICK h \in Calls :
          \/ C!ClockStart(h) \/ Reading(h) \/ C!SaveOnline(h) \/ C!SaveRow(h)
          \/ C!LogDecide(h) \/ C!LogRead(h) \/ C!LogSave(h) \/ C!Abort(h)
    BY <1>2, Acts
  <2>2. /\ clockPc \in [Calls -> C!Steps]
            /\ DOMAIN clockCall = {x \in Calls : clockPc[x] \in C!InFlight}
        /\ C!IsTable(clockCopy, Calls, [on: BOOLEAN, row: C!Row, causes: SUBSET C!Cause])
    BY DEF C!TypeOK
  <2>3. C!Race \subseteq C!Cause
    BY DEF C!Race, C!Cause
  <2>4. CASE C!ClockStart(h)
    <3>1. clock' \in Instants /\ blots' \subseteq C!Cause
      BY <2>3, <2>4 DEF C!ClockStart, C!TypeOK
    <3>2. clockPc' \in [Calls -> C!Steps]
              /\ DOMAIN clockCall' = {x \in Calls : clockPc'[x] \in C!InFlight}
      <4>1. DOMAIN clockCall' = DOMAIN clockCall \cup {h}
        BY <2>4 DEF C!ClockStart, C!Save
      <4>2. clockPc' = [clockPc EXCEPT ![h] = "clock_read"]
        BY <2>4 DEF C!ClockStart, C!Goto
      <4>3. QED
        BY <2>2, <4>1, <4>2 DEF C!InFlight, C!Steps
    <3>3. UNCHANGED <<online, dayRow, claimStatus, clockCopy>>
      BY <2>4 DEF C!ClockStart
    <3>4. QED
      BY <3>1, <3>2, <3>3 DEF C!TypeOK, C!IsTable
  <2>5. CASE Reading(h)
    <3>1. PICK on, isOnline, entries, causes : Reads(h, on, isOnline, entries, causes)
      BY <2>5 DEF Reading
    <3>2. clockPc[h] = "clock_read" /\ clockPc' = [clockPc EXCEPT ![h] = "clock_online"]
      BY <3>1 DEF Reads, C!ToSave, C!Goto
    <3> DEFINE saved == [on |-> on, causes |-> causes,
                         row |-> [isOnline |-> isOnline, entries |-> entries]]
    <3>3. saved \in [on: BOOLEAN, row: C!Row, causes: SUBSET C!Cause]
      BY <3>1 DEF Reads, C!Row
    <3>4. clockCopy' = C!Save(clockCopy, h, saved)
      BY <3>1 DEF Reads, C!ToSave
    <3> HIDE DEF saved
    <3>5. C!IsTable(clockCopy', Calls, [on: BOOLEAN, row: C!Row, causes: SUBSET C!Cause])
      BY <2>2, <3>3, <3>4 DEF C!IsTable, C!Save
    <3>6. UNCHANGED <<clock, online, dayRow, claimStatus, clockCall, blots>>
      BY <3>1 DEF Reads, C!ToSave
    <3>7. clockPc' \in [Calls -> C!Steps]
              /\ DOMAIN clockCall' = {x \in Calls : clockPc'[x] \in C!InFlight}
      BY <2>2, <3>2, <3>6 DEF C!InFlight, C!Steps
    <3>8. QED
      BY <3>5, <3>6, <3>7 DEF C!TypeOK
  <2>6. CASE C!SaveOnline(h)
    <3>1. clockPc[h] = "clock_online" /\ clockPc' = [clockPc EXCEPT ![h] = "clock_save"]
      BY <2>6 DEF C!SaveOnline, C!Goto
    <3>2. h \in DOMAIN clockCopy
      BY <3>1 DEF C!CallsInv
    <3>3. online' \in BOOLEAN
      BY <2>2, <2>6, <3>2 DEF C!SaveOnline, C!IsTable
    <3>4. UNCHANGED <<clock, dayRow, claimStatus, clockCall, clockCopy, blots>>
      BY <2>6 DEF C!SaveOnline
    <3>5. clockPc' \in [Calls -> C!Steps]
              /\ DOMAIN clockCall' = {x \in Calls : clockPc'[x] \in C!InFlight}
      BY <2>2, <3>1, <3>4 DEF C!InFlight, C!Steps
    <3>6. QED
      BY <3>3, <3>4, <3>5 DEF C!TypeOK, C!IsTable
  <2>7. CASE C!SaveRow(h) \/ C!LogSave(h)
    <3>1. /\ clockPc[h] \in {"clock_save", "log_save"} /\ clockPc' = [clockPc EXCEPT ![h] = "done"]
          /\ dayRow' = clockCopy[h].row /\ blots' \subseteq blots \cup clockCopy[h].causes
              \cup {"overnight"}
          /\ clockCall' = C!Delete(clockCall, h) /\ clockCopy' = C!Delete(clockCopy, h)
              /\ UNCHANGED <<clock, online, claimStatus>>
      BY <2>7 DEF C!SaveRow, C!LogSave, C!Goto, C!Forget
    <3>2. h \in DOMAIN clockCopy
      BY <3>1 DEF C!CallsInv
    <3>3. dayRow' \in C!Row /\ clockCopy[h].causes \subseteq C!Cause
      BY <2>2, <3>1, <3>2 DEF C!IsTable
    <3>4. clockPc' \in [Calls -> C!Steps]
              /\ DOMAIN clockCall' = {x \in Calls : clockPc'[x] \in C!InFlight}
      <4>1. DOMAIN clockCall' = DOMAIN clockCall \ {h}
        BY <3>1 DEF C!Delete
      <4>2. QED
        BY <2>2, <3>1, <4>1 DEF C!InFlight, C!Steps
    <3>5. C!IsTable(clockCopy', Calls, [on: BOOLEAN, row: C!Row, causes: SUBSET C!Cause])
      BY <2>2, <3>1 DEF C!IsTable, C!Delete
    <3>6. blots' \subseteq C!Cause
      BY <3>1, <3>3 DEF C!TypeOK, C!Cause
    <3>7. QED
      BY <3>1, <3>3, <3>4, <3>5, <3>6 DEF C!TypeOK
  <2>8. CASE C!LogDecide(h)
    <3>1. PICK c \in Claims, st \in {"APPROVED", "REJECTED"} :
            /\ claimStatus' = [claimStatus EXCEPT ![c] = st]
            /\ C!Goto(h, "idle", IF st = "APPROVED" THEN "log_read" ELSE "done")
            /\ clockCall' = IF st = "APPROVED"
                THEN C!Save(clockCall, h, [op |-> "log", claim |-> c]) ELSE clockCall
            /\ blots' = blots \cup IF st = "APPROVED" THEN C!Race ELSE {}
      BY <2>8 DEF C!LogDecide
    <3>2. UNCHANGED <<clock, online, dayRow, clockCopy>>
      BY <2>8 DEF C!LogDecide
    <3>3. claimStatus' \in [Claims -> C!Statuses] /\ blots' \subseteq C!Cause
      BY <2>3, <3>1 DEF C!TypeOK, C!Statuses
    <3>4. clockPc' \in [Calls -> C!Steps]
              /\ DOMAIN clockCall' = {x \in Calls : clockPc'[x] \in C!InFlight}
      <4>1. CASE st = "APPROVED"
        <5>1. DOMAIN clockCall' = DOMAIN clockCall \cup {h}
          BY <3>1, <4>1 DEF C!Save
        <5>2. clockPc' = [clockPc EXCEPT ![h] = "log_read"]
          BY <3>1, <4>1 DEF C!Goto
        <5>3. QED
          BY <2>2, <5>1, <5>2 DEF C!InFlight, C!Steps
      <4>2. CASE st # "APPROVED"
        <5>1. clockCall' = clockCall /\ clockPc[h] = "idle"
                  /\ clockPc' = [clockPc EXCEPT ![h] = "done"]
          BY <3>1, <4>2 DEF C!Goto
        <5>2. QED
          BY <2>2, <5>1 DEF C!InFlight, C!Steps
      <4>3. QED
        BY <4>1, <4>2
    <3>5. QED
      BY <3>2, <3>3, <3>4 DEF C!TypeOK, C!IsTable
  <2>9. CASE C!LogRead(h)
    <3> DEFINE c == clockCall[h].claim
               e == C!NewEntry(c.startTime, c.endTime, c.isOvertime)
               new == [dayRow EXCEPT !.entries = Append(@, e)]
               saved == [on |-> online, causes |-> {"logged"}, row |-> new]
    <3>1. /\ clockPc[h] = "log_read" /\ clockPc' = [clockPc EXCEPT ![h] = "log_save"]
          /\ clockCopy' = C!Save(clockCopy, h, saved)
          /\ UNCHANGED <<clock, online, dayRow, claimStatus, clockCall, blots>>
      BY <2>9 DEF C!LogRead, C!Goto
    <3>2. c \in C!Claim
      BY <2>2, <3>1, ClockAssumption DEF C!CallsInv, C!InFlight
    <3>3. e \in C!Entry
      BY <3>2, NewEntryType DEF C!Claim, Hour
    <3>4. dayRow.isOnline \in BOOLEAN /\ dayRow.entries \in Seq(C!Entry)
      BY DEF C!TypeOK, C!Row
    <3> HIDE DEF e
    <3> DEFINE longer == Append(dayRow.entries, e)
    <3>5. longer \in Seq(C!Entry)
      BY <3>3, <3>4, AppendedEntries
    <3> HIDE DEF longer
    <3>6. new = [isOnline |-> dayRow.isOnline, entries |-> longer]
      <4>1. new = [dayRow EXCEPT !.entries = longer]
        BY DEF longer
      <4>2. [dayRow EXCEPT !.entries = longer] = [isOnline |-> dayRow.isOnline, entries |-> longer]
        BY DEF C!TypeOK, C!Row
      <4>3. QED
        BY <4>1, <4>2
    <3> HIDE DEF new
    <3>7. new \in C!Row
      BY <3>4, <3>5, <3>6 DEF C!Row
    <3>8. saved \in [on: BOOLEAN, row: C!Row, causes: SUBSET C!Cause]
      <4>1. online \in BOOLEAN /\ {"logged"} \in SUBSET C!Cause
        BY DEF C!TypeOK, C!Cause
      <4>2. QED
        BY <3>7, <4>1
    <3> HIDE DEF saved
    <3>9. C!IsTable(clockCopy', Calls, [on: BOOLEAN, row: C!Row, causes: SUBSET C!Cause])
      BY <2>2, <3>1, <3>8 DEF C!IsTable, C!Save
    <3>10. clockPc' \in [Calls -> C!Steps]
               /\ DOMAIN clockCall' = {x \in Calls : clockPc'[x] \in C!InFlight}
      BY <2>2, <3>1 DEF C!InFlight, C!Steps
    <3>11. QED
      BY <3>1, <3>9, <3>10 DEF C!TypeOK
  <2>10. CASE C!Abort(h)
    <3>1. /\ clockPc' = [clockPc EXCEPT ![h] = "failed"] /\ clockCall' = C!Delete(clockCall, h)
              /\ clockCopy' = C!Delete(clockCopy, h)
          /\ UNCHANGED <<clock, online, dayRow, claimStatus, blots>>
      BY <2>10 DEF C!Abort, C!Forget
    <3>2. clockPc' \in [Calls -> C!Steps]
              /\ DOMAIN clockCall' = {x \in Calls : clockPc'[x] \in C!InFlight}
      <4>1. DOMAIN clockCall' = DOMAIN clockCall \ {h}
        BY <3>1 DEF C!Delete
      <4>2. QED
        BY <2>2, <3>1, <4>1 DEF C!InFlight, C!Steps
    <3>3. C!IsTable(clockCopy', Calls, [on: BOOLEAN, row: C!Row, causes: SUBSET C!Cause])
      BY <2>2, <3>1 DEF C!IsTable, C!Delete
    <3>4. QED
      BY <3>1, <3>2, <3>3 DEF C!TypeOK
  <2>11. QED
    BY <2>1, <2>4, <2>5, <2>6, <2>7, <2>8, <2>9, <2>10
<1>3. QED
  BY <1>1, <1>2

LEMMA InitCalls ==
    ASSUME C!Init PROVE C!CallsInv /\ C!EntriesInv /\ C!WorkInv
<1>1. DOMAIN clockCall = {} /\ DOMAIN clockCopy = {} /\ \A h \in Calls : clockPc[h] = "idle"
  BY DEF C!Init, C!NoRows
<1>2. dayRow.entries = << >>
  BY DEF C!Init
<1>3. QED
  BY <1>1, <1>2 DEF C!CallsInv, C!EntriesInv, C!WorkInv, C!Orderly

(* A call has what its place calls for.                                    *)
LEMMA CallsStep ==
    ASSUME C!TypeOK, C!CallsInv, [C!Next]_(C!vars)
    PROVE  C!CallsInv'
<1>1. CASE UNCHANGED C!vars
  BY <1>1 DEF C!vars, C!CallsInv
<1>2. CASE C!Next
  <2>1. PICK h \in Calls :
          \/ C!ClockStart(h) \/ Reading(h) \/ C!SaveOnline(h) \/ C!SaveRow(h)
          \/ C!LogDecide(h) \/ C!LogRead(h) \/ C!LogSave(h) \/ C!Abort(h)
    BY <1>2, Acts
  <2>2. /\ clockPc \in [Calls -> C!Steps]
            /\ DOMAIN clockCall = {x \in Calls : clockPc[x] \in C!InFlight}
        /\ DOMAIN clockCopy = {x \in Calls : clockPc[x] \in {"clock_online", "clock_save",
            "log_save"}}
    BY DEF C!TypeOK, C!CallsInv
  <2>3. CASE C!ClockStart(h)
    <3>1. PICK op \in {"clockIn", "clockOut"}, t \in Instants :
            clock' = t /\ clockCall' = C!Save(clockCall, h, [op |-> op, at |-> t, on |-> online])
      BY <2>3 DEF C!ClockStart
    <3>2. clockPc[h] = "idle" /\ clockPc' = [clockPc EXCEPT ![h] = "clock_read"]
              /\ clockCopy' = clockCopy /\ blots' = blots \cup C!Race
      BY <2>3 DEF C!ClockStart, C!Goto
    <3>3. /\ DOMAIN clockCall' = DOMAIN clockCall \cup {h}
          /\ clockCall'[h].op = op /\ clockCall'[h].at = t /\ clockCall'[h].on = online
          /\ \A x \in DOMAIN clockCall : x # h => clockCall'[x] = clockCall[x]
      BY <3>1 DEF C!Save
    <3>4. h \notin DOMAIN clockCall /\ h \notin DOMAIN clockCopy
      BY <2>2, <3>2 DEF C!InFlight
    <3>5. clockPc'[h] = "clock_read" /\ \A x \in Calls : x # h => clockPc'[x] = clockPc[x]
      BY <2>2, <3>2
    <3>6. "raced" \notin blots' => DOMAIN clockCall = {}
      BY <3>2 DEF C!Race
    <3>7. DOMAIN clockCopy' = {x \in Calls : clockPc'[x] \in {"clock_online", "clock_save",
              "log_save"}}
      BY <2>2, <3>2, <3>5
    <3>8. \A x \in DOMAIN clockCall' :
            /\ clockPc'[x] \in C!Clocking =>
                 /\ clockCall'[x].op \in {"clockIn", "clockOut"} /\ clockCall'[x].on \in BOOLEAN
                 /\ clockCall'[x].at \in Instants
            /\ clockPc'[x] \in {"log_read", "log_save"} => clockCall'[x].claim \in Claims
            /\ clockPc'[x] = "log_save" => clockCopy'[x].causes = {"logged"}
      <4>1. TAKE x \in DOMAIN clockCall'
      <4>2. CASE x = h
        BY <3>3, <3>5, <4>2 DEF C!TypeOK
      <4>3. CASE x # h
        BY <2>2, <3>2, <3>3, <3>5, <4>3 DEF C!CallsInv
      <4>4. QED
        BY <4>2, <4>3
    <3>9. "raced" \notin blots' => \A x \in DOMAIN clockCall' :
            /\ \A y \in DOMAIN clockCall' : y = x
            /\ clockPc'[x] \in C!Clocking => clockCall'[x].at = clock'
      BY <3>1, <3>3, <3>6
    <3>10. QED
      BY <3>7, <3>8, <3>9 DEF C!CallsInv, C!Clocking
  <2>4. CASE Reading(h) \/ C!SaveOnline(h) \/ C!LogRead(h)
    <3>1. /\ clockCall' = clockCall /\ clock' = clock /\ blots' = blots
          /\ clockPc[h] \in C!InFlight
              /\ \E to \in C!InFlight : clockPc' = [clockPc EXCEPT ![h] = to]
          /\ clockPc[h] \in C!Clocking <=> clockPc'[h] \in C!Clocking
          /\ clockPc[h] \in {"log_read", "log_save"} <=> clockPc'[h] \in {"log_read", "log_save"}
          /\ clockPc'[h] \in {"clock_online", "clock_save", "log_save"}
      <4>1. CASE Reading(h)
        BY <2>2, <4>1 DEF Reading, Reads, C!ToSave, C!Goto, C!InFlight, C!Clocking
      <4>2. CASE C!SaveOnline(h)
        BY <2>2, <4>2 DEF C!SaveOnline, C!Goto, C!InFlight, C!Clocking
      <4>3. CASE C!LogRead(h)
        BY <2>2, <4>3 DEF C!LogRead, C!Goto, C!InFlight, C!Clocking
      <4>4. QED
        BY <2>4, <4>1, <4>2, <4>3
    <3>2. \A x \in Calls : x # h => clockPc'[x] = clockPc[x]
      BY <2>2, <3>1
    <3>3. /\ DOMAIN clockCopy' = DOMAIN clockCopy \cup {h}
              /\ (clockPc'[h] = "log_save" => clockCopy'[h].causes = {"logged"})
          /\ \A x \in DOMAIN clockCopy : x # h => clockCopy'[x] = clockCopy[x]
      <4>1. CASE Reading(h)
        <5>1. PICK on, isOnline, entries, causes : Reads(h, on, isOnline, entries, causes)
          BY <4>1 DEF Reading
        <5>2. clockPc'[h] # "log_save"
          BY <2>2, <5>1 DEF Reads, C!ToSave, C!Goto
        <5>3. QED
          BY <5>1, <5>2 DEF Reads, C!ToSave, C!Save
      <4>2. CASE C!SaveOnline(h)
        BY <2>2, <4>2 DEF C!SaveOnline, C!Goto
      <4>3. CASE C!LogRead(h)
        BY <4>3 DEF C!LogRead, C!Save
      <4>4. QED
        BY <2>4, <4>1, <4>2, <4>3
    <3>4. DOMAIN clockCopy' = {x \in Calls : clockPc'[x] \in {"clock_online", "clock_save",
              "log_save"}}
      BY <2>2, <3>1, <3>2, <3>3
    <3>5. \A x \in DOMAIN clockCall' :
            /\ clockPc'[x] \in C!Clocking =>
                 /\ clockCall'[x].op \in {"clockIn", "clockOut"} /\ clockCall'[x].on \in BOOLEAN
                 /\ clockCall'[x].at \in Instants
            /\ clockPc'[x] \in {"log_read", "log_save"} => clockCall'[x].claim \in Claims
            /\ clockPc'[x] = "log_save" => clockCopy'[x].causes = {"logged"}
      BY <2>2, <3>1, <3>2, <3>3 DEF C!CallsInv
    <3>6. "raced" \notin blots' => \A x \in DOMAIN clockCall' :
            /\ \A y \in DOMAIN clockCall' : y = x
            /\ clockPc'[x] \in C!Clocking => clockCall'[x].at = clock'
      BY <2>2, <3>1, <3>2 DEF C!CallsInv
    <3>7. QED
      BY <3>4, <3>5, <3>6 DEF C!CallsInv, C!Clocking
  <2>5. CASE C!SaveRow(h) \/ C!LogSave(h) \/ C!Abort(h)
    <3>1. /\ clockCall' = C!Delete(clockCall, h) /\ clockCopy' = C!Delete(clockCopy, h)
              /\ clock' = clock
          /\ blots \subseteq blots'
              /\ \E to \in {"done", "failed"} : clockPc' = [clockPc EXCEPT ![h] = to]
      BY <2>5 DEF C!SaveRow, C!LogSave, C!Abort, C!Goto, C!Forget
    <3>2. clockPc'[h] \in {"done", "failed"} /\ \A x \in Calls : x # h => clockPc'[x] = clockPc[x]
      BY <2>2, <3>1
    <3>3. /\ DOMAIN clockCall' = DOMAIN clockCall \ {h}
              /\ DOMAIN clockCopy' = DOMAIN clockCopy \ {h}
          /\ \A x \in DOMAIN clockCall' : clockCall'[x] = clockCall[x]
          /\ \A x \in DOMAIN clockCopy' : clockCopy'[x] = clockCopy[x]
      BY <3>1 DEF C!Delete
    <3>4. DOMAIN clockCopy' = {x \in Calls : clockPc'[x] \in {"clock_online", "clock_save",
              "log_save"}}
      BY <2>2, <3>2, <3>3
    <3>5. \A x \in DOMAIN clockCall' :
            /\ clockPc'[x] \in C!Clocking =>
                 /\ clockCall'[x].op \in {"clockIn", "clockOut"} /\ clockCall'[x].on \in BOOLEAN
                 /\ clockCall'[x].at \in Instants
            /\ clockPc'[x] \in {"log_read", "log_save"} => clockCall'[x].claim \in Claims
            /\ clockPc'[x] = "log_save" => clockCopy'[x].causes = {"logged"}
      BY <2>2, <3>2, <3>3, <3>4 DEF C!CallsInv
    <3>6. "raced" \notin blots' => \A x \in DOMAIN clockCall' :
            /\ \A y \in DOMAIN clockCall' : y = x
            /\ clockPc'[x] \in C!Clocking => clockCall'[x].at = clock'
      BY <2>2, <3>1, <3>2, <3>3 DEF C!CallsInv
    <3>7. QED
      BY <3>4, <3>5, <3>6 DEF C!CallsInv, C!Clocking
  <2>6. CASE C!LogDecide(h)
    <3>1. PICK c \in Claims, st \in {"APPROVED", "REJECTED"} :
            /\ C!Goto(h, "idle", IF st = "APPROVED" THEN "log_read" ELSE "done")
            /\ clockCall' = IF st = "APPROVED"
                THEN C!Save(clockCall, h, [op |-> "log", claim |-> c]) ELSE clockCall
            /\ blots' = blots \cup IF st = "APPROVED" THEN C!Race ELSE {}
      BY <2>6 DEF C!LogDecide
    <3>2. clock' = clock /\ clockCopy' = clockCopy
      BY <2>6 DEF C!LogDecide
    <3>3. /\ clockPc[h] = "idle" /\ clockPc'[h] = IF st = "APPROVED" THEN "log_read" ELSE "done"
          /\ \A x \in Calls : x # h => clockPc'[x] = clockPc[x]
      BY <2>2, <3>1 DEF C!Goto
    <3>4. h \notin DOMAIN clockCall /\ h \notin DOMAIN clockCopy
      BY <2>2, <3>3 DEF C!InFlight
    <3>5. DOMAIN clockCopy' = {x \in Calls : clockPc'[x] \in {"clock_online", "clock_save",
              "log_save"}}
      BY <2>2, <3>2, <3>3
    <3>6. CASE st = "APPROVED"
      <4>1. /\ DOMAIN clockCall' = DOMAIN clockCall \cup {h} /\ clockCall'[h].claim = c
            /\ \A x \in DOMAIN clockCall : x # h => clockCall'[x] = clockCall[x]
        BY <3>1, <3>6 DEF C!Save
      <4>2. "raced" \notin blots' => DOMAIN clockCall = {}
        BY <3>1, <3>6 DEF C!Race
      <4>3. \A x \in DOMAIN clockCall' :
              /\ clockPc'[x] \in C!Clocking =>
                   /\ clockCall'[x].op \in {"clockIn", "clockOut"} /\ clockCall'[x].on \in BOOLEAN
                   /\ clockCall'[x].at \in Instants
              /\ clockPc'[x] \in {"log_read", "log_save"} => clockCall'[x].claim \in Claims
              /\ clockPc'[x] = "log_save" => clockCopy'[x].causes = {"logged"}
        <5>1. TAKE x \in DOMAIN clockCall'
        <5>2. CASE x = h
          BY <3>3, <3>6, <4>1, <5>2 DEF C!Clocking
        <5>3. CASE x # h
          BY <2>2, <3>2, <3>3, <4>1, <5>3 DEF C!CallsInv
        <5>4. QED
          BY <5>2, <5>3
      <4>4. "raced" \notin blots' => \A x \in DOMAIN clockCall' :
              /\ \A y \in DOMAIN clockCall' : y = x
              /\ clockPc'[x] \in C!Clocking => clockCall'[x].at = clock'
        BY <3>3, <3>6, <4>1, <4>2 DEF C!Clocking
      <4>5. QED
        BY <3>5, <4>3, <4>4 DEF C!CallsInv, C!Clocking
    <3>7. CASE st # "APPROVED"
      <4>1. clockCall' = clockCall /\ blots' = blots
        BY <3>1, <3>7
      <4>2. \A x \in DOMAIN clockCall : x # h /\ clockPc'[x] = clockPc[x]
        BY <2>2, <3>3, <3>4
      <4>3. \A x \in DOMAIN clockCall' :
              /\ clockPc'[x] \in C!Clocking =>
                   /\ clockCall'[x].op \in {"clockIn", "clockOut"} /\ clockCall'[x].on \in BOOLEAN
                   /\ clockCall'[x].at \in Instants
              /\ clockPc'[x] \in {"log_read", "log_save"} => clockCall'[x].claim \in Claims
              /\ clockPc'[x] = "log_save" => clockCopy'[x].causes = {"logged"}
        BY <3>2, <4>1, <4>2 DEF C!CallsInv
      <4>4. "raced" \notin blots' => \A x \in DOMAIN clockCall' :
              /\ \A y \in DOMAIN clockCall' : y = x
              /\ clockPc'[x] \in C!Clocking => clockCall'[x].at = clock'
        BY <3>2, <4>1, <4>2 DEF C!CallsInv
      <4>5. QED
        BY <3>5, <4>3, <4>4 DEF C!CallsInv, C!Clocking
    <3>8. QED
      BY <3>6, <3>7
  <2>7. QED
    BY <2>1, <2>3, <2>4, <2>5, <2>6
<1>3. QED
  BY <1>1, <1>2

(* A step of a call in flight, or that starts a clock call, is alone on    *)
(* the row while no two calls have overlapped.                             *)
LEMMA Alone ==
    ASSUME C!TypeOK, C!CallsInv, NEW h \in Calls,
           \/ C!ClockStart(h) \/ Reading(h) \/ C!SaveOnline(h) \/ C!SaveRow(h)
           \/ C!LogRead(h) \/ C!LogSave(h) \/ C!Abort(h)
    PROVE  /\ blots \subseteq blots'
           /\ "raced" \notin blots' => /\ DOMAIN clockCall \subseteq {h}
               /\ DOMAIN clockCopy \subseteq {h}
                                       /\ DOMAIN clockCopy' \subseteq {h}
<1>1. blots \subseteq blots'
  <2>1. CASE Reading(h)
    BY <2>1 DEF Reading, Reads, C!ToSave
  <2>2. CASE C!ClockStart(h) \/ C!SaveOnline(h) \/ C!SaveRow(h) \/ C!LogRead(h) \/ C!LogSave(h)
            \/ C!Abort(h)
    BY <2>2 DEF C!ClockStart, C!SaveOnline, C!SaveRow, C!LogRead, C!LogSave, C!Abort
  <2>3. QED
    BY <2>1, <2>2
<1>2. ASSUME "raced" \notin blots' PROVE DOMAIN clockCall \subseteq {h}
  <2>1. CASE C!ClockStart(h)
    BY <1>2, <2>1 DEF C!ClockStart, C!Race
  <2>2. CASE clockPc[h] \in C!InFlight
    BY <1>1, <1>2, <2>2, ClockCopies
  <2>3. QED
    BY <2>1, <2>2 DEF Reading, Reads, C!ToSave, C!SaveOnline, C!SaveRow, C!LogRead, C!LogSave,
        C!Abort, C!Goto, C!InFlight
<1>3. DOMAIN clockCopy' \subseteq DOMAIN clockCopy \cup {h}
  <2>1. CASE Reading(h)
    BY <2>1 DEF Reading, Reads, C!ToSave, C!Save
  <2>2. CASE C!ClockStart(h) \/ C!SaveOnline(h) \/ C!SaveRow(h) \/ C!LogRead(h) \/ C!LogSave(h)
            \/ C!Abort(h)
    BY <2>2 DEF C!ClockStart, C!SaveOnline, C!SaveRow, C!LogRead, C!LogSave, C!Abort, C!Forget,
        C!Save, C!Delete
  <2>3. QED
    BY <2>1, <2>2
<1>4. QED
  BY <1>1, <1>2, <1>3, ClockCopies

(* A decision on a request leaves what clock calls are about to save.      *)
LEMMA Decides ==
    ASSUME C!TypeOK, C!CallsInv, NEW h \in Calls, C!LogDecide(h)
    PROVE  /\ UNCHANGED <<clock, dayRow, clockCopy>> /\ blots \subseteq blots'
           /\ \A x \in DOMAIN clockCopy : clockPc'[x] = clockPc[x] /\ clockCall'[x] = clockCall[x]
<1>1. PICK c \in Claims, st \in {"APPROVED", "REJECTED"} :
        /\ C!Goto(h, "idle", IF st = "APPROVED" THEN "log_read" ELSE "done")
        /\ clockCall' = IF st = "APPROVED" THEN C!Save(clockCall, h, [op |-> "log", claim |-> c])
            ELSE clockCall
        /\ blots' = blots \cup IF st = "APPROVED" THEN C!Race ELSE {}
  BY DEF C!LogDecide
<1>2. clockPc[h] = "idle" /\ \A x \in Calls : x # h => clockPc'[x] = clockPc[x]
  BY <1>1 DEF C!Goto, C!TypeOK
<1>3. \A x \in DOMAIN clockCopy : x # h /\ x \in Calls /\ x \in DOMAIN clockCall
  BY <1>2, ClockCopies
<1>4. \A x \in DOMAIN clockCall : x # h => clockCall'[x] = clockCall[x]
  BY <1>1 DEF C!Save
<1>5. UNCHANGED <<clock, dayRow, clockCopy>>
  BY DEF C!LogDecide
<1>6. QED
  BY <1>1, <1>2, <1>3, <1>4, <1>5

-----------------------------------------------------------------------------
(* The row and what clock calls are about to save stay in order.           *)
LEMMA EntriesStep ==
    ASSUME C!TypeOK, C!CallsInv, C!EntriesInv, [C!Next]_(C!vars)
    PROVE  C!EntriesInv'
<1>1. CASE UNCHANGED C!vars
  BY <1>1 DEF C!vars, C!EntriesInv, C!Orderly
<1>2. CASE C!Next
  <2>1. PICK h \in Calls :
          \/ C!ClockStart(h) \/ Reading(h) \/ C!SaveOnline(h) \/ C!SaveRow(h)
          \/ C!LogDecide(h) \/ C!LogRead(h) \/ C!LogSave(h) \/ C!Abort(h)
    BY <1>2, Acts
  <2> DEFINE Sound(x, cl, p, c, o) ==
               p[x] \in C!Clocking /\ c[x].causes \cap C!Doubling = {} /\ cl[x].at < Day =>
                 C!Orderly(c[x].row.entries, o)
  <2>2. SUFFICES ASSUME blots' \cap C!Doubling = {}
                 PROVE  /\ C!Orderly(dayRow'.entries, clock')
                        /\ \A x \in DOMAIN clockCopy' : Sound(x, clockCall', clockPc', clockCopy',
                            clock')
    BY DEF C!EntriesInv
  <2>3. /\ dayRow.entries \in Seq(C!Entry) /\ clock \in Int
        /\ clockPc \in [Calls -> C!Steps]
    BY ClockAssumption DEF C!TypeOK, C!Row
  <2>4. "raced" \notin blots'
    BY <2>2 DEF C!Doubling
  <2>5. blots \subseteq blots' => /\ "raced" \notin blots /\ C!Orderly(dayRow.entries, clock)
                                  /\ \A x \in DOMAIN clockCopy : Sound(x, clockCall, clockPc,
                                      clockCopy, clock)
    BY <2>2, <2>4 DEF C!EntriesInv
  <2>6. CASE C!ClockStart(h)
    <3>1. blots \subseteq blots' /\ DOMAIN clockCopy \subseteq {h}
      BY <2>4, <2>6, Alone
    <3>2. clockPc[h] = "idle" /\ clockCopy' = clockCopy /\ dayRow' = dayRow
      BY <2>6 DEF C!ClockStart, C!Goto
    <3>3. DOMAIN clockCopy' = {}
      BY <3>1, <3>2 DEF C!CallsInv
    <3>4. clock' \in Int /\ clock <= clock'
      BY <2>6, ClockAssumption DEF C!ClockStart
    <3>5. C!Orderly(dayRow.entries, clock')
      BY <2>3, <2>5, <3>1, <3>4, LaterOrderly
    <3>6. QED
      BY <3>2, <3>3, <3>5
  <2>7. CASE Reading(h)
    <3>1. PICK on, isOnline, entries, causes : Reads(h, on, isOnline, entries, causes)
      BY <2>7 DEF Reading
    <3>2. blots \subseteq blots' /\ DOMAIN clockCopy' \subseteq {h}
      BY <2>4, <2>7, Alone
    <3>3. clockPc[h] = "clock_read" /\ UNCHANGED <<clock, dayRow, clockCall>>
      BY <3>1 DEF Reads, C!ToSave, C!Goto
    <3>4. clockCall[h].at = clock
      BY <2>5, <3>2, <3>3, Clocks DEF C!CallsInv, C!Clocking
    <3>5. clockCopy'[h].causes = causes /\ clockCopy'[h].row.entries = entries
      BY <3>1 DEF Reads, C!ToSave, C!Save
    <3>6. Sound(h, clockCall', clockPc', clockCopy', clock')
      BY <2>5, <3>1, <3>2, <3>3, <3>4, <3>5 DEF Reads
    <3>7. QED
      BY <2>5, <3>2, <3>3, <3>6
  <2>8. CASE C!SaveOnline(h)
    <3>1. UNCHANGED <<clock, dayRow, clockCall, clockCopy>> /\ blots \subseteq blots'
      BY <2>8 DEF C!SaveOnline
    <3>2. \A x \in DOMAIN clockCopy : clockPc'[x] \in C!Clocking => clockPc[x] \in C!Clocking
      BY <2>3, <2>8, ClockCopies DEF C!SaveOnline, C!Goto, C!Clocking
    <3>3. QED
      BY <2>5, <3>1, <3>2
  <2>9. CASE C!SaveRow(h)
    <3>1. blots \subseteq blots' /\ DOMAIN clockCopy \subseteq {h} /\ h \in DOMAIN clockCopy
      BY <2>4, <2>9, Alone DEF C!CallsInv, C!SaveRow, C!Goto
    <3>2. dayRow' = clockCopy[h].row /\ clock' = clock /\ DOMAIN clockCopy' = DOMAIN clockCopy \ {h}
      BY <2>9 DEF C!SaveRow, C!Forget, C!Delete
    <3>3. clockCopy[h].causes \cap C!Doubling = {}
      BY <2>2, <2>9 DEF C!SaveRow
    <3>4. clockCall[h].at < Day
      <4>1. clockPc[h] = "clock_save" /\ h \in DOMAIN clockCall
        BY <2>9, <3>1, ClockCopies DEF C!SaveRow, C!Goto
      <4>2. clockCall[h].at \in Int /\ Day \in Int
        <5>1. clockCall[h].at \in Instants
          BY <4>1 DEF C!CallsInv, C!Clocking
        <5>2. QED
          BY <5>1, TimesOfDay
      <4>3. ~(clockCall[h].at >= Day)
        BY <2>2, <2>9 DEF C!SaveRow, C!Doubling
      <4>4. QED
        BY <4>2, <4>3
    <3>5. C!Orderly(clockCopy[h].row.entries, clock)
      BY <2>5, <2>9, <3>1, <3>3, <3>4 DEF C!SaveRow, C!Goto, C!Clocking
    <3>6. QED
      BY <3>1, <3>2, <3>5
  <2>10. CASE C!LogDecide(h)
    BY <2>5, <2>10, Decides
  <2>11. CASE C!LogRead(h)
    <3>1. blots \subseteq blots' /\ DOMAIN clockCopy' \subseteq {h} /\ UNCHANGED <<clock, dayRow>>
      BY <2>4, <2>11, Alone DEF C!LogRead
    <3>2. clockPc'[h] \notin C!Clocking
      BY <2>3, <2>11 DEF C!LogRead, C!Goto, C!Clocking
    <3>3. QED
      BY <2>5, <3>1, <3>2
  <2>12. CASE C!LogSave(h)
    <3>1. clockPc[h] = "log_save" /\ clockCopy[h].causes \subseteq blots'
      BY <2>12 DEF C!LogSave, C!Goto
    <3>2. clockCopy[h].causes = {"logged"}
      BY <3>1, ClockCopies DEF C!CallsInv, C!InFlight
    <3>3. QED
      BY <2>2, <3>1, <3>2 DEF C!Doubling
  <2>13. CASE C!Abort(h)
    <3>1. blots \subseteq blots' /\ DOMAIN clockCopy \subseteq {h} /\ UNCHANGED <<clock, dayRow>>
      BY <2>4, <2>13, Alone DEF C!Abort
    <3>2. DOMAIN clockCopy' = DOMAIN clockCopy \ {h}
      BY <2>13 DEF C!Abort, C!Forget, C!Delete
    <3>3. QED
      BY <2>5, <3>1, <3>2
  <2>14. QED
    BY <2>1, <2>6, <2>7, <2>8, <2>9, <2>10, <2>11, <2>12, <2>13
<1>3. QED
  BY <1>1, <1>2

(* What a clock-out is about to save keeps recording the ongoing time.     *)
LEMMA WorkStep ==
    ASSUME C!TypeOK, C!CallsInv, C!WorkInv, [C!Next]_(C!vars)
    PROVE  C!WorkInv'
<1>1. CASE UNCHANGED C!vars
  BY <1>1 DEF C!vars, C!WorkInv, C!Records
<1>2. CASE C!Next
  <2>1. PICK h \in Calls :
          \/ C!ClockStart(h) \/ Reading(h) \/ C!SaveOnline(h) \/ C!SaveRow(h)
          \/ C!LogDecide(h) \/ C!LogRead(h) \/ C!LogSave(h) \/ C!Abort(h)
    BY <1>2, Acts
  <2> DEFINE Told(x) == clockPc[x] \in C!Clocking /\ clockCall[x].op = "clockOut"
      /\ clockCall[x].at < Day
                        /\ "nextShift" \notin clockCopy[x].causes
  <2>2. SUFFICES ASSUME "raced" \notin blots', NEW x \in DOMAIN clockCopy', Told(x)'
                 PROVE  C!Records(clockCopy[x].row.entries, clockCall[x].at)'
    BY DEF C!WorkInv
  <2>3. ASSUME blots \subseteq blots', x \in DOMAIN clockCopy, Told(x), UNCHANGED dayRow,
               clockCopy'[x] = clockCopy[x], clockCall'[x] = clockCall[x]
        PROVE  C!Records(clockCopy[x].row.entries, clockCall[x].at)'
    <3>1. C!Records(clockCopy[x].row.entries, clockCall[x].at)
      BY <2>2, <2>3 DEF C!WorkInv
    <3>2. QED
      BY <2>3, <3>1 DEF C!Records
  <2>4. CASE C!ClockStart(h)
    <3>1. DOMAIN clockCopy \subseteq {h} /\ clockPc[h] = "idle" /\ clockCopy' = clockCopy
      BY <2>2, <2>4, Alone DEF C!ClockStart, C!Goto
    <3>2. QED
      BY <2>2, <3>1, ClockCopies
  <2>5. CASE Reading(h)
    <3>1. PICK on, isOnline, entries, causes : Reads(h, on, isOnline, entries, causes)
      BY <2>5 DEF Reading
    <3>2. x = h
      BY <2>2, <2>5, Alone
    <3>3. UNCHANGED <<dayRow, clockCall>> /\ clockCopy'[h].causes = causes
              /\ clockCopy'[h].row.entries = entries
      BY <3>1 DEF Reads, C!ToSave, C!Save
    <3>4. C!Records(entries, clockCall[h].at)
      BY <2>2, <3>1, <3>2, <3>3 DEF Reads
    <3>5. QED
      BY <3>2, <3>3, <3>4 DEF C!Records
  <2>6. CASE C!SaveOnline(h)
    <3>1. UNCHANGED <<dayRow, clockCall, clockCopy, blots>>
      BY <2>6 DEF C!SaveOnline
    <3>2. clockPc[x] \in C!Clocking
      BY <2>2, <2>6, <3>1, ClockCopies DEF C!SaveOnline, C!Goto, C!Clocking, C!TypeOK
    <3>3. QED
      BY <2>2, <2>3, <3>1, <3>2
  <2>7. CASE C!SaveRow(h) \/ C!LogSave(h) \/ C!Abort(h)
    <3>1. DOMAIN clockCopy \subseteq {h} /\ DOMAIN clockCopy' = DOMAIN clockCopy \ {h}
      BY <2>2, <2>7, Alone DEF C!SaveRow, C!LogSave, C!Abort, C!Forget, C!Delete
    <3>2. QED
      BY <2>2, <3>1
  <2>8. CASE C!LogDecide(h)
    BY <2>2, <2>3, <2>8, Decides
  <2>9. CASE C!LogRead(h)
    <3>1. DOMAIN clockCopy' \subseteq {h}
      BY <2>2, <2>9, Alone
    <3>2. clockPc'[h] \notin C!Clocking
      BY <2>9 DEF C!LogRead, C!Goto, C!Clocking, C!TypeOK
    <3>3. QED
      BY <2>2, <3>1, <3>2
  <2>10. QED
    BY <2>1, <2>4, <2>5, <2>6, <2>7, <2>8, <2>9
<1>3. QED
  BY <1>1, <1>2

-----------------------------------------------------------------------------
(* Clock calls and approvals of logged time keep the invariant: what calls *)
(* carry, the order of the row's entries, and the work a clock-out saves.  *)
THEOREM ClockInductive == C!Spec => []C!IInv
<1>1. C!Init => C!IInv
  BY InitTypeCorrect, InitCalls DEF C!IInv
<1>2. C!IInv /\ [C!Next]_(C!vars) => C!IInv'
  BY TypeStep, CallsStep, EntriesStep, WorkStep DEF C!IInv
<1>3. QED
  BY <1>1, <1>2, PTL DEF C!Spec

(* The row of postClock and putAttendanceRequest is a list of entries with *)
(* hours of the day, and every call that runs has the copy it will save.   *)
THEOREM ClockTypeCorrect == C!Spec => []C!TypeOK
<1>1. C!IInv => C!TypeOK
  BY DEF C!IInv
<1>2. QED
  BY <1>1, ClockInductive, PTL

(* No minute is recorded twice, and no entry ends before it begins, unless *)
(* one of the causes named in EntriesDisjoint came first.                  *)
THEOREM ClockEntriesDisjoint == C!Spec => []EntriesDisjoint
<1>1. ASSUME C!IInv PROVE EntriesDisjoint
  <2>1. SUFFICES ASSUME blots \cap C!Doubling = {}, NEW i \in DOMAIN dayRow.entries,
                        NEW j \in DOMAIN dayRow.entries
                 PROVE  /\ dayRow.entries[i].ongoing
                            \/ dayRow.entries[i].clockIn <= dayRow.entries[i].clockOut
                        /\ i # j
                            => C!Minute(dayRow.entries[i]) \cap C!Minute(dayRow.entries[j]) = {}
    BY DEF EntriesDisjoint, C!EntriesDisjoint
  <2>2. dayRow.entries \in Seq(C!Entry) /\ C!Orderly(dayRow.entries, clock)
    BY <1>1, <2>1 DEF C!IInv, C!EntriesInv, C!TypeOK, C!Row
  <2>3. dayRow.entries[i].ongoing \/ dayRow.entries[i].clockIn <= dayRow.entries[i].clockOut
    BY <2>2 DEF C!Orderly
  <2> DEFINE e == dayRow.entries[i]
             f == dayRow.entries[j]
  <2>4. /\ e.clockIn \in Int /\ e.clockOut \in Int /\ e.ongoing \in BOOLEAN
        /\ f.clockIn \in Int /\ f.clockOut \in Int /\ f.ongoing \in BOOLEAN
    BY <2>2, EntryFields
  <2>5. ASSUME i # j PROVE C!Minute(e) \cap C!Minute(f) = {}
    <3>1. \/ ~e.ongoing /\ e.clockOut <= f.clockIn
          \/ ~f.ongoing /\ f.clockOut <= e.clockIn
      BY <2>2, <2>5 DEF C!Orderly
    <3> HIDE DEF e, f
    <3>2. \A m \in C!Minute(e) : m \in Int /\ e.clockIn <= m /\ m < e.clockOut
      BY ClockAssumption DEF C!Minute, C!Minutes
    <3>3. \A m \in C!Minute(f) : m \in Int /\ f.clockIn <= m /\ m < f.clockOut
      BY ClockAssumption DEF C!Minute, C!Minutes
    <3>4. QED
      BY <2>4, <3>1, <3>2, <3>3
  <2>6. QED
    BY <2>3, <2>5
<1>2. QED
  BY <1>1, ClockInductive, PTL

(* When postClock answers a clock-out, the time since the hour of the      *)
(* clock-in is recorded, but for the exceptions named in WorkIsKept.       *)
THEOREM ClockWorkIsKept == C!Spec => WorkIsKept
<1> DEFINE WorkKept(h) ==
      clockPc[h] = "clock_save" /\ clockPc'[h] = "done" /\ clockCall[h].op = "clockOut" =>
         \/ blots' \cap {"raced", "nextShift", "overnight"} # {}
         \/ \A i \in C!Ongoing(dayRow.entries) :
              LET in == dayRow.entries[i].clockIn IN
              in # C!Undefined =>
                \A m \in in .. clockCall[h].at - 1 :
                  \E e \in C!Range(dayRow'.entries) : m \in C!Minute(e)
<1>1. ASSUME C!IInv, [C!Next]_(C!vars), NEW h \in Calls PROVE WorkKept(h)
  <2>1. SUFFICES ASSUME clockPc[h] = "clock_save", clockPc'[h] = "done",
                            clockCall[h].op = "clockOut",
                        blots' \cap {"raced", "nextShift", "overnight"} = {}
                 PROVE  \A i \in C!Ongoing(dayRow.entries) :
                          dayRow.entries[i].clockIn # C!Undefined =>
                          \A m \in dayRow.entries[i].clockIn .. clockCall[h].at - 1 :
                            \E e \in C!Range(dayRow'.entries) : m \in C!Minute(e)
    OBVIOUS
  <2>2. C!SaveRow(h)
    <3>1. C!Next /\ C!TypeOK /\ C!CallsInv
      BY <1>1, <2>1 DEF C!vars, C!IInv
    <3>2. PICK g \in Calls :
            \/ C!ClockStart(g) \/ Reading(g) \/ C!SaveOnline(g) \/ C!SaveRow(g)
            \/ C!LogDecide(g) \/ C!LogRead(g) \/ C!LogSave(g) \/ C!Abort(g)
      BY <3>1, Acts
    <3>3. \A from, to : C!Goto(g, from, to) => g = h /\ from = "clock_save" /\ to = "done"
      BY <2>1, <3>1 DEF C!Goto, C!TypeOK
    <3>4. ~C!Abort(g)
      BY <2>1, <3>1 DEF C!Abort, C!TypeOK
    <3>5. ~C!Goto(g, "clock_read", "clock_online") /\ \A to : ~C!Goto(g, "idle", to)
      BY <3>3
    <3>6. ~Reading(g) /\ ~C!LogDecide(g)
      BY <3>5 DEF Reading, Reads, C!ToSave, C!LogDecide
    <3>7. QED
      BY <3>2, <3>3, <3>4, <3>5, <3>6 DEF C!ClockStart, C!SaveOnline, C!SaveRow, C!LogRead,
          C!LogSave
  <2>3. dayRow' = clockCopy[h].row /\ blots' = blots \cup clockCopy[h].causes
            \cup {c \in {"overnight"} : clockCall[h].at >= Day}
    BY <2>2 DEF C!SaveRow
  <2>4. h \in DOMAIN clockCopy /\ h \in DOMAIN clockCall
    BY <1>1, <2>1, ClockCopies DEF C!IInv, C!CallsInv
  <2>5. clockCall[h].at < Day
    <3>1. clockCall[h].at \in Int /\ Day \in Int
      <4>1. clockCall[h].at \in Instants
        BY <1>1, <2>1, <2>4 DEF C!IInv, C!CallsInv, C!Clocking
      <4>2. QED
        BY <4>1, TimesOfDay
    <3>2. QED
      BY <2>1, <2>3, <3>1
  <2>6. "raced" \notin blots /\ "nextShift" \notin clockCopy[h].causes
    BY <2>1, <2>3
  <2>7. C!Records(clockCopy[h].row.entries, clockCall[h].at)
    BY <1>1, <2>1, <2>4, <2>5, <2>6 DEF C!IInv, C!WorkInv, C!Clocking
  <2>8. QED
    BY <2>3, <2>7 DEF C!Records
<1>2. C!IInv /\ [C!Next]_(C!vars) => [\A h \in Calls : WorkKept(h)]_(C!vars)
  BY <1>1
<1>3. QED
  BY <1>2, ClockInductive, PTL DEF C!Spec, WorkIsKept, C!WorkIsKept

-----------------------------------------------------------------------------
(* Side by side each of the two does what it does alone.                   *)
LEMMA SideBySide == AttendanceSpec => Spec /\ C!Spec
<1>1. AttendanceInit => Init /\ C!Init
  BY DEF AttendanceInit
<1>2. [AttendanceNext]_<<side, vars, hours>> => [Next]_vars /\ [C!Next]_(C!vars)
  BY DEF AttendanceNext, WeeksNext, ClockNext, hours, C!vars
<1>3. QED
  BY <1>1, <1>2, PTL DEF AttendanceSpec, Spec, C!Spec

(* In whatever order the calls on rows and summaries come and fail: what   *)
(* was answered as recorded stays on its row, and the entries of a row     *)
(* count no minute twice, each with the exceptions its property names.     *)
THEOREM AttendanceIsKept == AttendanceSpec => []TimeStays /\ []EntriesDisjoint
  BY SideBySide, WeeksTimeStays, ClockEntriesDisjoint, PTL
=============================================================================
