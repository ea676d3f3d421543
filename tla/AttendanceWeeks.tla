-------------------------- MODULE AttendanceWeeks --------------------------
(***************************************************************************)
(* Attendance rows and the weekly summaries made of them.  A row of        *)
(* hrm_attendance is opened for an employee and a day by POST attendance   *)
(* or by the approval of logged time, and collects entries; what the clock *)
(* makes of an entry is TimeClock's matter, here an entry is the call that *)
(* opened it and the one that ended it.  POST weekly-summary copies the    *)
(* completed entries of the week into a summary per employee; PUT          *)
(* weekly-summary decides on a summary and writes its copies back over the *)
(* rows.                                                                   *)
(*                                                                         *)
(* A caller names rows, and a decision brings the copies, that a screen    *)
(* has shown before, so that the call begins when the screen was opened.   *)
(* PUT attendance stores nothing and is not modelled.                      *)
(***************************************************************************)
EXTENDS Rows

CONSTANTS
    Calls,          \* HTTP calls; bounds how many are ever made
    Employees,      \* active employees of one company
    Days,           \* the days of one week
    Known,          \* rows there from the start
    Of, On          \* functions on them: whose they are, and their days

ASSUME WeekAssumption ==
    /\ Known \cap Calls = {}
    /\ Of \in [Known -> Employees] /\ On \in [Known -> Days]
    /\ \A a, b \in Known : a # b => <<Of[a], On[a]>> # <<Of[b], On[b]>>

VARIABLES
    attendance,     \* the table hrm_attendance
    summary,        \* the table hrm_attendance_summary, of one week
    pc, call,
    var,            \* var[h]: the variables of call h
    crossed,        \* history: pairs of calls that were in flight together
    missed          \* missed[f]: calls whose entries filing f came too early for

vars == <<attendance, summary, pc, call, var, crossed, missed>>

None == "none"
RowIds   == Known \cup Calls
Entry    == [by: Calls, ended: Calls \cup {None}]
Row      == [emp: Employees, day: Days, approved: BOOLEAN, entries: SUBSET Entry]
Statuses == {"pending", "approved", "rejected"}
Clock    == {"clockIn", "clockOut"}
InFlight == {"post_look", "post_insert", "clock_read", "clock_save", "log_read", "log_save",
             "log_insert", "file_read", "file_find", "file_save", "decide_read", "decide_row",
             "decide_make", "decide_save", "decide_store", "delete_read", "delete_act"}
Steps    == InFlight \cup {"idle", "done", "failed"}

Goto(h, from, to) == pc[h] = from /\ pc' = [pc EXCEPT ![h] = to]
Set(h, x)   == var' = Save(var, h, x)
Forget(h)   == var' = Delete(var, h)
Own(h)      == UNCHANGED <<attendance, summary, call, crossed, missed>>

(* A call keeps, for the properties, which calls were not done before it.  *)
Rest == {x \in Calls : pc[x] # "done"}

Begin(h, about) ==
    /\ call' = Save(call, h, about)
    /\ crossed' = crossed \cup {{h, x} : x \in {y \in Calls : pc[y] \in InFlight}}
    /\ UNCHANGED <<attendance, summary, var, missed>>

Init ==
    /\ attendance = [k \in Known |-> [emp |-> Of[k], day |-> On[k], approved |-> FALSE,
                                      entries |-> {}]]
    /\ summary = NoRows
    /\ pc = [h \in Calls |-> "idle"]
    /\ call = NoRows /\ var = NoRows
    /\ crossed = {} /\ missed = NoRows

OfDay(e, d) == {a \in DOMAIN attendance : attendance[a].emp = e /\ attendance[a].day = d}

Opened(k, entries) == [emp |-> k.emp, day |-> k.day, approved |-> FALSE, entries |-> entries]

SaveRow(h, from, to, id, row) ==
    /\ Goto(h, from, to)
    /\ attendance' = Save(attendance, id, row)
    /\ UNCHANGED <<summary, call, crossed, missed>>
-----------------------------------------------------------------------------
(* POST attendance: the row of the day is looked for, and opened if there  *)
(* is none (postAttendance); the controller then clocks in on it.          *)
Post(h) ==
    /\ Goto(h, "idle", "post_look")
    /\ \E e \in Employees, d \in Days :
         Begin(h, [op |-> "post", emp |-> e, day |-> d, rest |-> Rest])

PostLook(h) ==
    /\ pc[h] = "post_look"
    /\ LET found == OfDay(call[h].emp, call[h].day) IN
       \/ /\ found = {} /\ Goto(h, "post_look", "post_insert")
          /\ UNCHANGED var
       \/ \E a \in found : Goto(h, "post_look", "clock_read") /\ Set(h, [id |-> a])
    /\ Own(h)

PostInsert(h) ==
    /\ pc[h] = "post_insert"
    /\ SaveRow(h, "post_insert", "clock_read", h, Opened(call[h], {}))
    /\ Set(h, [id |-> h])

(* POST clock: postClock reads a row and the shifts of the day, then saves *)
(* the row.                                                                *)
ClockCall(h) ==
    /\ Goto(h, "idle", "clock_read")
    /\ \E op \in Clock, a \in DOMAIN attendance : Begin(h, [op |-> op, id |-> a, rest |-> Rest])

RowOf(h) == IF call[h].op = "post" THEN var[h].id ELSE call[h].id

Running(entries) == {e \in entries : e.ended = None}

(* A clock-out ends an entry that is running, or takes it out before the   *)
(* next shift begins, or leaves the row as it is.                          *)
Clocked(h, entries) ==
    IF call[h].op # "clockOut" THEN {entries \cup {[by |-> h, ended |-> None]}}
    ELSE UNION {{(entries \ {e}) \cup {[e EXCEPT !.ended = h]}, entries \ {e}, entries} :
                e \in Running(entries)}

ClockRead(h) ==
    /\ Goto(h, "clock_read", "clock_save")
    /\ RowOf(h) \in DOMAIN attendance
    /\ LET row == attendance[RowOf(h)] IN
       \E entries \in Clocked(h, row.entries) :
         Set(h, [id  |-> RowOf(h), row |-> [row EXCEPT !.entries = entries],
                 out |-> {e.by : e \in row.entries} \ {e.by : e \in entries}])
    /\ Own(h)

ClockSave(h) ==
    /\ pc[h] = "clock_save"
    /\ SaveRow(h, "clock_save", "done", var[h].id, var[h].row)
    /\ Set(h, [id |-> var[h].id, out |-> var[h].out])
-----------------------------------------------------------------------------
(* PUT requests: an approval of logged time adds it to the row that the    *)
(* caller names, or opens one without looking when the screen had none.    *)
Log(h) ==
    \E e \in Employees, d \in Days :
      \/ \E a \in OfDay(e, d) :
           /\ Goto(h, "idle", "log_read")
           /\ Begin(h, [op |-> "log", id |-> a, emp |-> e, day |-> d, rest |-> Rest])
      \/ /\ OfDay(e, d) = {} /\ Goto(h, "idle", "log_insert")
         /\ Begin(h, [op |-> "log", id |-> h, emp |-> e, day |-> d, rest |-> Rest])

Logged(h) == [by |-> h, ended |-> h]

LogRead(h) ==
    /\ Goto(h, "log_read", "log_save")
    /\ call[h].id \in DOMAIN attendance
    /\ LET row == attendance[call[h].id] IN
       Set(h, [id |-> call[h].id, row |-> [row EXCEPT !.entries = @ \cup {Logged(h)}]])
    /\ Own(h)

LogSave(h) ==
    /\ pc[h] = "log_save"
    /\ SaveRow(h, "log_save", "done", var[h].id, var[h].row)
    /\ Forget(h)

LogInsert(h) ==
    /\ pc[h] = "log_insert"
    /\ SaveRow(h, "log_insert", "done", h, Opened(call[h], {Logged(h)}))
    /\ UNCHANGED var
-----------------------------------------------------------------------------
(* POST weekly-summary: postSummary reads the rows, then the summaries of  *)
(* the week, and saves one for every employee, pending, with the entries   *)
(* that are completed.                                                     *)
File(h) == Begin(h, [op |-> "file", rest |-> Rest]) /\ Goto(h, "idle", "file_read")

(* Only what the clock has recorded is copied. *)
Copied_Clocked(row) ==
    [day |-> row.day, entries |-> {e \in row.entries : e.ended \notin {None, e.by}}]

Copied(row) == [day |-> row.day, entries |-> row.entries \ Running(row.entries)]

Copies(e) == [a \in {x \in DOMAIN attendance : attendance[x].emp = e} |-> Copied(attendance[a])]

(* Calls that have recorded nothing yet, and entries that are running.     *)
TooEarly ==
    Rest \cup
    {e.by : e \in Running(UNION {attendance[a].entries : a \in DOMAIN attendance})}

FileRead(h) ==
    /\ Goto(h, "file_read", "file_find")
    /\ Set(h, [copies |-> [e \in Employees |-> Copies(e)]])
    /\ missed' = Save(missed, h, TooEarly)
    /\ UNCHANGED <<attendance, summary, call, crossed>>

Found(e) == {s \in DOMAIN summary : summary[s].emp = e}

(* The summaries there are of another week. *)
FileFind_Anew(h) ==
    /\ Goto(h, "file_find", "file_save")
    /\ Set(h, [id |-> [e \in Employees |-> <<h, e>>], copies |-> var[h].copies])
    /\ Own(h)

FileFind(h) ==
    /\ Goto(h, "file_find", "file_save")
    /\ \E id \in [Employees -> DOMAIN summary \cup {<<h, e>> : e \in Employees}] :
         /\ \A e \in Employees : id[e] \in IF Found(e) = {} THEN {<<h, e>>} ELSE Found(e)
         /\ Set(h, [id |-> id, copies |-> var[h].copies])
    /\ Own(h)

FileSave(h) ==
    /\ pc[h] = "file_save"
    /\ LET copies == var[h].copies IN \E e \in DOMAIN copies :
         /\ summary' = Save(summary, var[h].id[e],
                            [emp |-> e, status |-> "pending", copies |-> copies[e]])
         /\ Set(h, [id |-> var[h].id, copies |-> Delete(copies, e)])
         /\ Goto(h, "file_save", IF DOMAIN copies = {e} THEN "done" ELSE "file_save")
    /\ UNCHANGED <<attendance, call, crossed, missed>>
-----------------------------------------------------------------------------
(* PUT weekly-summary: updateSummary takes the status and the copies of    *)
(* the body, goes through the copies one by one, and saves the summary     *)
(* last.                                                                   *)
Decide(h) ==
    /\ Goto(h, "idle", "decide_read")
    /\ \E s \in DOMAIN summary, st \in {"approved", "rejected", None} :
         Begin(h, [op |-> "decide", id |-> s, status |-> st, copies |-> summary[s].copies,
                  rest |-> Rest])

DecideRead(h) ==
    /\ pc[h] = "decide_read"
    /\ LET k == call[h]
           read == summary[k.id] IN
       /\ Set(h, [sum  |-> [emp |-> read.emp, copies |-> k.copies,
                            status |-> IF k.status = None THEN read.status ELSE k.status],
                  todo |-> DOMAIN k.copies])
       /\ Goto(h, "decide_read", IF DOMAIN k.copies = {} THEN "decide_store" ELSE "decide_row")
    /\ Own(h)

(* What the loop makes of a row: the flag is set by the status of the      *)
(* body, the entries are those of the copy.                                *)
Decided(h, row, a) ==
    [row EXCEPT !.entries = call[h].copies[a].entries,
                !.approved = IF call[h].status = None THEN @ ELSE call[h].status = "approved"]

(* The row found is saved, whatever the loop made of it. *)
DecideRow_AsFound(h) ==
    /\ Goto(h, "decide_row", "decide_save")
    /\ \E a \in var[h].todo \cap DOMAIN attendance :
         Set(h, [sum |-> var[h].sum, todo |-> var[h].todo \ {a}, id |-> a, row |-> attendance[a]])
    /\ Own(h)

DecideRow(h) ==
    /\ pc[h] = "decide_row"
    /\ \E a \in var[h].todo :
         LET found == a \in DOMAIN attendance
             anew  == [emp |-> var[h].sum.emp, day |-> call[h].copies[a].day]
             row   == IF found THEN attendance[a] ELSE Opened(anew, {})
         IN /\ Goto(h, "decide_row", IF found THEN "decide_save" ELSE "decide_make")
            /\ Set(h, [sum |-> var[h].sum, todo |-> var[h].todo \ {a}, id |-> a,
                       row |-> Decided(h, row, a)])
    /\ Own(h)

(* A row that is gone is opened again, under its id.                       *)
DecideMake(h) ==
    /\ pc[h] = "decide_make"
    /\ SaveRow(h, "decide_make", "decide_save", var[h].id, [var[h].row EXCEPT !.approved = FALSE])
    /\ UNCHANGED var

DecideSave(h) ==
    /\ pc[h] = "decide_save"
    /\ SaveRow(h, "decide_save", IF var[h].todo = {} THEN "decide_store" ELSE "decide_row",
               var[h].id, var[h].row)
    /\ UNCHANGED var

DecideStore(h) ==
    /\ Goto(h, "decide_store", "done")
    /\ summary' = Save(summary, call[h].id, var[h].sum)
    /\ Forget(h)
    /\ UNCHANGED <<attendance, call, crossed, missed>>
-----------------------------------------------------------------------------
(* DELETE attendance: the row is read, and the DELETE names all of its     *)
(* columns, so that it deletes a row that is still as it was read.         *)
DeleteCall(h) ==
    /\ Goto(h, "idle", "delete_read")
    /\ \E a \in DOMAIN attendance : Begin(h, [op |-> "delete", id |-> a, rest |-> Rest])

DeleteRead(h) ==
    /\ Goto(h, "delete_read", "delete_act")
    /\ call[h].id \in DOMAIN attendance
    /\ Set(h, [row |-> attendance[call[h].id]])
    /\ Own(h)

DeleteAct(h) ==
    /\ Goto(h, "delete_act", "done")
    /\ LET a == call[h].id IN
       attendance' = IF a \in DOMAIN attendance /\ attendance[a] = var[h].row
                     THEN Delete(attendance, a) ELSE attendance
    /\ Forget(h)
    /\ UNCHANGED <<summary, call, crossed, missed>>

(* A row is gone, nothing is running, or any await throws.                 *)
Abort(h) ==
    /\ pc[h] \in InFlight
    /\ pc' = [pc EXCEPT ![h] = "failed"]
    /\ Forget(h) /\ Own(h)

Next ==
    \E h \in Calls :
      \/ Post(h) \/ ClockCall(h) \/ Log(h) \/ File(h) \/ Decide(h) \/ DeleteCall(h)
      \/ PostLook(h) \/ PostInsert(h) \/ ClockRead(h) \/ ClockSave(h)
      \/ LogRead(h) \/ LogSave(h) \/ LogInsert(h)
      \/ FileRead(h) \/ FileFind(h) \/ FileSave(h)
      \/ DecideRead(h) \/ DecideRow(h) \/ DecideMake(h) \/ DecideSave(h) \/ DecideStore(h)
      \/ DeleteRead(h) \/ DeleteAct(h) \/ Abort(h)

Spec == Init /\ [][Next]_vars
-----------------------------------------------------------------------------
TypeOK ==
    /\ IsTable(attendance, RowIds, Row)
    /\ \A s \in DOMAIN summary :
         /\ summary[s].emp \in Employees /\ summary[s].status \in Statuses
         /\ DOMAIN summary[s].copies \subseteq RowIds
         /\ UNION {summary[s].copies[a].entries : a \in DOMAIN summary[s].copies} \subseteq Entry
    /\ pc \in [Calls -> Steps]
    /\ DOMAIN call \subseteq Calls /\ DOMAIN var \subseteq Calls
    /\ crossed \subseteq {{h, x} : h, x \in Calls}
    /\ IsTable(missed, Calls, SUBSET Calls)

Op(h)     == call[h].op
All(ops)  == {h \in DOMAIN call : Op(h) \in ops}
Done(ops) == {h \in All(ops) : pc[h] = "done"}

(* The calls that save or delete row a                                     *)
Touches(a) ==
    {h \in All(Clock \cup {"log", "delete"}) : call[h].id = a} \cup
    {h \in All({"post"}) : h \in DOMAIN var /\ var[h].id = a} \cup
    {h \in All({"decide"}) : a \in DOMAIN call[h].copies}

(* Time that a call has recorded on a row, and answered, stays in it until *)
(* the row is deleted or a clock-out takes the entry out.  It is lost only *)
(* to another call on the row that was in flight with the one that         *)
(* recorded it, or to a decision, if the week was filed before the time    *)
(* was recorded or while it was running.                                   *)
TimeStays ==
    \A x \in Done({"post", "clockIn", "log"}) :
      LET a == RowOf(x) IN
      \/ a \in DOMAIN attendance /\ \E e \in attendance[a].entries : e.by = x
      \/ \E d \in Touches(a) : Op(d) = "delete"
      \/ \E o \in Done({"clockOut"}) : x \in var[o].out
      \/ \E h \in Touches(a) \ {x} : {h, x} \in crossed
      \/ \E d \in Touches(a), f \in DOMAIN missed : Op(d) = "decide" /\ x \in missed[f]

(* While a summary is approved, every row it has a copy of is approved and *)
(* has the entries of the copy, unless another call on the row was in      *)
(* flight with the decision or came after it, or a call has changed the    *)
(* copies without a decision: a row that was deleted is then opened again, *)
(* and not approved.                                                       *)
SummaryAgrees ==
    \A s \in DOMAIN summary : summary[s].status = "approved" =>
      \A a \in DOMAIN summary[s].copies :
        \/ /\ a \in DOMAIN attendance /\ attendance[a].approved
           /\ attendance[a].entries = summary[s].copies[a].entries
        \/ \E d \in Done({"decide"}) : call[d].id = s /\ call[d].status = None
        \/ \A d \in Done({"decide"}) :
             call[d].id = s => (Touches(a) \ {d}) \cap call[d].rest # {}

(* An employee has one row a day and one summary a week.  Two rows need    *)
(* two calls that opened them in flight together, or the deletion of one   *)
(* and a decision that opens it again; two summaries, two filings in       *)
(* flight together.                                                        *)
OneOfEach ==
    /\ \A a, b \in DOMAIN attendance :
         a # b /\ attendance[a].emp = attendance[b].emp /\ attendance[a].day = attendance[b].day =>
           \/ {a, b} \in crossed
           \/ \E d \in Touches(a) \cup Touches(b) : Op(d) = "delete"
    /\ \A s, t \in DOMAIN summary :
         s # t /\ summary[s].emp = summary[t].emp => {s[1], t[1]} \in crossed
-----------------------------------------------------------------------------
(* What makes these inductive.  A row that has ever been stored under an   *)
(* id is there, or was asked to be deleted; whose it is, and of which day, *)
(* the id says.                                                            *)
Deleted(a) == \E d \in All({"delete"}) : call[d].id = a
Had(a)     == a \in Known \cup All({"post", "log"}) /\ (a \in DOMAIN attendance \/ Deleted(a))
Whose(a)   == IF a \in Known THEN <<Of[a], On[a]>> ELSE <<call[a].emp, call[a].day>>

Fits(a, row) == row \in Row /\ <<row.emp, row.day>> = Whose(a)
AllFit(e, copies) ==
    \A a \in DOMAIN copies :
      Had(a) /\ Whose(a) = <<e, copies[a].day>> /\ copies[a].entries \subseteq Entry

(* Where a call is, and what it was told when it began.                    *)
Placed(h) ==
    /\ pc[h] \in {"post_look", "post_insert"} => Op(h) = "post"
    /\ pc[h] \in {"clock_read", "clock_save"} => Op(h) \in Clock \cup {"post"}
    /\ pc[h] \in {"log_read", "log_save", "log_insert"} => Op(h) = "log"
    /\ pc[h] \in {"file_read", "file_find", "file_save"} => Op(h) = "file"
    /\ pc[h] \in {"decide_read", "decide_row", "decide_make", "decide_save", "decide_store"} =>
         Op(h) = "decide"
    /\ pc[h] \in {"delete_read", "delete_act"} => Op(h) = "delete"
    /\ \/ pc[h] \in {"clock_save", "log_save", "file_find", "file_save", "decide_row",
                     "decide_make", "decide_save", "decide_store", "delete_act"}
       \/ Op(h) = "post" /\ pc[h] = "clock_read"
       \/ Op(h) \in Clock \cup {"post"} /\ pc[h] = "done"
       => h \in DOMAIN var

CallsInv ==
    /\ DOMAIN call = {h \in Calls : pc[h] # "idle"} /\ DOMAIN var \subseteq DOMAIN call
    /\ \A h, x \in Calls : h # x /\ pc[h] \in InFlight /\ pc[x] \in InFlight => {h, x} \in crossed
    /\ \A h \in DOMAIN call : Rest \subseteq call[h].rest /\ Placed(h)
    /\ \A f \in DOMAIN missed : /\ f \in DOMAIN call /\ Op(f) = "file" /\ pc[f] # "file_read"
                                /\ Rest \subseteq missed[f]

(* The rows and summaries that are stored or about to be.                  *)
Brings(h) ==
    /\ Op(h) \in {"post", "log"} => call[h].emp \in Employees /\ call[h].day \in Days
    /\ Op(h) \in Clock \cup {"delete"} => Had(call[h].id)
    /\ Op(h) = "log" => IF pc[h] = "log_insert" THEN call[h].id = h
                        ELSE Had(call[h].id) \/ pc[h] = "failed"
    /\ Op(h) = "decide" => /\ call[h].id \in DOMAIN summary
                           /\ call[h].status \in {"approved", "rejected", None}
                           /\ AllFit(summary[call[h].id].emp, call[h].copies)
    /\ Op(h) = "post" /\ pc[h] \in {"clock_read", "clock_save", "done"} => Had(var[h].id)

Holds(h) ==
    /\ pc[h] \in {"clock_save", "log_save"} =>
         var[h].id = RowOf(h) /\ Fits(var[h].id, var[h].row)
    /\ pc[h] \in {"file_find", "file_save"} =>
         /\ h \in DOMAIN missed
         /\ \A e \in DOMAIN var[h].copies : e \in Employees /\ AllFit(e, var[h].copies[e])
    /\ pc[h] \in {"decide_row", "decide_make", "decide_save", "decide_store"} =>
         /\ var[h].sum.emp = summary[call[h].id].emp /\ var[h].sum.status \in Statuses
         /\ var[h].sum.copies = call[h].copies
         /\ call[h].status # None => var[h].sum.status = call[h].status
    /\ pc[h] \in {"decide_row", "decide_make", "decide_save"} =>
         var[h].todo \subseteq DOMAIN call[h].copies
    /\ pc[h] \in {"decide_make", "decide_save"} =>
         /\ var[h].id \in DOMAIN call[h].copies /\ Fits(var[h].id, var[h].row)
         /\ var[h].row.entries = call[h].copies[var[h].id].entries
         /\ call[h].status # None => var[h].row.approved = (call[h].status = "approved")

Filed(s) ==
    /\ s = <<s[1], summary[s].emp>> /\ s[1] \in DOMAIN missed
    /\ summary[s].emp \in Employees /\ summary[s].status \in Statuses
    /\ AllFit(summary[s].emp, summary[s].copies)

RowsInv ==
    /\ \A a \in DOMAIN attendance : Had(a) /\ Fits(a, attendance[a])
    /\ \A s \in DOMAIN summary : Filed(s)
    /\ \A h \in DOMAIN call : Brings(h) /\ Holds(h)

(* Whoever is about to open a row has its id for himself, and knows of no  *)
(* other row of the day; the same of a summary of the week.                *)
Opens(h) ==
    /\ pc[h] \in {"post_look", "post_insert", "log_insert"} => ~Had(h)
    /\ pc[h] \in {"post_insert", "log_insert"} =>
         \A b \in DOMAIN attendance : Whose(b) = Whose(h) => {h, b} \in crossed \/ Deleted(b)

Begins(h) ==
    pc[h] = "file_save" => \A e \in DOMAIN var[h].copies :
      LET s == var[h].id[e] IN
      \/ s \in DOMAIN summary /\ summary[s].emp = e
      \/ s = <<h, e>> /\ \A t \in DOMAIN summary : summary[t].emp = e => {h, t[1]} \in crossed

OpenInv == \A h \in DOMAIN call : Opens(h) /\ Begins(h)

(* Rows and summaries stay apart as OneOfEach has it, by their ids.        *)
Apart ==
    /\ \A a, b \in DOMAIN attendance :
         a # b /\ Whose(a) = Whose(b) => {a, b} \in crossed \/ Deleted(a) \/ Deleted(b)
    /\ \A s, t \in DOMAIN summary :
         s # t /\ summary[s].emp = summary[t].emp => {s[1], t[1]} \in crossed

(* Why an entry of call x may be missing from row a, for good.  A post     *)
(* counts once it has saved the row.                                       *)
Saves(a) == {h \in Touches(a) : Op(h) = "post" => pc[h] = "done"}
Missed   == UNION {missed[f] : f \in DOMAIN missed}
Lost(x, a) ==
    \/ Deleted(a)
    \/ \E o \in Done({"clockOut"}) : x \in var[o].out
    \/ \E h \in Saves(a) \ {x} : {h, x} \in crossed
    \/ x \in Missed /\ \E d \in All({"decide"}) : a \in DOMAIN call[d].copies

Has(entries, x) == \E e \in entries : e.by = x

(* What copies of rows, or a row read, keep of an entry of x on row a.     *)
Copy(copies, x, a) ==
    a \in DOMAIN copies => Has(copies[a].entries, x) \/ Lost(x, a) \/ x \in Missed
Keeps(h, x, a) ==
    /\ pc[h] \in {"clock_save", "log_save"} /\ var[h].id = a =>
         \/ Has(var[h].row.entries, x) \/ Lost(x, a) \/ {h, x} \in crossed
         \/ Op(h) = "clockOut" /\ x \in var[h].out
    /\ pc[h] \in {"file_find", "file_save"} =>
         \A e \in DOMAIN var[h].copies : Copy(var[h].copies[e], x, a)
    /\ Op(h) = "decide" => Copy(call[h].copies, x, a)
Stays(x, a) ==
    /\ (a \in DOMAIN attendance /\ Has(attendance[a].entries, x)) \/ Lost(x, a)
    /\ \A s \in DOMAIN summary : Copy(summary[s].copies, x, a)
    /\ \A h \in DOMAIN call : Keeps(h, x, a)

StaysInv ==
    /\ \A h \in DOMAIN call :
         /\ pc[h] = "clock_save" /\ Op(h) # "clockOut" => Has(var[h].row.entries, h)
         /\ pc[h] = "log_save" => Has(var[h].row.entries, h)
    /\ \A x \in Done({"post", "clockIn", "log"}) : \A a \in {RowOf(x)} : Stays(x, a)

(* A row that a decision has been through agrees with it, if no other call *)
(* saves it that was not done before; and an approved summary is as the    *)
(* last decision on it has stored it.                                      *)
Agrees(d, a) ==
    /\ a \in DOMAIN attendance /\ attendance[a].approved = (call[d].status = "approved")
    /\ attendance[a].entries = call[d].copies[a].entries

Through(d, a) ==
    \/ pc[d] \in {"decide_store", "done"}
    \/ /\ pc[d] \in {"decide_row", "decide_make", "decide_save"} /\ a \notin var[d].todo
       /\ pc[d] # "decide_row" => a # var[d].id

Obeyed(d) ==
    \A a \in DOMAIN call[d].copies :
      Through(d, a) /\ (Saves(a) \ {d}) \cap call[d].rest = {} => Agrees(d, a)

Decisions(s) == {d \in Done({"decide"}) : call[d].id = s}

Settled(s) ==
    \/ \E d \in Decisions(s) : call[d].status = None
    \/ \E d \in Decisions(s) : /\ call[d].status = "approved" /\ call[d].copies = summary[s].copies
                         /\ \A o \in Decisions(s) \ {d} : d \in call[o].rest

AgreesInv ==
    /\ \A d \in All({"decide"}) : call[d].status # None => Obeyed(d)
    /\ \A s \in DOMAIN summary : summary[s].status = "approved" => Settled(s)

IInv == TypeOK /\ CallsInv /\ RowsInv /\ OpenInv /\ Apart /\ StaysInv /\ AgreesInv
=============================================================================
