------------------------------ MODULE TimeClock ------------------------------
(***************************************************************************)
(* The attendance row of an employee and a day: clocking in and out by the *)
(* roster and by the company's attendance settings (postClock), and logged *)
(* time approved afterwards (putAttendanceRequest).  The row holds a list  *)
(* of time entries with their hours of the day; a handler saves the whole  *)
(* row as it has read and changed it.                                      *)
(*                                                                         *)
(* The row is that of day 0, as it is created, online and without entries. *)
(* The settings and the roster are owned by other handlers, which may      *)
(* change them at any time; a clock call reads each of them once, and what *)
(* it finds is any of Policies and of Rosters.  The shifts of a day are    *)
(* taken not to overlap: the handler sorts them by comparing the start of  *)
(* one with the end of another, which orders no others.  Attendance has    *)
(* what is assumed of the constants.                                       *)
(***************************************************************************)
EXTENDS Rows, Integers, SequencesExt

CONSTANTS
    Day, Instants,        \* length of a day; instants the clock may show
    WorkStart, WorkEnd,   \* the working day of the settings
    Policies,             \* attendance settings the company may have
    Rosters,              \* sets of shifts the employee may have
    Claims,               \* attendance requests (logged time)
    Calls                 \* HTTP calls; bounds how many are ever made

Minutes   == 0 .. Day - 1
Undefined == -1
Policy    == [clockInEarly: BOOLEAN, clockInLate: BOOLEAN,
              clockOutEarly: BOOLEAN, clockOutLate: BOOLEAN]
ShiftRow  == [day: Nat, start: Minutes, end: Minutes, isOvertime: BOOLEAN,
              breaks: SUBSET Minutes]
Claim     == [startTime: Minutes, endTime: Minutes, isOvertime: BOOLEAN]

VARIABLES
    clock,
    online,      \* the employee's flag
    row,         \* the row of hrm_attendance
    status,      \* status[c]: of attendance request c
    pc, call,
    copy,        \* copy[h]: the flag and the row as call h will save them
    blots        \* history variable: what has come between hours and entries

vars == <<clock, online, row, status, pc, call, copy, blots>>

Statuses == {"PENDING", "APPROVED", "REJECTED"}
Cause    == {"raced", "again", "evening", "nextShift", "overnight", "logged", "ahead"}
Entry    == [clockIn: Minutes \cup {Undefined}, clockOut: Minutes \cup {Undefined},
             ongoing: BOOLEAN, isOvertime: BOOLEAN]
Row      == [isOnline: BOOLEAN, entries: Seq(Entry)]
InFlight == {"clock_read", "clock_online", "clock_save", "log_read", "log_save"}
Steps    == InFlight \cup {"idle", "done", "failed"}

Goto(h, from, to) == pc[h] = from /\ pc' = [pc EXCEPT ![h] = to]
Race == {c \in {"raced"} : DOMAIN call # {}}

TimeOfDay(t) == t % Day

Init ==
    /\ clock \in Instants
    /\ online = TRUE /\ row = [isOnline |-> TRUE, entries |-> << >>]
    /\ status = [c \in Claims |-> "PENDING"]
    /\ pc = [h \in Calls |-> "idle"] /\ call = NoRows /\ copy = NoRows
    /\ blots = {}
-----------------------------------------------------------------------------
(* The first ongoing entry: the only one, or none. *)
Ongoing(entries) ==
    {i \in DOMAIN entries : /\ entries[i].ongoing
                            /\ \A j \in 1 .. i - 1 : ~entries[j].ongoing}

Closed(entries, i, now) == [entries EXCEPT ![i].clockOut = now, ![i].ongoing = FALSE]

NewEntry(in, out, overtime) ==
    [clockIn |-> in, clockOut |-> out, ongoing |-> out = Undefined, isOvertime |-> overtime]

(* The shifts of the day that have not ended. *)
Due(roster, t) == {s \in roster : s.day = t \div Day /\ s.end > TimeOfDay(t)}

First(due) == CHOOSE s \in due : \A o \in due : s.start <= o.start

Current(due, now) == {s \in due : s.start <= now /\ now <= s.end}

(* Slips that a change to the handlers could make; each stands in for the  *)
(* definition it is named after.                                           *)

(* The overtime is counted from the clock-in. *)
PastTheDay_Twice(entries, i, now) ==
    IF entries[i].isOvertime THEN Closed(entries, i, now)
    ELSE Append(Closed(entries, i, WorkEnd), NewEntry(entries[i].clockIn, now, TRUE))

(* What was worked after the working day is cut off. *)
PastTheDay_CutOff(entries, i, now) ==
    IF entries[i].isOvertime THEN Closed(entries, i, now)
    ELSE Closed(entries, i, WorkEnd)
-----------------------------------------------------------------------------
(* Clocking in.  On a rostered day the hour of the clock-in is that of the *)
(* next shift while none is running.  During a shift with breaks, an       *)
(* ongoing entry is closed if it began with a break; otherwise the new     *)
(* entry has no hour.                                                      *)

AtBreak(entries, due, now) ==
    Ongoing(entries) # {} /\ \E s \in Current(due, now) : s.breaks # {}

BreakOver(entries, due, now) ==
    {i \in Ongoing(entries) : \E s \in Current(due, now) : entries[i].clockIn \in s.breaks}

MayClockIn(p, entries, due, now) ==
    IF due = {} THEN p.clockInEarly /\ (now > WorkStart => p.clockInLate)
    ELSE \A s \in Current(due, now) :
            AtBreak(entries, due, now) \/ now = s.start \/ p.clockInLate

ClockInHour(entries, due, now) ==
    CASE due = {} -> now
      [] due # {} /\ Current(due, now) = {} -> First(due).start
      [] due # {} /\ Current(due, now) # {} ->
            IF AtBreak(entries, due, now) /\ BreakOver(entries, due, now) = {}
            THEN Undefined ELSE now

Overtime(p, due, now) ==
    IF due # {} THEN First(due).isOvertime
    ELSE p.clockInLate /\ now >= WorkEnd

ClockedIn(p, entries, due, now) ==
    LET over  == BreakOver(entries, due, now)
        ended == IF over # {} THEN Closed(entries, CHOOSE i \in over : TRUE, now)
                 ELSE entries
    IN  Append(ended, NewEntry(ClockInHour(entries, due, now), Undefined,
                               Overtime(p, due, now)))

(* Clocking out when no shift of the day is left.  After the working day,  *)
(* what was worked since is an entry of its own.                           *)
PastTheDay(entries, i, now) ==
    IF entries[i].isOvertime THEN Closed(entries, i, now)
    ELSE Append(Closed(entries, i, WorkEnd), NewEntry(WorkEnd, now, TRUE))

(* The clock-in was recorded at the start of a shift that is now gone.     *)
Ahead(in, now) == {c \in {"ahead"} : in > now}

Late(p, now) == p.clockOutLate /\ now > WorkEnd
-----------------------------------------------------------------------------
(* POST clock: the employee and the time are read first. *)
ClockStart(h) ==
    /\ Goto(h, "idle", "clock_read")
    /\ \E op \in {"clockIn", "clockOut"}, t \in Instants :
         /\ t >= clock /\ clock' = t
         /\ call' = Save(call, h, [op |-> op, at |-> t, on |-> online])
    /\ blots' = blots \cup Race
    /\ UNCHANGED <<online, row, status, copy>>

(* Then the attendance row and the day's shifts, and the row is changed.   *)
ToSave(h, on, isOnline, entries, causes) ==
    /\ Goto(h, "clock_read", "clock_online")
    /\ copy' = Save(copy, h, [on |-> on, causes |-> causes,
                              row |-> [isOnline |-> isOnline, entries |-> entries]])
    /\ UNCHANGED <<clock, online, row, status, call, blots>>

ClockIn(h) ==
    LET k == call[h]  now == TimeOfDay(k.at) IN
    /\ pc[h] = "clock_read" /\ k.op = "clockIn"
    /\ \E p \in Policies, roster \in Rosters : LET due == Due(roster, k.at) IN
         /\ MayClockIn(p, row.entries, due, now)
         /\ ToSave(h, TRUE, TRUE, ClockedIn(p, row.entries, due, now),
                   {c \in {"again"} : Ongoing(row.entries) # {}})

(* The shifts have not ended, so that the first one decides: the branches  *)
(* for an ended shift and for further shifts are never reached.            *)
ClockOutRostered(h) ==
    LET k == call[h]  now == TimeOfDay(k.at) IN
    /\ pc[h] = "clock_read" /\ k.op = "clockOut"
    /\ \E p \in Policies, roster \in Rosters, i \in Ongoing(row.entries) :
         LET due  == Due(roster, k.at)
             in   == row.entries[i].clockIn
             kept == {s \in due : in # Undefined /\ in <= s.end} IN
         \/ /\ kept = {} /\ due # {}
            /\ ToSave(h, k.on, row.isOnline, row.entries, Ahead(in, now))
         \/ /\ kept # {} /\ now <= First(kept).start
            /\ ToSave(h, FALSE, FALSE, RemoveAt(row.entries, i),
                      {c \in {"nextShift"} : in < now})
         \/ /\ kept # {} /\ now > First(kept).start /\ p.clockOutEarly
            /\ ToSave(h, k.on, FALSE, Closed(row.entries, i, now), Ahead(in, now))

ClockOutFree(h) ==
    LET k == call[h]  now == TimeOfDay(k.at) IN
    /\ pc[h] = "clock_read" /\ k.op = "clockOut"
    /\ \E roster \in Rosters : Due(roster, k.at) = {}
    /\ \E p \in Policies, i \in Ongoing(row.entries) :
         /\ p.clockOutLate /\ now <= WorkEnd => p.clockOutEarly
         /\ ToSave(h, FALSE, FALSE,
                   IF Late(p, now) THEN PastTheDay(row.entries, i, now)
                   ELSE Closed(row.entries, i, now),
                   Ahead(row.entries[i].clockIn, now) \cup
                     {c \in {"evening"} : Late(p, now) /\ row.entries[i].clockIn > WorkEnd})

SaveOnline(h) ==
    /\ Goto(h, "clock_online", "clock_save")
    /\ online' = copy[h].on
    /\ UNCHANGED <<clock, row, status, call, copy, blots>>

Forget(h) == call' = Delete(call, h) /\ copy' = Delete(copy, h)

SaveRow(h) ==
    /\ Goto(h, "clock_save", "done")
    /\ row' = copy[h].row
    /\ blots' = blots \cup copy[h].causes
                      \cup {c \in {"overnight"} : call[h].at >= Day}
    /\ Forget(h)
    /\ UNCHANGED <<clock, online, status>>
-----------------------------------------------------------------------------
(* PUT requests: putAttendanceRequest stores the status and adds the time  *)
(* of an approved request to the row, whatever the status was before.      *)
LogDecide(h) ==
    /\ \E c \in Claims, st \in {"APPROVED", "REJECTED"} :
         /\ status' = [status EXCEPT ![c] = st]
         /\ Goto(h, "idle", IF st = "APPROVED" THEN "log_read" ELSE "done")
         /\ call' = IF st = "APPROVED" THEN Save(call, h, [op |-> "log", claim |-> c])
                    ELSE call
         /\ blots' = blots \cup IF st = "APPROVED" THEN Race ELSE {}
    /\ UNCHANGED <<clock, online, row, copy>>

LogRead(h) ==
    LET c == call[h].claim IN
    /\ Goto(h, "log_read", "log_save")
    /\ copy' = Save(copy, h,
          [on |-> online, causes |-> {"logged"},
           row |-> [row EXCEPT !.entries =
                       Append(@, NewEntry(c.startTime, c.endTime, c.isOvertime))]])
    /\ UNCHANGED <<clock, online, row, status, call, blots>>

LogSave(h) ==
    /\ Goto(h, "log_save", "done")
    /\ row' = copy[h].row
    /\ blots' = blots \cup copy[h].causes
    /\ Forget(h)
    /\ UNCHANGED <<clock, online, status>>

(* Forbidden, nothing ongoing to clock out of, or any await that throws.   *)
Abort(h) ==
    /\ pc[h] \in InFlight
    /\ pc' = [pc EXCEPT ![h] = "failed"]
    /\ Forget(h)
    /\ UNCHANGED <<clock, online, row, status, blots>>

Next ==
    \E h \in Calls :
         \/ ClockStart(h) \/ ClockIn(h) \/ ClockOutRostered(h) \/ ClockOutFree(h)
         \/ SaveOnline(h) \/ SaveRow(h)
         \/ LogDecide(h) \/ LogRead(h) \/ LogSave(h) \/ Abort(h)

Spec == Init /\ [][Next]_vars
-----------------------------------------------------------------------------
TypeOK ==
    /\ clock \in Instants
    /\ online \in BOOLEAN /\ row \in Row
    /\ status \in [Claims -> Statuses]
    /\ pc \in [Calls -> Steps]
    /\ DOMAIN call = {h \in Calls : pc[h] \in InFlight}
    /\ IsTable(copy, Calls, [on: BOOLEAN, row: Row, causes: SUBSET Cause])
    /\ blots \subseteq Cause

Minute(e) == IF e.ongoing THEN {} ELSE {m \in Minutes : e.clockIn <= m /\ m < e.clockOut}

Doubling == {"raced", "again", "ahead", "evening", "overnight", "logged"}

(* No minute is recorded twice, and no entry ends before it begins, unless *)
(* two calls on the row overlapped, the employee clocked in twice, or out  *)
(* on another day, before the recorded clock-in, or after the working day  *)
(* from an entry that began after it, or logged time was approved.         *)
EntriesDisjoint ==
    \/ blots \cap Doubling # {}
    \/ \A i, j \in DOMAIN row.entries :
         LET e == row.entries[i] IN
         /\ e.ongoing \/ e.clockIn <= e.clockOut
         /\ i # j => Minute(e) \cap Minute(row.entries[j]) = {}

(* When a clock-out is answered, the time since the hour of the clock-in   *)
(* is recorded, unless the employee had another shift to come that day,    *)
(* the day was over, or two calls on the row overlapped.                   *)
WorkIsKept ==
    [][\A h \in Calls : pc[h] = "clock_save" /\ pc'[h] = "done" /\ call[h].op = "clockOut" =>
         \/ blots' \cap {"raced", "nextShift", "overnight"} # {}
         \/ \A i \in Ongoing(row.entries) :
              LET in == row.entries[i].clockIn IN
              in # Undefined =>
                \A m \in in .. call[h].at - 1 :
                  \E e \in Range(row'.entries) : m \in Minute(e)]_vars
-----------------------------------------------------------------------------
(* What makes the two inductive.  A call has what its place calls for; and *)
(* while no two overlap, the one in flight is as late as the clock.        *)
Clocking == {"clock_read", "clock_online", "clock_save"}

CallsInv ==
    /\ DOMAIN copy = {h \in Calls : pc[h] \in {"clock_online", "clock_save", "log_save"}}
    /\ \A h \in DOMAIN call :
         /\ pc[h] \in Clocking =>
              /\ call[h].op \in {"clockIn", "clockOut"} /\ call[h].on \in BOOLEAN
              /\ call[h].at \in Instants
         /\ pc[h] \in {"log_read", "log_save"} => call[h].claim \in Claims
         /\ pc[h] = "log_save" => copy[h].causes = {"logged"}
    /\ "raced" \notin blots => \A h \in DOMAIN call :
         /\ \A x \in DOMAIN call : x = h
         /\ pc[h] \in Clocking => call[h].at = clock

(* The entries up to hour t: one may be ongoing, since all others ended.   *)
Orderly(entries, t) ==
    /\ \A i \in DOMAIN entries :
         /\ entries[i].clockIn # Undefined
         /\ entries[i].ongoing \/ (entries[i].clockIn <= entries[i].clockOut /\ entries[i].clockOut <= t)
    /\ \A i, j \in DOMAIN entries : i # j =>
         /\ ~(entries[i].ongoing /\ entries[j].ongoing)
         /\ \/ ~entries[i].ongoing /\ entries[i].clockOut <= entries[j].clockIn
            \/ ~entries[j].ongoing /\ entries[j].clockOut <= entries[i].clockIn

EntriesInv ==
    blots \cap Doubling = {} =>
      /\ Orderly(row.entries, clock)
      /\ \A h \in DOMAIN copy :
           pc[h] \in Clocking /\ copy[h].causes \cap Doubling = {} /\ call[h].at < Day =>
             Orderly(copy[h].row.entries, clock)

(* What a clock-out is about to save records the time that is ongoing.     *)
Records(entries, at) ==
    \A i \in Ongoing(row.entries) : row.entries[i].clockIn # Undefined =>
      \A m \in row.entries[i].clockIn .. at - 1 : \E e \in Range(entries) : m \in Minute(e)

WorkInv ==
    "raced" \notin blots => \A h \in DOMAIN copy :
      pc[h] \in Clocking /\ call[h].op = "clockOut" /\ call[h].at < Day
        /\ "nextShift" \notin copy[h].causes => Records(copy[h].row.entries, call[h].at)

IInv == TypeOK /\ CallsInv /\ EntriesInv /\ WorkInv
=============================================================================
