------------------------------ MODULE EntryTimer ------------------------------
(***************************************************************************)
(* The stopwatch of a time entry: the methods start, pause, resume and     *)
(* stop of PUT timesheet/entry/:id (putProjectsTimeEntries), and the saves *)
(* of the whole entry through a timesheet request.  The entry keeps the    *)
(* time of day at which it was set going and, as a string of hours,        *)
(* minutes and seconds, the time worked so far; addTime parses both, adds  *)
(* what has passed, and formats the sum.                                   *)
(*                                                                         *)
(* A string 'HH:mm:ss' is the triple of its numbers, which may have a      *)
(* sign.  The clock counts seconds; a caller's zone is added to it.        *)
(***************************************************************************)
EXTENDS Integers, Rows

CONSTANTS
    Instants,    \* readings of the clock at which something may happen
    Zones,       \* offsets of the time zones of the callers
    Durations,   \* durations an employee may enter by hand, in seconds
    Calls        \* HTTP calls; bounds how many are ever made

VARIABLES
    clock,
    entry,       \* the row of hrm_time_entries
    pc, call,
    copy,        \* copy[h]: the row as call h has changed it
    held,        \* every row the entry has had; a timesheet request or a
                 \* client may still hold any of them
    since,       \* history: when and in which zone the watch was set going
    worked,      \* history: the seconds worked, by the clock
    blots        \* history variable: what has made the duration unreliable

ghosts == <<since, worked, blots>>
vars   == <<clock, entry, pc, call, copy, held, ghosts>>

Minute == 60
Hour   == 60 * Minute
Day    == 24 * Hour

Methods == {"start", "pause", "stop", "resume", "none"}
Unsent  == -1                        \* the call sends no duration
Cause   == {"overlap", "idlePause", "restart", "midnight", "zone", "oldRow"}
HMS     == Int \X (0..59) \X (-59..59)
Row     == [start: BOOLEAN, inProgress: BOOLEAN, startTime: HMS, duration: HMS]

Going(h) == pc[h] = "put_save"

Forget(h) == call' = Delete(call, h) /\ copy' = Delete(copy, h)
-----------------------------------------------------------------------------
Parse(t) == t[1] * Hour + t[2] * Minute + t[3]

(* a % b as JavaScript has it: the sign is that of a. *)
Remainder(a, b) == IF a >= 0 THEN a % b ELSE -((-a) % b)

Format(s) == <<s \div Hour, (s - (s \div Hour) * Hour) \div Minute, Remainder(s, Minute)>>

TimeOfDay(t) == Format(t % Day)

AddTime(duration, startTime, now) ==
    Format(Parse(duration) + (Parse(TimeOfDay(now)) - Parse(startTime)))
-----------------------------------------------------------------------------
(* POST timesheet/entry: postProjectsTimeEntries, with method 'start' or   *)
(* 'save', has inserted the entry.                                         *)
Init ==
    /\ clock \in Instants
    /\ \E z \in Zones, d \in Durations, going \in BOOLEAN :
         /\ entry = [start |-> going, inProgress |-> going, duration |-> Format(d),
                     startTime |-> IF going THEN TimeOfDay(clock + z) ELSE Format(0)]
         /\ since = [t |-> clock, zone |-> z]
         /\ worked = d
    /\ pc = [h \in Calls |-> "idle"]
    /\ call = NoRows /\ copy = NoRows
    /\ held = {entry}
    /\ blots = {}

Tick ==
    /\ clock' \in {t \in Instants : t > clock}
    /\ UNCHANGED <<entry, pc, call, copy, held, ghosts>>

Edited(r, d) == IF d = Unsent THEN r ELSE [r EXCEPT !.duration = Format(d)]

SetGoing(r, now) == [r EXCEPT !.inProgress = TRUE, !.startTime = TimeOfDay(now)]

Halt(r, now) == [r EXCEPT !.inProgress = FALSE,
                          !.duration = AddTime(r.duration, r.startTime, now)]

(* A slip: a stop no longer tests inProgress. *)
Changed_StopsAgain(r, m, d, now) ==
    LET e == Edited(r, d) IN
    CASE m = "none"   -> e
      [] m = "start"  -> [SetGoing(e, now) EXCEPT !.start = TRUE]
      [] m = "resume" -> SetGoing(e, now)
      [] m = "pause"  -> Halt(e, now)
      [] m = "stop"   -> [Halt(e, now) EXCEPT !.start = FALSE]

(* The row with the duration it is sent, as the method leaves it. *)
Changed(r, m, d, now) ==
    LET e == Edited(r, d) IN
    CASE m = "none"   -> e
      [] m = "start"  -> [SetGoing(e, now) EXCEPT !.start = TRUE]
      [] m = "resume" -> SetGoing(e, now)
      [] m = "pause"  -> Halt(e, now)
      [] m = "stop"   -> [(IF e.inProgress THEN Halt(e, now) ELSE e)
                             EXCEPT !.start = FALSE]

Put(h, m, d, z) ==
    [method |-> m, duration |-> d, at |-> clock, zone |-> z]

(* What makes the outcome of the call unreliable, should it be saved. *)
Doubts(r, m, z) ==
    LET ends == m \in {"pause", "stop"} /\ r.inProgress IN
    {c \in {"overlap"} : \E h \in Calls : Going(h)}
    \cup {c \in {"idlePause"} : m = "pause" /\ ~r.inProgress}
    \cup {c \in {"restart"} : m \in {"start", "resume"} /\ r.inProgress}
    \cup {c \in {"zone"} : ends /\ since.zone # z}
    \cup {c \in {"midnight"} : ends /\ (since.t + z) \div Day # (clock + z) \div Day}

(* A row other than the one the entry has is saved. *)
Older(r) == {c \in {"oldRow"} : r # entry}

PutRead(h) ==
    /\ pc[h] = "idle"
    /\ \E m \in Methods, z \in Zones, d \in Durations \cup {Unsent} :
         /\ call' = Save(call, h, Put(h, m, d, z))
         /\ copy' = Save(copy, h, Changed(entry, m, d, clock + z))
         /\ blots' = blots \cup Doubts(entry, m, z)
    /\ pc' = [pc EXCEPT ![h] = "put_save"]
    /\ UNCHANGED <<clock, entry, held, since, worked>>

(* With a notificationId the entry is not read: the row that the client    *)
(* sends is saved, one it has been shown, with a duration it may enter.    *)
PutReadRequest(h) ==
    /\ pc[h] = "idle"
    /\ \E r \in held, z \in Zones, d \in Durations \cup {Unsent} :
         /\ call' = Save(call, h, Put(h, "none", d, z))
         /\ copy' = Save(copy, h, Edited(r, d))
         /\ blots' = blots \cup Doubts(entry, "none", z) \cup Older(r)
    /\ pc' = [pc EXCEPT ![h] = "put_save"]
    /\ UNCHANGED <<clock, entry, held, since, worked>>

PutSave(h) ==
    LET k    == call[h]
        base == IF k.duration = Unsent THEN worked ELSE k.duration
    IN
    /\ Going(h)
    /\ entry' = copy[h]
    /\ held' = held \cup {copy[h]}
    /\ pc' = [pc EXCEPT ![h] = "done"]
    /\ since' = IF k.method \in {"start", "resume"} /\ ~entry.inProgress
                THEN [t |-> k.at, zone |-> k.zone] ELSE since
    /\ worked' = IF k.method \in {"pause", "stop"} /\ entry.inProgress
                 THEN base + (k.at - since.t) ELSE base
    /\ Forget(h)
    /\ UNCHANGED <<clock, blots>>

(* The handler throws, or refuses to start an entry that has a period.     *)
PutFails(h) ==
    /\ Going(h)
    /\ pc' = [pc EXCEPT ![h] = "failed"]
    /\ Forget(h)
    /\ UNCHANGED <<clock, entry, held, ghosts>>

(* The single statement by which the timesheet requests save the rows they *)
(* hold: postTimesheetRequest and putRequestById of NotificationsService.  *)
WriteBack ==
    /\ \E r \in held : entry' = r /\ blots' = blots \cup Older(r)
    /\ UNCHANGED <<clock, pc, call, copy, held, since, worked>>

Call(h) == PutRead(h) \/ PutReadRequest(h) \/ PutSave(h) \/ PutFails(h)

Next == Tick \/ WriteBack \/ \E h \in Calls : Call(h)

Spec == Init /\ [][Next]_vars
-----------------------------------------------------------------------------
TypeOK ==
    /\ clock \in Instants
    /\ entry \in Row
    /\ pc \in [Calls -> {"idle", "put_save", "done", "failed"}]
    /\ IsTable(call, Calls, [method: Methods, at: Instants, zone: Zones,
                             duration: Nat \cup {Unsent}])
    /\ IsTable(copy, Calls, Row)
    /\ held \subseteq Row
    /\ since \in [t: Instants, zone: Zones]
    /\ worked \in Int
    /\ blots \subseteq Cause

(* The duration is the time worked by the clock, however it was divided    *)
(* into runs, unless the watch ran past midnight or was stopped in another *)
(* zone than it was set going in, was paused while it was not running or   *)
(* set going while it was, two calls overlapped, or a row that the entry   *)
(* no longer had was saved through a timesheet request.                    *)
DurationIsWorked == blots = {} => Parse(entry.duration) = worked
-----------------------------------------------------------------------------
(* The inductive strengthening: while nothing has made the duration        *)
(* unreliable, the start time of a running watch is the time of day of     *)
(* since, at most one call is in flight, and what it is to save was made   *)
(* from the row that is still stored.                                      *)
WatchInv ==
    blots = {} =>
        /\ Parse(entry.duration) = worked /\ worked \in Nat
        /\ entry.inProgress => entry.startTime = TimeOfDay(since.t + since.zone)
        /\ since.t <= clock

(* What call h is to save was made from the row that is still stored, by a *)
(* method that suits it.                                                   *)
Sound(h) ==
    LET k == call[h] IN
    /\ copy[h] = Changed(entry, k.method, k.duration, k.at + k.zone)
    /\ since.t <= k.at
    /\ k.method \in {"start", "resume"} => ~entry.inProgress
    /\ k.method = "pause" => entry.inProgress
    /\ k.method \in {"pause", "stop"} /\ entry.inProgress =>
         /\ since.zone = k.zone
         /\ (since.t + k.zone) \div Day = (k.at + k.zone) \div Day

CallsInv ==
    /\ \A h \in Calls : Going(h) <=> h \in DOMAIN call
    /\ DOMAIN copy = DOMAIN call
    /\ \A h \in DOMAIN call : call[h].at <= clock
    /\ blots = {} => \A h \in DOMAIN call : DOMAIN call = {h} /\ Sound(h)

IInv == TypeOK /\ WatchInv /\ CallsInv
=============================================================================
