----------------------------- MODULE Attendance -----------------------------
(***************************************************************************)
(* Attendance: the rows of a week and the summaries made of them           *)
(* (AttendanceWeeks), and the hours that the clock gives to the entries of *)
(* one row (TimeClock).  Both are about the table hrm_attendance: what the *)
(* one says of an entry, who opened it and who ended it, leaves out what   *)
(* the other says of it, its hours.  So a behaviour is one of either; they *)
(* take their calls from one set.                                          *)
(***************************************************************************)
EXTENDS Integers, AttendanceWeeks

CONSTANTS
    Day, Instants,        \* length of a day; instants the clock may show
    WorkStart, WorkEnd,   \* the working day of the settings
    Policies,             \* attendance settings the company may have
    Rosters,              \* sets of shifts the employee may have
    Claims                \* attendance requests (logged time)

VARIABLES
    side,                 \* which of the two is running
    clock, online, dayRow, claimStatus, clockPc, clockCall, clockCopy, blots

hours == <<clock, online, dayRow, claimStatus, clockPc, clockCall, clockCopy, blots>>

C == INSTANCE TimeClock WITH
    row <- dayRow, status <- claimStatus, pc <- clockPc, call <- clockCall, copy <- clockCopy

ASSUME ClockAssumption ==
    /\ Day \in Nat \ {0} /\ Instants \subseteq Nat
    /\ WorkStart \in C!Minutes /\ WorkEnd \in C!Minutes
    /\ Policies \subseteq C!Policy /\ Rosters \subseteq SUBSET C!ShiftRow
    /\ \A roster \in Rosters : \A s, o \in roster :
          s # o /\ s.day = o.day => s.end < o.start \/ o.end < s.start
    /\ Claims \subseteq C!Claim

(* The clock of a row that nobody clocks on stands before all that may     *)
(* happen.                                                                 *)
AttendanceInit ==
    /\ Init /\ C!Init
    /\ side = "clock" \/ (side = "weeks" /\ \A t \in Instants : clock <= t)

WeeksNext == side = "weeks" /\ Next /\ UNCHANGED <<side, hours>>
ClockNext == side = "clock" /\ C!Next /\ UNCHANGED <<side, vars>>

AttendanceNext == WeeksNext \/ ClockNext

AttendanceSpec == AttendanceInit /\ [][AttendanceNext]_<<side, vars, hours>>

(* No minute is recorded twice, and no entry ends before it begins         *)
(* (EntriesDisjoint of TimeClock, with its exceptions).                    *)
EntriesDisjoint == C!EntriesDisjoint

(* When a clock-out is answered, the time since the clock-in is recorded   *)
(* (WorkIsKept of TimeClock, with its exceptions).                         *)
WorkIsKept == C!WorkIsKept
=============================================================================
