---------------------------- MODULE TimeTracking ----------------------------
(***************************************************************************)
(* TimeTrackingService: projects with their tasks, members and entries     *)
(* (TimeProjects), and the stopwatch of an entry (EntryTimer).  The one    *)
(* changes what an entry names, the other what its watch shows.  The       *)
(* writes that change both, whole rows saved through a timesheet request,  *)
(* are steps of both modules, each of which sees its own columns; neither  *)
(* reads those of the other, so a behaviour is one of either.  They take   *)
(* their calls from one set.                                               *)
(***************************************************************************)
EXTENDS Integers, TimeProjects

CONSTANTS
    Instants,    \* readings of the clock at which something may happen
    Zones,       \* offsets of the time zones of the callers
    Durations    \* durations an employee may enter by hand, in seconds

ASSUME ClockAssumption ==
    Instants \subseteq Nat /\ Zones \subseteq Nat /\ Durations \subseteq Nat

VARIABLES
    side,        \* which of the two is running
    clock, watch, watchPc, watchCall, watchCopy, watchHeld, since, worked, blots

stopwatch ==
    <<clock, watch, watchPc, watchCall, watchCopy, watchHeld, since, worked, blots>>

T == INSTANCE EntryTimer WITH
    entry <- watch, pc <- watchPc, call <- watchCall, copy <- watchCopy,
    held <- watchHeld

(* A stopwatch that nobody uses: one entry, saved and not started, before  *)
(* all that may happen.                                                    *)
Unused ==
    /\ ~watch.start
    /\ \A t \in Instants : clock <= t
    /\ \A z \in Zones : since.zone <= z
    /\ \A d \in Durations : worked <= d

TrackInit ==
    /\ Init /\ T!Init
    /\ side = "stopwatch" \/ (side = "projects" /\ Unused)

TrackNext ==
    \/ side = "projects" /\ Next /\ UNCHANGED <<side, stopwatch>>
    \/ side = "stopwatch" /\ T!Next /\ UNCHANGED <<side, vars>>

TrackSpec == TrackInit /\ [][TrackNext]_<<side, vars, stopwatch>>

(* The duration of an entry is the time worked by the clock                *)
(* (DurationIsWorked of EntryTimer, with its exceptions).                  *)
DurationIsWorked == T!DurationIsWorked
=============================================================================
