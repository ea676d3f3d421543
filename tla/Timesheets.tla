------------------------------ MODULE Timesheets ------------------------------
(***************************************************************************)
(* Approval of time entries.  A timesheet request holds a copy of every    *)
(* entry it asks approval for, in the JSON column timeEntries.  Filing the *)
(* request, deciding it and editing an entry through it save the copies    *)
(* into hrm_time_entries one by one, then the request; an entry can also   *)
(* be edited and deleted on its own.  The handlers belong to               *)
(* NotificationsService and TimeTrackingService.  Each await is a step.    *)
(*                                                                         *)
(* The id of a request is the call that files it.                          *)
(***************************************************************************)
EXTENDS FiniteSets, Rows

CONSTANTS
    Entries,     \* ids of time entries
    Data,        \* what the employee can edit in an entry
    Calls        \* HTTP calls; bounds how many are ever made

VARIABLES
    entry,       \* hrm_time_entries
    request,     \* hrm_timesheet_requests
    pc, call,
    copy,        \* copy[h]: the request row, or the entry, that h will save
    todo,        \* todo[h]: the entries the loop of h has yet to save
    blots        \* history variable: what has come between an entry and its copies

vars == <<entry, request, pc, call, copy, todo, blots>>

Statuses == {"pending", "approved", "denied", "withdrawn"}
Cause    == {"abandoned", "resubmitted", "edited", "redecided", "raced"}

EntryRow   == [data: Data, requested: BOOLEAN, approved: BOOLEAN]
EntryRows  == UNION {[ns -> EntryRow] : ns \in SUBSET Entries}
RequestRow == [status: Statuses, rows: EntryRows]
Ops        == {"file", "decide", "edit", "put", "drop"}
Call       == [op: Ops, req: Calls, on: SUBSET Entries, status: Statuses]

FileSteps   == {"file_mark", "file_store", "file_notify"}
DecideSteps == {"decide_mark", "decide_store"}
EditSteps   == {"edit_read", "edit_entry", "edit_store", "edit_notify"}
DropSteps   == {"drop_read", "drop_store"}
InFlight    == FileSteps \cup DecideSteps \cup EditSteps \cup DropSteps \cup {"put_save"}
Steps       == InFlight \cup {"idle", "done", "failed"}

Goto(h, from, to) == pc[h] = from /\ pc' = [pc EXCEPT ![h] = to]

Asks(op, r, ns, status) == [op |-> op, req |-> r, on |-> ns, status |-> status]

Blame(ns, cause) == blots' = [n \in Entries |->
                        IF n \in ns THEN blots[n] \cup {cause} ELSE blots[n]]

Telling  == {"file_notify", "edit_notify"}   \* the approvers

(* Calls that have yet to save something of request r. *)
On(r) == {h \in DOMAIN call : call[h].req = r /\ pc[h] \in InFlight \ Telling}

(* Entries of which a request or a call in flight has a copy. *)
Copied ==
    (UNION {DOMAIN request[r].rows : r \in DOMAIN request}) \cup
    (UNION {DOMAIN copy[h].rows : h \in {x \in DOMAIN copy : pc[x] \in InFlight \ Telling}})

Init ==
    /\ \E ns \in SUBSET Entries : \E d \in [ns -> Data] :
         entry = [n \in ns |-> [data |-> d[n], requested |-> FALSE, approved |-> FALSE]]
    /\ request = NoRows
    /\ pc = [h \in Calls |-> "idle"]
    /\ call = NoRows /\ copy = NoRows /\ todo = NoRows
    /\ blots = [n \in Entries |-> {}]

(* The copy undoes what was done to the entry since it was read.           *)
SaveEntry(h, n) == entry' = Save(entry, n, copy[h].rows[n])
-----------------------------------------------------------------------------
(* Slips that a change to the handlers could make; each stands in for the  *)
(* definition it is named after.                                           *)

(* Withdrawing a request leaves the entries as they are. *)
Mark_KeepsWithdrawn(rows, status) ==
    [n \in DOMAIN rows |->
        CASE status = "pending"  -> [rows[n] EXCEPT !.requested = TRUE]
          [] status = "approved" -> [rows[n] EXCEPT !.approved = TRUE]
          [] status \in {"withdrawn", "denied"} -> rows[n]]

(* The copy of a deleted entry stays in the request. *)
DropRead_KeepsCopy(h) ==
    /\ Goto(h, "drop_read", "drop_store")
    /\ call[h].req \in DOMAIN request
    /\ copy' = Save(copy, h, request[call[h].req])
    /\ UNCHANGED <<entry, request, call, todo, blots>>
-----------------------------------------------------------------------------
Mark(rows, status) ==
    [n \in DOMAIN rows |->
        CASE status = "pending"   -> [rows[n] EXCEPT !.requested = TRUE]
          [] status = "approved"  -> [rows[n] EXCEPT !.approved = TRUE]
          [] status = "withdrawn" -> [rows[n] EXCEPT !.requested = FALSE]
          [] status = "denied"    -> rows[n]]

Without(rows, n) == [m \in DOMAIN rows \ {n} |-> rows[m]]
-----------------------------------------------------------------------------
(* POST timesheet-request: postTimesheetRequest.  The client sends the     *)
(* entries as it has been shown them.                                      *)

FileRead(h) ==
    /\ Goto(h, "idle", "file_mark")
    /\ \E ns \in (SUBSET DOMAIN entry) \ {{}} :
         LET rows == [n \in ns |-> entry[n]] IN
         /\ call' = Save(call, h, Asks("file", h, ns, "pending"))
         /\ copy' = Save(copy, h, [status |-> "pending", rows |-> Mark(rows, "pending")])
         /\ todo' = Save(todo, h, ns)
         /\ Blame(ns \cap (Copied \cup {n \in ns : entry[n].approved}), "resubmitted")
    /\ UNCHANGED <<entry, request>>

(* One turn of the loop of a filing or of a decision. *)
MarkEntry(h) ==
    /\ pc[h] \in {"file_mark", "decide_mark"}
    /\ \E n \in todo[h] :
         /\ SaveEntry(h, n)
         /\ todo' = [todo EXCEPT ![h] = @ \ {n}]
    /\ UNCHANGED <<request, pc, call, copy, blots>>

LoopEnds(h) ==
    /\ \/ Goto(h, "file_mark", "file_store")
       \/ Goto(h, "decide_mark", "decide_store")
    /\ todo[h] = {}
    /\ UNCHANGED <<entry, request, call, copy, todo, blots>>

FileStore(h) ==
    /\ Goto(h, "file_store", "file_notify")
    /\ request' = Save(request, h, copy[h])
    /\ UNCHANGED <<entry, call, copy, todo, blots>>

FileNotify(h) ==
    /\ Goto(h, "file_notify", "done")
    /\ UNCHANGED <<entry, request, call, copy, todo, blots>>
-----------------------------------------------------------------------------
(* PUT request/:id: putRequestById, for a timesheet request                *)

DecideRead(h) ==
    /\ Goto(h, "idle", "decide_mark")
    /\ \E r \in DOMAIN request, s \in Statuses \ {"pending"} :
         LET rows == request[r].rows IN
         /\ call' = Save(call, h, Asks("decide", r, DOMAIN rows, s))
         /\ copy' = Save(copy, h, [status |-> s, rows |-> Mark(rows, s)])
         /\ todo' = Save(todo, h, IF s = "denied" THEN {} ELSE DOMAIN rows)
         /\ blots' = [n \in Entries |-> blots[n] \cup
                        (IF n \in DOMAIN rows
                         THEN {c \in {"raced"} : On(r) # {}} \cup
                              {c \in {"redecided"} : request[r].status # "pending"}
                         ELSE {})]
    /\ UNCHANGED <<entry, request>>

DecideStore(h) ==
    /\ Goto(h, "decide_store", "done")
    /\ request' = Save(request, call[h].req, copy[h])
    /\ UNCHANGED <<entry, call, copy, todo, blots>>
-----------------------------------------------------------------------------
(* PUT timesheet/entry/:id with a notificationId: putProjectsTimeEntries.  *)
(* The client sends the entry as the request has shown it, edited.         *)

EditView(h) ==
    /\ Goto(h, "idle", "edit_read")
    /\ \E r \in DOMAIN request, d \in Data : \E n \in DOMAIN request[r].rows :
         LET old == request[r].rows[n] IN
         /\ call' = Save(call, h, Asks("edit", r, {n}, "pending"))
         /\ copy' = Save(copy, h, [status |-> "pending",
                                   rows |-> [m \in {n} |-> [old EXCEPT !.data = d]]])
         /\ Blame(IF On(r) = {} THEN {} ELSE DOMAIN request[r].rows, "raced")
    /\ UNCHANGED <<entry, request, todo>>

EditRead(h) ==
    LET r == call[h].req IN
    \/ /\ Goto(h, "edit_read", "edit_entry")
       /\ r \in DOMAIN request
       /\ copy' = Save(copy, h, [status |-> request[r].status,
                rows |-> [m \in DOMAIN request[r].rows \cup call[h].on |->
                             IF m \in call[h].on THEN copy[h].rows[m]
                                                 ELSE request[r].rows[m]]])
       /\ UNCHANGED <<entry, request, call, todo, blots>>
    \/ /\ Goto(h, "edit_read", "failed")     \* requests[0] is undefined: TypeError
       /\ r \notin DOMAIN request
       /\ UNCHANGED <<entry, request, call, copy, todo, blots>>

EditSaveEntry(h) ==
    /\ Goto(h, "edit_entry", "edit_store")
    /\ \E n \in call[h].on : SaveEntry(h, n)
    /\ UNCHANGED <<request, call, copy, todo, blots>>

EditStore(h) ==
    /\ Goto(h, "edit_store", "edit_notify")
    /\ request' = Save(request, call[h].req, copy[h])
    /\ UNCHANGED <<entry, call, copy, todo, blots>>

EditNotify(h) ==
    /\ Goto(h, "edit_notify", "done")
    /\ UNCHANGED <<entry, request, call, copy, todo, blots>>
-----------------------------------------------------------------------------
(* PUT timesheet/entry/:id without a notificationId.  Whether the entry    *)
(* was requested or approved makes no difference.                          *)

PutRead(h) ==
    /\ Goto(h, "idle", "put_save")
    /\ \E n \in DOMAIN entry, d \in Data :
         /\ call' = Save(call, h, Asks("put", h, {n}, "pending"))
         /\ copy' = Save(copy, h, [status |-> "pending",
                                   rows |-> [m \in {n} |-> [entry[n] EXCEPT !.data = d]]])
         /\ Blame(Copied \cap {n}, "edited")
    /\ UNCHANGED <<entry, request, todo>>

PutSave(h) ==
    /\ Goto(h, "put_save", "done")
    /\ \E n \in call[h].on : SaveEntry(h, n)
    /\ UNCHANGED <<request, call, copy, todo, blots>>
-----------------------------------------------------------------------------
(* DELETE timesheet/entry/:id: deleteProjectsTimeEntries                   *)

DeleteEntry(n) ==
    /\ n \in DOMAIN entry
    /\ entry' = Delete(entry, n)
    /\ Blame(Copied \cap {n}, "edited")
    /\ UNCHANGED <<request, pc, call, copy, todo>>

(* With a notificationId the entry is taken out of the request as well. *)
DropEntry(h) ==
    /\ Goto(h, "idle", "drop_read")
    /\ \E r \in DOMAIN request : \E n \in DOMAIN request[r].rows :
         /\ entry' = Delete(entry, n)
         /\ call' = Save(call, h, Asks("drop", r, {n}, "pending"))
         /\ Blame(IF On(r) = {} THEN {} ELSE DOMAIN request[r].rows, "raced")
    /\ UNCHANGED <<request, copy, todo>>

DropRead(h) ==
    LET r == call[h].req IN
    \/ /\ Goto(h, "drop_read", "drop_store")
       /\ r \in DOMAIN request
       /\ \E n \in call[h].on :
            copy' = Save(copy, h, [request[r] EXCEPT !.rows = Without(@, n)])
       /\ UNCHANGED <<entry, request, call, todo, blots>>
    \/ /\ Goto(h, "drop_read", "failed")
       /\ r \notin DOMAIN request
       /\ UNCHANGED <<entry, request, call, copy, todo, blots>>

DropStore(h) ==
    /\ Goto(h, "drop_store", "done")
    /\ request' = Save(request, call[h].req, copy[h])
    /\ UNCHANGED <<entry, call, copy, todo, blots>>

(* DELETE request/:id: deleteRequestById, and DELETE timesheet-request/:id *)
(* (deleteTimesheetRequestById): the entries keep their flags.             *)
DeleteRequest(r) ==
    /\ r \in DOMAIN request
    /\ request' = Delete(request, r)
    /\ Blame(IF On(r) = {} THEN {} ELSE DOMAIN request[r].rows, "raced")
    /\ UNCHANGED <<entry, pc, call, copy, todo>>

(* Any await may throw and the process may stop; what was saved stays.     *)
Abort(h) ==
    /\ pc[h] \in InFlight
    /\ pc' = [pc EXCEPT ![h] = "failed"]
    /\ Blame(call[h].on, "abandoned")
    /\ UNCHANGED <<entry, request, call, copy, todo>>
-----------------------------------------------------------------------------
File(h)   == FileRead(h) \/ FileStore(h) \/ FileNotify(h)
Decide(h) == DecideRead(h) \/ DecideStore(h)
Edit(h)   == \/ EditView(h) \/ EditRead(h) \/ EditSaveEntry(h)
             \/ EditStore(h) \/ EditNotify(h)
Put(h)    == PutRead(h) \/ PutSave(h)
Drop(h)   == DropEntry(h) \/ DropRead(h) \/ DropStore(h)

Next ==
    \/ \E h \in Calls : File(h) \/ MarkEntry(h) \/ LoopEnds(h) \/ Decide(h)
                        \/ Edit(h) \/ Put(h) \/ Drop(h) \/ Abort(h)
    \/ \E n \in Entries : DeleteEntry(n)
    \/ \E r \in Calls : DeleteRequest(r)

Spec == Init /\ [][Next]_vars
-----------------------------------------------------------------------------
TypeOK ==
    /\ IsTable(entry, Entries, EntryRow)
    /\ IsTable(request, Calls, RequestRow)
    /\ pc \in [Calls -> Steps]
    /\ IsTable(call, Calls, Call)
    /\ IsTable(copy, Calls, RequestRow)
    /\ IsTable(todo, Calls, SUBSET Entries)
    /\ blots \in [Entries -> SUBSET Cause]

(* Calls that are to save copies held by r. *)
Saving(r) == {h \in On(r) : pc[h] \in {"decide_mark", "decide_store",
                                       "edit_store", "drop_read", "drop_store"}}

(* The copies a request holds, and what has been decided on them, agree    *)
(* with the stored entries: all of them, whatever the request's size.      *)
(* Exceptions: a call on the request is between its saves, or has failed   *)
(* there; two calls on the request overlapped; the entry was edited or     *)
(* deleted on its own or asked for again while a copy existed.             *)
SnapshotsAgree ==
    \A r \in DOMAIN request : \A n \in DOMAIN request[r].rows :
        \/ n \in DOMAIN entry /\ entry[n] = request[r].rows[n]
        \/ Saving(r) # {}
        \/ blots[n] \cap {"abandoned", "resubmitted", "edited", "raced"} # {}

(* The flags of the entries in a request say what its status says, unless  *)
(* the request was decided twice, two calls on it overlapped, or an entry  *)
(* was asked for again.  (A request withdrawn after its approval keeps its *)
(* entries approved.)                                                      *)
FlagsFollowStatus ==
    \A r \in DOMAIN request : \A n \in DOMAIN request[r].rows :
        LET row == request[r].rows[n] IN
        \/ row.requested = (request[r].status # "withdrawn")
           /\ row.approved = (request[r].status = "approved")
        \/ blots[n] \cap {"resubmitted", "redecided", "raced"} # {}

(* What a request tells of its entries is so: the copies are the entries,  *)
(* and their flags follow from its status.                                 *)
CopiesAgree == SnapshotsAgree /\ FlagsFollowStatus

(* A decided request becomes pending again only if two calls on it         *)
(* overlapped: editing or deleting an entry through it, which saves the    *)
(* whole request, does not undo a decision taken before.  A deleted entry  *)
(* comes back only if it was deleted on its own while a copy existed, or   *)
(* with its request by a call that failed or overlapped with another, or   *)
(* if it was asked for twice.                                              *)
NothingIsUndone ==
    [][/\ \A r \in DOMAIN request \cap DOMAIN request' :
            request'[r].status = "pending" =>
              \/ request[r].status = "pending"
              \/ \E h \in DOMAIN call :
                    call[h].req = r /\ \E n \in call[h].on : "raced" \in blots[n]
       /\ \A n \in DOMAIN entry' \ DOMAIN entry :
            blots[n] \cap {"edited", "raced", "resubmitted", "abandoned"} # {}]_vars
-----------------------------------------------------------------------------
(* The inductive strengthening of CopiesAgree and NothingIsUndone.         *)

Filed == {"file_notify", "done", "failed"}

(* CallsInv ties a call to its place in its handler.                       *)
Placed(h) ==
    LET op == call[h].op  r == call[h].req IN
    /\ pc[h] \in FileSteps => op = "file"
    /\ pc[h] \in DecideSteps => op = "decide"
    /\ pc[h] \in EditSteps => op = "edit"
    /\ pc[h] \in DropSteps => op = "drop"
    /\ pc[h] = "put_save" => op = "put"
    /\ op \in {"file", "put"} => r = h
    /\ op \in {"decide", "edit", "drop"} =>
           r \in DOMAIN call /\ call[r].op = "file" /\ pc[r] \in Filed
    /\ op # "drop" => h \in DOMAIN copy /\ call[h].on \subseteq DOMAIN copy[h].rows
    /\ pc[h] = "drop_store" => h \in DOMAIN copy /\ call[h].on \cap DOMAIN copy[h].rows = {}
    /\ op \in {"file", "decide", "put"} \/ pc[h] = "edit_read" => DOMAIN copy[h].rows = call[h].on
    /\ op \in {"edit", "drop", "put"} => \E n \in Entries : call[h].on = {n}
    /\ op \in {"file", "decide"} => h \in DOMAIN todo /\ todo[h] \subseteq call[h].on
    /\ pc[h] \in {"file_store", "decide_store"} => todo[h] = {}
    /\ op = "decide" => copy[h].status # "pending"

CallsInv ==
    /\ \A h \in Calls : pc[h] = "idle" <=> h \notin DOMAIN call
    /\ DOMAIN copy \subseteq DOMAIN call
    /\ \A h \in DOMAIN call : Placed(h)
    /\ \A r \in DOMAIN request : r \in DOMAIN call /\ call[r].op = "file" /\ pc[r] \in Filed

(* The entries a call has a copy of, or is about to take out.              *)
Held(h) == call[h].on \cup (IF h \in DOMAIN copy THEN DOMAIN copy[h].rows ELSE {})

Active(h) == h \in DOMAIN call /\ pc[h] \in InFlight \ Telling
Through   == {"decide", "edit", "drop"}
Lists(r, n) == r \in DOMAIN request /\ n \in DOMAIN request[r].rows

(* RaceInv: while no other call on its request has overlapped with it, a   *)
(* call finds the request as it was when it read it.                       *)
Follows(h, n) ==
    LET r == call[h].req IN
    /\ pc[h] \in {"edit_read", "edit_entry", "edit_store"} /\ n \in call[h].on =>
           /\ copy[h].rows[n].requested = request[r].rows[n].requested
           /\ copy[h].rows[n].approved = request[r].rows[n].approved
    /\ pc[h] \in {"edit_entry", "edit_store", "drop_store"} =>
           /\ copy[h].status = request[r].status
           /\ n \notin call[h].on => copy[h].rows[n] = request[r].rows[n]

RaceInv ==
    /\ \A r \in DOMAIN request : \A n \in DOMAIN request[r].rows :
           "raced" \in blots[n] \/ \A g, h \in On(r) : g = h
    /\ \A h \in Calls : Active(h) /\ call[h].op \in Through =>
           \A n \in Held(h) :
               \/ "raced" \in blots[n]
               \/ /\ Lists(call[h].req, n) /\ Follows(h, n)
                  /\ \A g \in On(call[h].req) : g = h

(* SoleInv: an entry has copies in one request, or with one call.          *)
Clean(n) == blots[n] \cap {"abandoned", "resubmitted", "edited", "raced"} = {}

SoleInv ==
    \A n \in Entries : Clean(n) =>
        /\ \A r, q \in DOMAIN request : Lists(r, n) /\ Lists(q, n) => r = q
        /\ \A h \in Calls : Active(h) /\ n \in Held(h) =>
             /\ \A g \in Calls : Active(g) /\ n \in Held(g) => g = h
             /\ \A q \in DOMAIN request : Lists(q, n) => q = call[h].req

(* SnapInv: the entry is what the request, or the call that is changing    *)
(* it, has for it.                                                         *)
Changed(h, n) ==
    \/ pc[h] \in DecideSteps /\ n \in call[h].on \ todo[h]
    \/ pc[h] \in {"edit_store"} \cup DropSteps /\ n \in call[h].on

SnapInv ==
    \A n \in Entries : Clean(n) =>
        /\ \A r \in DOMAIN request : Lists(r, n) =>
             \/ n \in DOMAIN entry /\ entry[n] = request[r].rows[n]
             \/ \E h \in On(r) : Changed(h, n)
        /\ \A h \in Calls : Active(h) /\ n \in Held(h) /\ call[h].op # "drop" =>
             /\ n \in DOMAIN entry
             /\ \/ call[h].op = "file" /\ n \notin todo[h]
                \/ call[h].op \in {"decide", "edit"} /\ Changed(h, n)
                => entry[n] = copy[h].rows[n]

(* FlagsInv: the flags of a copy say what its status says.                 *)
Told(row, status) ==
    row.requested = (status # "withdrawn") /\ row.approved = (status = "approved")

FlagsInv ==
    \A n \in Entries : blots[n] \cap {"resubmitted", "redecided", "raced"} = {} =>
        /\ \A r \in DOMAIN request : Lists(r, n) => Told(request[r].rows[n], request[r].status)
        /\ \A h \in Calls : Active(h) /\ call[h].op \in {"file", "decide"} /\ n \in Held(h) =>
               Told(copy[h].rows[n], copy[h].status)

IInv == TypeOK /\ CallsInv /\ RaceInv /\ SoleInv /\ SnapInv /\ FlagsInv
=============================================================================
