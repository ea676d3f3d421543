------------------------------- MODULE Shifts -------------------------------
(***************************************************************************)
(* Roster shifts and the requests to drop, open and take them: the shift   *)
(* handlers of RosterService and ShiftRequestService.  A shift that nobody *)
(* has is marked open and offered by a pending request of type 'OPEN', to  *)
(* which employees apply.  A handler keeps the request and the shift it    *)
(* has read and saves them whole; updateShiftRequest saves the request a   *)
(* second time after everything else.  Each await is a step.               *)
(*                                                                         *)
(* The id of a request is the call that inserts it: a call inserts at most *)
(* one.  Shifts of an import are inserted one by one, as those of a POST.  *)
(***************************************************************************)
EXTENDS Rows

CONSTANTS
    Employees,
    Nobody,      \* the employeeId of zeros
    Shifts,      \* uuids; bounds how many shifts are ever added
    Calls        \* HTTP calls; bounds how many are ever made

ASSUME NobodyAssumption == Nobody \notin Employees

VARIABLES
    shift,       \* hrm_roster_shifts
    request,     \* hrm_shift_requests
    pc, call,
    mine,        \* mine[h]: the request row call h has read, as it will save it
    copy,        \* copy[h]: the shift row call h has read
    added,       \* history: ids ever given to a shift
    overlapped,  \* history: requests that two calls were updating at once
    blots        \* history variable: what has come between a shift and its offer

vars == <<shift, request, pc, call, mine, copy, added, overlapped, blots>>

Statuses   == {"PENDING", "APPROVED", "REJECTED"}
ShiftRow   == [emp: Employees \cup {Nobody}, open: BOOLEAN]
RequestRow == [offer: BOOLEAN,               \* the type is 'OPEN'
               shift: Shifts, status: Statuses, applied: SUBSET Employees]
Cause      == {"raced", "abandoned", "assignedOpen", "offerRejected"}

(* What updateShiftRequest is asked to do: approve a DROP, OPEN or SWAP,   *)
(* reject, APPLY, or something that no branch handles.                     *)
Approvals == {"DROP", "OPEN", "SWAP"}
Updates   == Approvals \cup {"reject", "APPLY", "other"}
Names     == {"DROP", "SWAP", "APPLY"}       \* those that name an employee

InFlight == {"read_shift", "save_request", "save_shift", "post_offer", "finish",
             "edit_save"}
Steps    == InFlight \cup {"idle", "done", "failed"}

Call == [op: Updates \cup {"edit"}, req: Calls, shift: Shifts,
         emp: Employees \cup {Nobody}]

Goto(h, from, to) == pc[h] = from /\ pc' = [pc EXCEPT ![h] = to]
Blame(s, causes)  == blots' = [blots EXCEPT ![s] = @ \cup causes]

Busy(s) == {h \in DOMAIN call : call[h].shift = s}

(* A call begins on shift s: with another in flight it may undo its work.  *)
Race(s) == {c \in {"raced"} : Busy(s) # {}}

Forget(h) ==
    /\ call' = Delete(call, h)
    /\ mine' = Delete(mine, h)
    /\ copy' = Delete(copy, h)

Offer(s) == [offer |-> TRUE, shift |-> s, status |-> "PENDING", applied |-> {}]

Init ==
    /\ shift = NoRows /\ request = NoRows
    /\ pc = [h \in Calls |-> "idle"]
    /\ call = NoRows /\ mine = NoRows /\ copy = NoRows
    /\ added = {} /\ overlapped = {}
    /\ blots = [s \in Shifts |-> {}]
-----------------------------------------------------------------------------
(* Slips that a change to the handlers could make; each stands in for the  *)
(* definition it is named after.                                           *)

(* An application replaces those made before. *)
Updated_Replaces(row, k) ==
    CASE k.op \in Approvals -> [row EXCEPT !.status = "APPROVED"]
      [] k.op = "reject"    -> [row EXCEPT !.status = "REJECTED"]
      [] k.op = "APPLY"     -> [row EXCEPT !.applied = {k.emp}]
      [] k.op = "other"     -> row

(* An approved SWAP leaves isOpen as it was. *)
Assigned_StaysOpen(row, k) ==
    CASE k.op \in {"DROP", "SWAP"} -> [row EXCEPT !.emp = k.emp]
      [] k.op = "OPEN"             -> [emp |-> Nobody, open |-> TRUE]

(* An approved DROP leaves the shift to the one who asked to drop it. *)
Assigned_KeepsEmployee(row, k) ==
    CASE k.op = "DROP" -> row
      [] k.op = "SWAP" -> [emp |-> k.emp, open |-> FALSE]
      [] k.op = "OPEN" -> [emp |-> Nobody, open |-> TRUE]

(* The shift is opened and not offered. *)
PostOffer_Skips(h) ==
    /\ Goto(h, "post_offer", "finish")
    /\ UNCHANGED <<shift, request, call, mine, copy, added, overlapped, blots>>
-----------------------------------------------------------------------------
(* POST roster/shifts, one turn of the loop of addRosterShift, and the     *)
(* same of importTemplate.                                                 *)
AddShift(s) ==
    /\ s \notin added
    /\ \E e \in Employees : shift' = Save(shift, s, [emp |-> e, open |-> FALSE])
    /\ added' = added \cup {s}
    /\ UNCHANGED <<request, pc, call, mine, copy, overlapped, blots>>

(* PUT roster/shifts: updateRosterShift sets the date, the place and the   *)
(* times, and saves the rest of the row as it has read it.                 *)
EditRead(h) ==
    /\ Goto(h, "idle", "edit_save")
    /\ \E s \in DOMAIN shift :
         /\ call' = Save(call, h, [op |-> "edit", req |-> h, shift |-> s, emp |-> Nobody])
         /\ copy' = Save(copy, h, shift[s])
         /\ Blame(s, Race(s))
    /\ UNCHANGED <<shift, request, mine, added, overlapped>>

EditSave(h) ==
    /\ Goto(h, "edit_save", "done")
    /\ shift' = Save(shift, call[h].shift, copy[h])
    /\ Forget(h)
    /\ UNCHANGED <<request, added, overlapped, blots>>

(* DELETE roster/shifts: deleteRosterShift *)
DeleteShift(s) ==
    /\ s \in DOMAIN shift
    /\ shift' = Delete(shift, s)
    /\ Blame(s, Race(s))
    /\ UNCHANGED <<request, pc, call, mine, copy, added, overlapped>>
-----------------------------------------------------------------------------
(* POST: createShiftRequest saves the request and then always throws: the  *)
(* query for the administrators to notify has its parameter inside a       *)
(* string literal, which the database refuses.                             *)
PostRequest(h) ==
    /\ Goto(h, "idle", "failed")
    /\ \E s \in DOMAIN shift, offer \in BOOLEAN :
         request' = Save(request, h, [Offer(s) EXCEPT !.offer = offer])
    /\ UNCHANGED <<shift, call, mine, copy, added, overlapped, blots>>

(* PUT: updateShiftRequest.  Neither the type nor the status of the stored *)
(* request is looked at.                                                   *)
ReadRequest(h) ==
    /\ Goto(h, "idle", "read_shift")
    /\ \E r \in DOMAIN request, op \in Updates :
         LET s == request[r].shift IN
         /\ \E e \in IF op \in Names THEN Employees ELSE {Nobody} :
              call' = Save(call, h, [op |-> op, req |-> r, shift |-> s, emp |-> e])
         /\ mine' = Save(mine, h, request[r])
         /\ overlapped' = overlapped \cup {x \in {r} : \E o \in Busy(s) : call[o].req = x}
         /\ Blame(s, Race(s) \cup {c \in {"offerRejected"} :
                                      op = "reject" /\ request[r].offer})
    /\ UNCHANGED <<shift, request, copy, added>>

Updated(row, k) ==
    CASE k.op \in Approvals -> [row EXCEPT !.status = "APPROVED"]
      [] k.op = "reject"    -> [row EXCEPT !.status = "REJECTED"]
      [] k.op = "APPLY"     -> [row EXCEPT !.applied = @ \cup {k.emp}]
      [] k.op = "other"     -> row

ReadShift(h) ==
    LET s == call[h].shift IN
    /\ Goto(h, "read_shift", IF call[h].op = "other" THEN "finish" ELSE "save_request")
    /\ mine' = [mine EXCEPT ![h] = Updated(@, call[h])]
    /\ copy' = IF s \in DOMAIN shift THEN Save(copy, h, shift[s]) ELSE copy
    /\ UNCHANGED <<shift, request, call, added, overlapped, blots>>

SaveRequest(h) ==
    /\ Goto(h, "save_request", IF call[h].op \in Approvals THEN "save_shift" ELSE "finish")
    /\ request' = Save(request, call[h].req, mine[h])
    /\ UNCHANGED <<shift, call, mine, copy, added, overlapped, blots>>

(* A DROP that is approved leaves isOpen as it was. *)
Assigned(row, k) ==
    CASE k.op = "DROP" -> [row EXCEPT !.emp = k.emp]
      [] k.op = "SWAP" -> [emp |-> k.emp, open |-> FALSE]
      [] k.op = "OPEN" -> [emp |-> Nobody, open |-> TRUE]

SaveShift(h) ==
    LET k == call[h] IN
    /\ h \in DOMAIN copy
    /\ Goto(h, "save_shift", IF k.op = "OPEN" THEN "post_offer" ELSE "finish")
    /\ shift' = Save(shift, k.shift, Assigned(copy[h], k))
    /\ Blame(k.shift, {c \in {"assignedOpen"} : k.op = "DROP" /\ copy[h].open})
    /\ UNCHANGED <<request, call, mine, copy, added, overlapped>>

(* shift is null: TypeError, after the request was saved as approved *)
NoShift(h) ==
    /\ h \notin DOMAIN copy
    /\ Goto(h, "save_shift", "failed")
    /\ Forget(h)
    /\ UNCHANGED <<shift, request, added, overlapped, blots>>

PostOffer(h) ==
    /\ Goto(h, "post_offer", "finish")
    /\ request' = Save(request, h, Offer(call[h].shift))
    /\ UNCHANGED <<shift, call, mine, copy, added, overlapped, blots>>

(* After the emails have been prepared, the request is saved once more.    *)
Finish(h) ==
    /\ Goto(h, "finish", "done")
    /\ request' = Save(request, call[h].req, mine[h])
    /\ Forget(h)
    /\ UNCHANGED <<shift, added, overlapped, blots>>

(* Any await may throw and the process may stop; what was saved stays.     *)
Abort(h) ==
    /\ pc[h] \in InFlight
    /\ pc' = [pc EXCEPT ![h] = "failed"]
    /\ Blame(call[h].shift, {c \in {"abandoned"} : pc[h] \in {"save_shift", "post_offer"}})
    /\ Forget(h)
    /\ UNCHANGED <<shift, request, added, overlapped>>
-----------------------------------------------------------------------------
Edit(h) == EditRead(h) \/ EditSave(h)

Update(h) ==
    \/ ReadRequest(h) \/ ReadShift(h) \/ SaveRequest(h)
    \/ SaveShift(h) \/ NoShift(h) \/ PostOffer(h) \/ Finish(h)

Next ==
    \/ \E h \in Calls : Edit(h) \/ PostRequest(h) \/ Update(h) \/ Abort(h)
    \/ \E s \in Shifts : AddShift(s) \/ DeleteShift(s)

Spec == Init /\ [][Next]_vars
-----------------------------------------------------------------------------
TypeOK ==
    /\ IsTable(shift, Shifts, ShiftRow)
    /\ IsTable(request, Calls, RequestRow)
    /\ pc \in [Calls -> Steps]
    /\ IsTable(call, Calls, Call)
    /\ IsTable(mine, Calls, RequestRow)
    /\ IsTable(copy, Calls, ShiftRow)
    /\ added \subseteq Shifts
    /\ overlapped \subseteq Calls
    /\ blots \in [Shifts -> SUBSET Cause]

(* A shift is marked open exactly when nobody has it, whatever interleaves *)
(* and whatever fails, unless the approval of a DROP gave it to someone    *)
(* while it was open.                                                      *)
OpenMeansUnassigned ==
    \A s \in DOMAIN shift :
        \/ shift[s].open <=> shift[s].emp = Nobody
        \/ "assignedOpen" \in blots[s]

(* An open shift has a pending offer to apply to, unless a call on it is   *)
(* in flight or stopped after saving only the request or the shift, two    *)
(* calls on it overlapped, it was given away while open, or an offer of it *)
(* was rejected.                                                           *)
OpenIsOffered ==
    \A s \in DOMAIN shift : shift[s].open =>
        \/ \E r \in DOMAIN request :
              /\ request[r].offer /\ request[r].shift = s
              /\ request[r].status = "PENDING"
        \/ Busy(s) # {}
        \/ blots[s] # {}

(* A decided request becomes pending again, or an application to an offer  *)
(* is lost, only if two calls were updating the request at once.           *)
NothingForgotten ==
    [][\A r \in DOMAIN request \ overlapped :
         /\ request'[r].status = "PENDING" => request[r].status = "PENDING"
         /\ request[r].applied \subseteq request'[r].applied]_vars

(* When the approval of a request is answered, the shift is as the         *)
(* decision has it, unless two calls on the shift overlapped.              *)
AnsweredIsDone ==
    [][\A h \in Calls :
         pc[h] = "finish" /\ pc'[h] = "done" /\ call[h].op \in Approvals =>
            LET s == call[h].shift IN
            \/ /\ s \in DOMAIN shift
               /\ shift[s].emp = call[h].emp
               /\ request'[call[h].req].status = "APPROVED"
            \/ "raced" \in blots[s]]_vars
-----------------------------------------------------------------------------
(* The inductive strengthening.  CallsInv ties a call to its place in the  *)
(* handler, RowsInv a copied shift to whether someone has it, and LastInv  *)
(* says that only one call updates a request that is not in overlapped,    *)
(* and how far it has come.                                                *)

Updating(h) == h \in DOMAIN call /\ call[h].op \in Updates

CallsInv ==
    /\ \A h \in Calls : pc[h] \in InFlight <=> h \in DOMAIN call
    /\ DOMAIN copy \subseteq DOMAIN call
    /\ DOMAIN mine = {h \in DOMAIN call : Updating(h)}
    /\ \A h \in DOMAIN call :
         /\ pc[h] = "edit_save" <=> call[h].op = "edit"
         /\ pc[h] = "edit_save" => h \in DOMAIN copy
         /\ pc[h] \in {"save_shift", "post_offer"} => call[h].op \in Approvals
         /\ call[h].op \in Names => call[h].emp \in Employees
         /\ Updating(h) => /\ call[h].req \in DOMAIN request
                           /\ request[call[h].req].shift = call[h].shift
                           /\ mine[h].shift = call[h].shift
    /\ \A r \in DOMAIN request : pc[r] \in {"failed", "finish", "done"}

Fits(row, s) ==
    \/ row.open <=> row.emp = Nobody
    \/ "assignedOpen" \in blots[s]

RowsInv ==
    /\ \A s \in DOMAIN shift : Fits(shift[s], s)
    /\ \A h \in DOMAIN copy : Fits(copy[h], call[h].shift)

LastInv ==
    \A h \in DOMAIN call : Updating(h) /\ call[h].req \notin overlapped =>
        LET row == request[call[h].req] IN
        /\ \A o \in DOMAIN call : Updating(o) /\ call[o].req = call[h].req => o = h
        /\ CASE pc[h] = "read_shift"   -> mine[h] = row
             [] pc[h] = "save_request" -> mine[h] = Updated(row, call[h])
             [] OTHER                  -> mine[h] = row

IInv == TypeOK /\ CallsInv /\ RowsInv /\ LastInv

(* For OpenIsOffered and AnsweredIsDone: a call on a shift that is not     *)
(* raced is the only one there, has the shift as it is stored until it     *)
(* saves it, and has then done what it approved (Alone); what a call has   *)
(* read and decided (Decided); and an open shift is offered, but while     *)
(* the call that approved an OPEN has yet to save the shift or to post the *)
(* offer (OfferInv).                                                       *)

Fresh(h) ==
    LET s == call[h].shift IN
    IF h \in DOMAIN copy THEN s \in DOMAIN shift /\ copy[h] = shift[s]
                         ELSE s \notin DOMAIN shift

Alone(h) ==
    LET k == call[h] IN
    "raced" \notin blots[k.shift] =>
      /\ Busy(k.shift) = {h}
      /\ pc[h] \in {"edit_save", "save_request", "save_shift"} => Fresh(h)
      /\ k.op \in Approvals /\ pc[h] \in {"post_offer", "finish"} =>
           k.shift \in DOMAIN shift /\ shift[k.shift].emp = k.emp

Decided(h) ==
    LET k == call[h] IN
    /\ k.shift \in added
    /\ k.op \notin Names => k.emp = Nobody
    /\ pc[h] = "read_shift" => h \notin DOMAIN copy
    /\ k.op \in Approvals /\ pc[h] # "read_shift" => mine[h].status = "APPROVED"
    /\ k.op = "reject" /\ mine[h].offer => "offerRejected" \in blots[k.shift]

ShiftsInv ==
    /\ DOMAIN shift \subseteq added
    /\ \A r \in DOMAIN request : request[r].shift \in added
    /\ \A r \in overlapped : r \in DOMAIN request /\ "raced" \in blots[request[r].shift]
    /\ \A h \in DOMAIN call : Alone(h) /\ Decided(h)

Offered(s) ==
    \E r \in DOMAIN request :
      request[r].offer /\ request[r].shift = s /\ request[r].status = "PENDING"

Covered(s) ==
    Offered(s) \/ \E h \in Busy(s) : pc[h] \in {"save_shift", "post_offer"}

OfferInv == \A s \in DOMAIN shift : shift[s].open /\ blots[s] = {} => Covered(s)
=============================================================================
