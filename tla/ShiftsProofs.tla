----------------------------- MODULE ShiftsProofs -----------------------------
(***************************************************************************)
(* Proofs about Shifts, for every number of employees, shifts and calls.   *)
(***************************************************************************)
EXTENDS Shifts, TLAPS

-----------------------------------------------------------------------------
(* The fields of a call in flight and of the rows it has read have their   *)
(* types.                                                                  *)
LEMMA CallFields ==
    ASSUME TypeOK, NEW h \in DOMAIN call
    PROVE  /\ h \in Calls
           /\ call[h] \in Call
           /\ call[h].op \in Updates \cup {"edit"}
           /\ call[h].req \in Calls
           /\ call[h].shift \in Shifts
           /\ call[h].emp \in Employees \cup {Nobody}
  BY DEF TypeOK, IsTable, Call

(* A request that a call has changed is still a request, of the same shift. *)
LEMMA UpdatedRow ==
    ASSUME NEW r \in RequestRow, NEW k, k.op \in Updates,
           k.op \in Names => k.emp \in Employees
    PROVE  /\ Updated(r, k) \in RequestRow
           /\ Updated(r, k).shift = r.shift
           /\ Updated(r, k).status = "PENDING" => r.status = "PENDING"
           /\ r.applied \subseteq Updated(r, k).applied
<1>1. CASE k.op \in Approvals
  BY <1>1 DEF Updated, RequestRow, Statuses, Approvals
<1>2. CASE k.op = "reject"
  BY <1>2 DEF Updated, RequestRow, Statuses, Approvals
<1>3. CASE k.op = "APPLY"
  BY <1>3 DEF Updated, RequestRow, Statuses, Approvals, Names
<1>4. CASE k.op = "other"
  BY <1>4 DEF Updated, Approvals
<1>5. QED
  BY <1>1, <1>2, <1>3, <1>4 DEF Updates

(* A shift that an approval has changed is still a shift; it is marked     *)
(* open exactly when nobody has it, unless a DROP gave it away while open. *)
LEMMA AssignedRow ==
    ASSUME NEW r \in ShiftRow, NEW k, k.op \in Approvals,
           k.op \in Names => k.emp \in Employees
    PROVE  /\ Assigned(r, k) \in ShiftRow
           /\ \/ Assigned(r, k).open <=> Assigned(r, k).emp = Nobody
              \/ k.op = "DROP" /\ r.open
<1> USE NobodyAssumption
<1>1. CASE k.op = "DROP"
  BY <1>1 DEF Assigned, ShiftRow, Names
<1>2. CASE k.op = "SWAP"
  BY <1>2 DEF Assigned, ShiftRow, Names
<1>3. CASE k.op = "OPEN"
  BY <1>3 DEF Assigned, ShiftRow
<1>4. QED
  BY <1>1, <1>2, <1>3 DEF Approvals

(* A call that ends is forgotten, and the others are left as they were.    *)
LEMMA Forgotten ==
    ASSUME TypeOK, NEW h, Forget(h)
    PROVE  /\ IsTable(call', Calls, Call)
           /\ IsTable(mine', Calls, RequestRow)
           /\ IsTable(copy', Calls, ShiftRow)
           /\ DOMAIN call' = DOMAIN call \ {h}
           /\ DOMAIN mine' = DOMAIN mine \ {h}
           /\ DOMAIN copy' = DOMAIN copy \ {h}
           /\ \A g \in DOMAIN call : g # h => call'[g] = call[g]
           /\ \A g \in DOMAIN mine : g # h => mine'[g] = mine[g]
           /\ \A g \in DOMAIN copy : g # h => copy'[g] = copy[g]
<1>1. /\ call' = Delete(call, h) /\ mine' = Delete(mine, h) /\ copy' = Delete(copy, h)
  BY DEF Forget
<1>2. QED
  BY <1>1 DEF TypeOK, Delete, IsTable

LEMMA BlameType ==
    ASSUME TypeOK, NEW s \in Shifts, NEW causes \in SUBSET Cause, Blame(s, causes)
    PROVE  /\ blots' \in [Shifts -> SUBSET Cause]
           /\ \A x \in Shifts : blots[x] \subseteq blots'[x]
           /\ causes \subseteq blots'[s]
  BY DEF TypeOK, Blame
-----------------------------------------------------------------------------
(* Initially *)
LEMMA InitInv == Init => IInv
<1> SUFFICES ASSUME Init PROVE IInv
  OBVIOUS
<1>1. /\ DOMAIN shift = {} /\ DOMAIN request = {} /\ DOMAIN call = {}
      /\ DOMAIN mine = {} /\ DOMAIN copy = {}
  BY DEF Init, NoRows, IsTable
<1>2. TypeOK
  BY DEF Init, TypeOK, Steps, NoRows, IsTable
<1>3. CallsInv
  BY <1>1 DEF Init, CallsInv, InFlight, Updating
<1>4. RowsInv
  BY <1>1 DEF RowsInv
<1>5. LastInv
  BY <1>1 DEF LastInv
<1>6. QED
  BY <1>2, <1>3, <1>4, <1>5 DEF IInv
-----------------------------------------------------------------------------
(* The handlers that change a shift and no request. *)

LEMMA AddShiftInv == ASSUME NEW s \in Shifts PROVE IInv /\ AddShift(s) => IInv'
<1> SUFFICES ASSUME IInv, AddShift(s) PROVE IInv'
  OBVIOUS
<1> USE NobodyAssumption
<1>1. PICK e \in Employees : shift' = Save(shift, s, [emp |-> e, open |-> FALSE])
  BY DEF AddShift
<1>2. /\ UNCHANGED <<request, pc, call, mine, copy, overlapped, blots>>
      /\ added' = added \cup {s}
  BY DEF AddShift
<1>3. TypeOK'
  <2>1. [emp |-> e, open |-> FALSE] \in ShiftRow
    BY DEF ShiftRow
  <2>2. IsTable(shift', Shifts, ShiftRow)
    BY <1>1, <2>1 DEF IInv, TypeOK, Save, IsTable
  <2>3. QED
    BY <1>2, <2>2 DEF IInv, TypeOK
<1>4. CallsInv'
  BY <1>2 DEF IInv, CallsInv, Updating
<1>5. RowsInv'
  BY <1>1, <1>2 DEF IInv, RowsInv, Fits, Save
<1>6. LastInv'
  BY <1>2 DEF IInv, LastInv, Updating
<1>7. QED
  BY <1>3, <1>4, <1>5, <1>6 DEF IInv

LEMMA DeleteShiftInv == ASSUME NEW s \in Shifts PROVE IInv /\ DeleteShift(s) => IInv'
<1> SUFFICES ASSUME IInv, DeleteShift(s) PROVE IInv'
  OBVIOUS
<1>1. /\ shift' = Delete(shift, s) /\ Blame(s, Race(s))
      /\ UNCHANGED <<request, pc, call, mine, copy, added, overlapped>>
  BY DEF DeleteShift
<1>2. /\ blots' \in [Shifts -> SUBSET Cause]
      /\ \A x \in Shifts : blots[x] \subseteq blots'[x]
  <2>1. Race(s) \in SUBSET Cause
    BY DEF Race, Cause
  <2>2. QED
    BY <1>1, <2>1, BlameType DEF IInv
<1>3. TypeOK'
  BY <1>1, <1>2 DEF IInv, TypeOK, Delete, IsTable
<1>4. CallsInv'
  BY <1>1 DEF IInv, CallsInv, Updating
<1>5. RowsInv'
  <2>1. /\ DOMAIN shift' \subseteq DOMAIN shift
        /\ \A x \in DOMAIN shift' : x \in Shifts /\ shift'[x] = shift[x]
    BY <1>1 DEF Delete, IInv, TypeOK, IsTable
  <2>2. \A h \in DOMAIN copy : call[h].shift \in Shifts
    BY CallFields DEF IInv, CallsInv
  <2>3. QED
    BY <1>1, <1>2, <2>1, <2>2 DEF IInv, RowsInv, Fits
<1>6. LastInv'
  BY <1>1 DEF IInv, LastInv, Updating
<1>7. QED
  BY <1>3, <1>4, <1>5, <1>6 DEF IInv

LEMMA EditReadInv == ASSUME NEW h \in Calls PROVE IInv /\ EditRead(h) => IInv'
<1> SUFFICES ASSUME IInv, EditRead(h) PROVE IInv'
  OBVIOUS
<1>1. PICK s \in DOMAIN shift :
         /\ call' = Save(call, h, [op |-> "edit", req |-> h, shift |-> s, emp |-> Nobody])
         /\ copy' = Save(copy, h, shift[s])
         /\ Blame(s, Race(s))
  BY DEF EditRead
<1> DEFINE k == [op |-> "edit", req |-> h, shift |-> s, emp |-> Nobody]
<1>2. /\ pc[h] = "idle" /\ pc' = [pc EXCEPT ![h] = "edit_save"]
      /\ UNCHANGED <<shift, request, mine, added, overlapped>>
      /\ pc \in [Calls -> Steps] /\ h \notin DOMAIN call
      /\ s \in Shifts
  BY DEF EditRead, Goto, IInv, TypeOK, CallsInv, InFlight, IsTable
<1>3. /\ DOMAIN call' = DOMAIN call \cup {h} /\ DOMAIN copy' = DOMAIN copy \cup {h}
      /\ call'[h] = k /\ copy'[h] = shift[s]
      /\ \A g \in DOMAIN call : call'[g] = call[g]
      /\ \A g \in DOMAIN copy : copy'[g] = copy[g]
  BY <1>1, <1>2 DEF Save, IInv, CallsInv
<1>4. /\ blots' \in [Shifts -> SUBSET Cause]
      /\ \A x \in Shifts : blots[x] \subseteq blots'[x]
  <2>1. Race(s) \in SUBSET Cause
    BY DEF Race, Cause
  <2>2. QED
    BY <1>1, <1>2, <2>1, BlameType DEF IInv
<1>5. TypeOK'
  <2>1. k \in Call /\ shift[s] \in ShiftRow
    BY <1>2 DEF Call, IInv, TypeOK, IsTable
  <2>2. IsTable(call', Calls, Call) /\ IsTable(copy', Calls, ShiftRow)
    BY <1>1, <2>1 DEF IInv, TypeOK, Save, IsTable
  <2>3. pc' \in [Calls -> Steps]
    BY <1>2 DEF Steps, InFlight
  <2>4. QED
    BY <1>2, <1>4, <2>2, <2>3 DEF IInv, TypeOK
<1>6. CallsInv'
  <2>1. \A g \in Calls : pc'[g] \in InFlight <=> g \in DOMAIN call'
    BY <1>2, <1>3 DEF IInv, CallsInv, InFlight
  <2>2. ~Updating(h)' /\ \A g \in DOMAIN call : Updating(g)' <=> Updating(g)
    BY <1>2, <1>3 DEF Updating, Updates, Approvals
  <2>3. DOMAIN mine' = {g \in DOMAIN call' : Updating(g)'}
    BY <1>2, <1>3, <2>2 DEF IInv, CallsInv
  <2>4. \A g \in DOMAIN call : pc'[g] = pc[g]
    BY <1>2
  <2>5. \A r \in DOMAIN request' : pc'[r] \in {"failed", "finish", "done"}
    BY <1>2 DEF IInv, CallsInv
  <2>6. /\ pc'[h] = "edit_save" /\ call'[h].op = "edit" /\ h \in DOMAIN copy'
        /\ call'[h].op \notin Names
    BY <1>2, <1>3 DEF Names
  <2>7. QED
    BY <1>2, <1>3, <2>1, <2>2, <2>3, <2>4, <2>5, <2>6 DEF IInv, CallsInv
<1>7. RowsInv'
  <2>1. \A g \in DOMAIN copy : g \in DOMAIN call /\ call[g].shift \in Shifts
    BY CallFields DEF IInv, CallsInv
  <2>2. \A x \in DOMAIN shift : x \in Shifts
    BY DEF IInv, TypeOK, IsTable
  <2>3. QED
    BY <1>2, <1>3, <1>4, <2>1, <2>2 DEF IInv, RowsInv, Fits
<1>8. LastInv'
  <2>1. ~Updating(h)' /\ \A g \in DOMAIN call : Updating(g)' <=> Updating(g)
    BY <1>2, <1>3 DEF Updating, Updates, Approvals
  <2>2. \A g \in DOMAIN call : pc'[g] = pc[g] /\ call'[g] = call[g]
    BY <1>2, <1>3
  <2>3. QED
    BY <1>2, <1>3, <2>1, <2>2 DEF IInv, LastInv
<1>9. QED
  BY <1>5, <1>6, <1>7, <1>8 DEF IInv
-----------------------------------------------------------------------------
(* The last step of a handler: what holds of the other calls is kept.      *)

LEMMA Ended ==
    ASSUME IInv, NEW h \in DOMAIN call, NEW to \in {"done", "failed"},
           pc' = [pc EXCEPT ![h] = to], Forget(h),
           DOMAIN request' = DOMAIN request,
           \A r \in DOMAIN request : request'[r].shift = request[r].shift
    PROVE  /\ pc' \in [Calls -> Steps]
           /\ CallsInv'
<1>1. /\ h \in Calls /\ pc \in [Calls -> Steps]
      /\ \A g \in DOMAIN call : g \in Calls /\ call[g].req \in Calls
  BY CallFields DEF IInv, TypeOK
<1>2. pc' \in [Calls -> Steps]
  BY <1>1 DEF Steps
<1>3. /\ DOMAIN call' = DOMAIN call \ {h} /\ DOMAIN mine' = DOMAIN mine \ {h}
      /\ DOMAIN copy' = DOMAIN copy \ {h}
      /\ \A g \in DOMAIN call' : call'[g] = call[g] /\ pc'[g] = pc[g]
      /\ \A g \in DOMAIN mine' : mine'[g] = mine[g]
  <2>1. /\ DOMAIN call' = DOMAIN call \ {h} /\ DOMAIN mine' = DOMAIN mine \ {h}
        /\ DOMAIN copy' = DOMAIN copy \ {h}
        /\ \A g \in DOMAIN call' : call'[g] = call[g]
        /\ \A g \in DOMAIN mine' : mine'[g] = mine[g]
    BY Forgotten DEF IInv
  <2>2. \A g \in DOMAIN call' : pc'[g] = pc[g]
    BY <1>1, <2>1
  <2>3. QED
    BY <2>1, <2>2
<1>4. \A g \in Calls : pc'[g] \in InFlight <=> g \in DOMAIN call'
  BY <1>1, <1>3 DEF IInv, CallsInv, InFlight
<1>5. \A g \in DOMAIN call' : Updating(g)' <=> Updating(g)
  BY <1>3 DEF Updating
<1>6. DOMAIN mine' = {g \in DOMAIN call' : Updating(g)'}
  BY <1>3, <1>5 DEF IInv, CallsInv
<1>7. \A r \in DOMAIN request' : pc'[r] \in {"failed", "finish", "done"}
  <2>1. \A r \in DOMAIN request : r \in Calls
    BY DEF IInv, TypeOK, IsTable
  <2>2. QED
    BY <1>1, <2>1 DEF IInv, CallsInv
<1>8. QED
  BY <1>2, <1>3, <1>4, <1>5, <1>6, <1>7 DEF IInv, CallsInv

LEMMA EndedOthers ==
    ASSUME IInv, NEW h \in DOMAIN call, NEW to \in {"done", "failed"},
           pc' = [pc EXCEPT ![h] = to], Forget(h)
    PROVE  /\ DOMAIN call' = DOMAIN call \ {h}
           /\ \A g \in DOMAIN call' : call'[g] = call[g] /\ g \in Calls /\ pc'[g] = pc[g]
           /\ \A g \in DOMAIN call' : Updating(g) => mine'[g] = mine[g]
<1>1. /\ h \in Calls /\ pc \in [Calls -> Steps]
      /\ \A g \in DOMAIN call : g \in Calls
  BY CallFields DEF IInv, TypeOK
<1>2. /\ DOMAIN call' = DOMAIN call \ {h} /\ DOMAIN mine' = DOMAIN mine \ {h}
      /\ \A g \in DOMAIN call' : call'[g] = call[g]
      /\ \A g \in DOMAIN mine' : mine'[g] = mine[g]
  BY Forgotten DEF IInv
<1>3. \A g \in DOMAIN call' : g \in Calls /\ pc'[g] = pc[g]
  BY <1>1, <1>2
<1>4. \A g \in DOMAIN call' : Updating(g) => g \in DOMAIN mine'
  BY <1>2 DEF IInv, CallsInv
<1>5. QED
  BY <1>2, <1>3, <1>4

LEMMA EndedLast ==
    ASSUME IInv, NEW h \in DOMAIN call, NEW to \in {"done", "failed"},
           pc' = [pc EXCEPT ![h] = to], Forget(h), UNCHANGED <<request, overlapped>>
    PROVE  LastInv'
<1>1. /\ DOMAIN call' = DOMAIN call \ {h}
      /\ \A g \in DOMAIN call' : call'[g] = call[g] /\ g \in Calls /\ pc'[g] = pc[g]
      /\ \A g \in DOMAIN call' : Updating(g) => mine'[g] = mine[g]
  BY EndedOthers
<1>2. \A g \in DOMAIN call' : Updating(g)' <=> Updating(g)
  BY <1>1 DEF Updating
<1>3. QED
  BY <1>1, <1>2 DEF IInv, LastInv

LEMMA EndedRows ==
    ASSUME IInv, NEW h \in DOMAIN call, Forget(h), shift' = shift,
           \A x \in Shifts : blots[x] \subseteq blots'[x]
    PROVE  RowsInv'
<1>1. /\ DOMAIN copy' \subseteq DOMAIN copy
      /\ \A g \in DOMAIN copy' : /\ copy'[g] = copy[g] /\ call'[g] = call[g]
                                 /\ call[g].shift \in Shifts
  <2>1. /\ DOMAIN call' = DOMAIN call \ {h} /\ DOMAIN copy' = DOMAIN copy \ {h}
        /\ \A g \in DOMAIN call' : call'[g] = call[g]
        /\ \A g \in DOMAIN copy' : copy'[g] = copy[g]
    BY Forgotten DEF IInv
  <2>2. \A g \in DOMAIN call : call[g].shift \in Shifts
    BY CallFields DEF IInv
  <2>3. DOMAIN copy \subseteq DOMAIN call
    BY DEF IInv, CallsInv
  <2>4. QED
    BY <2>1, <2>2, <2>3
<1>2. \A x \in DOMAIN shift : x \in Shifts
  BY DEF IInv, TypeOK, IsTable
<1>3. QED
  BY <1>1, <1>2 DEF IInv, RowsInv, Fits

LEMMA AbortInv == ASSUME NEW h \in Calls PROVE IInv /\ Abort(h) => IInv'
<1> SUFFICES ASSUME IInv, Abort(h) PROVE IInv'
  OBVIOUS
<1> DEFINE causes == {c \in {"abandoned"} : pc[h] \in {"save_shift", "post_offer"}}
<1>1. /\ h \in DOMAIN call /\ pc' = [pc EXCEPT ![h] = "failed"] /\ Forget(h)
      /\ Blame(call[h].shift, causes)
      /\ UNCHANGED <<shift, request, added, overlapped>>
  BY DEF Abort, IInv, CallsInv
<1>2. /\ blots' \in [Shifts -> SUBSET Cause]
      /\ \A x \in Shifts : blots[x] \subseteq blots'[x]
  <2>1. call[h].shift \in Shifts /\ causes \in SUBSET Cause
    BY <1>1, CallFields DEF IInv, Cause
  <2>2. QED
    BY <1>1, <2>1, BlameType DEF IInv
<1>3. pc' \in [Calls -> Steps] /\ CallsInv'
  BY <1>1, Ended
<1>4. TypeOK'
  BY <1>1, <1>2, <1>3, Forgotten DEF IInv, TypeOK
<1>5. QED
  BY <1>1, <1>2, <1>3, <1>4, EndedLast, EndedRows DEF IInv

LEMMA NoShiftInv == ASSUME NEW h \in Calls PROVE IInv /\ NoShift(h) => IInv'
<1> SUFFICES ASSUME IInv, NoShift(h) PROVE IInv'
  OBVIOUS
<1>1. /\ h \in DOMAIN call /\ pc' = [pc EXCEPT ![h] = "failed"] /\ Forget(h)
      /\ UNCHANGED <<shift, request, added, overlapped, blots>>
  BY DEF NoShift, Goto, IInv, CallsInv, InFlight
<1>2. pc' \in [Calls -> Steps] /\ CallsInv'
  BY <1>1, Ended
<1>3. TypeOK'
  BY <1>1, <1>2, Forgotten DEF IInv, TypeOK
<1>4. QED
  BY <1>1, <1>2, <1>3, EndedLast, EndedRows DEF IInv

LEMMA EditSaveInv == ASSUME NEW h \in Calls PROVE IInv /\ EditSave(h) => IInv'
<1> SUFFICES ASSUME IInv, EditSave(h) PROVE IInv'
  OBVIOUS
<1>1. /\ h \in DOMAIN call /\ h \in DOMAIN copy
      /\ pc' = [pc EXCEPT ![h] = "done"] /\ Forget(h)
      /\ shift' = Save(shift, call[h].shift, copy[h])
      /\ UNCHANGED <<request, added, overlapped, blots>>
  BY DEF EditSave, Goto, IInv, CallsInv, InFlight
<1>2. pc' \in [Calls -> Steps] /\ CallsInv'
  BY <1>1, Ended
<1>3. TypeOK'
  <2>1. call[h].shift \in Shifts /\ copy[h] \in ShiftRow
    BY <1>1, CallFields DEF IInv, TypeOK, IsTable
  <2>2. IsTable(shift', Shifts, ShiftRow)
    BY <1>1, <2>1 DEF IInv, TypeOK, Save, IsTable
  <2>3. QED
    BY <1>1, <1>2, <2>2, Forgotten DEF IInv, TypeOK
<1>4. RowsInv'
  <2>1. \A s \in DOMAIN shift' : Fits(shift'[s], s)
    BY <1>1 DEF Save, IInv, RowsInv
  <2>2. \A g \in DOMAIN copy' : /\ g \in DOMAIN copy /\ copy'[g] = copy[g]
                               /\ call'[g] = call[g]
    <3>1. /\ DOMAIN call' = DOMAIN call \ {h} /\ DOMAIN copy' = DOMAIN copy \ {h}
          /\ \A g \in DOMAIN call' : call'[g] = call[g]
          /\ \A g \in DOMAIN copy' : copy'[g] = copy[g]
      BY <1>1, Forgotten DEF IInv
    <3>2. DOMAIN copy \subseteq DOMAIN call
      BY DEF IInv, CallsInv
    <3>3. QED
      BY <3>1, <3>2
  <2>3. QED
    BY <1>1, <2>1, <2>2 DEF IInv, RowsInv, Fits
<1>5. QED
  BY <1>1, <1>2, <1>3, <1>4, EndedLast DEF IInv

LEMMA FinishInv == ASSUME NEW h \in Calls PROVE IInv /\ Finish(h) => IInv'
<1> SUFFICES ASSUME IInv, Finish(h) PROVE IInv'
  OBVIOUS
<1> DEFINE r == call[h].req
<1>1. /\ h \in DOMAIN call /\ pc[h] = "finish"
      /\ pc' = [pc EXCEPT ![h] = "done"] /\ Forget(h)
      /\ request' = Save(request, r, mine[h])
      /\ UNCHANGED <<shift, added, overlapped, blots>>
  BY DEF Finish, Goto, IInv, CallsInv, InFlight
<1>2. /\ Updating(h) /\ h \in DOMAIN mine /\ r \in DOMAIN request
      /\ mine[h].shift = request[r].shift /\ r \in Calls /\ mine[h] \in RequestRow
  <2>1. call[h].op # "edit" /\ call[h].op \in Updates \cup {"edit"} /\ r \in Calls
    BY <1>1, CallFields DEF IInv, CallsInv
  <2>2. Updating(h)
    BY <1>1, <2>1 DEF Updating
  <2>3. QED
    BY <1>1, <2>1, <2>2 DEF IInv, CallsInv, TypeOK, IsTable
<1>3. /\ DOMAIN request' = DOMAIN request /\ request'[r] = mine[h]
      /\ \A x \in DOMAIN request : x # r => request'[x] = request[x]
  BY <1>1, <1>2 DEF Save
<1>4. pc' \in [Calls -> Steps] /\ CallsInv'
  <2>1. \A x \in DOMAIN request : request'[x].shift = request[x].shift
    BY <1>2, <1>3
  <2>2. QED
    BY <1>1, <1>3, <2>1, Ended
<1>5. TypeOK'
  <2>1. IsTable(request', Calls, RequestRow)
    BY <1>1, <1>2 DEF IInv, TypeOK, Save, IsTable
  <2>2. QED
    BY <1>1, <1>4, <2>1, Forgotten DEF IInv, TypeOK
<1>6. LastInv'
  <2>1. /\ DOMAIN call' = DOMAIN call \ {h}
        /\ \A g \in DOMAIN call' : call'[g] = call[g] /\ g \in Calls /\ pc'[g] = pc[g]
        /\ \A g \in DOMAIN call' : Updating(g) => mine'[g] = mine[g]
    BY <1>1, EndedOthers
  <2>2. \A g \in DOMAIN call' : Updating(g)' <=> Updating(g)
    BY <2>1 DEF Updating
  <2>3. \A g \in DOMAIN call' : Updating(g) /\ call[g].req \notin overlapped =>
            call[g].req # r /\ call[g].req \in DOMAIN request
    BY <1>1, <1>2, <2>1 DEF IInv, LastInv, CallsInv
  <2>4. QED
    BY <1>1, <1>3, <2>1, <2>2, <2>3 DEF IInv, LastInv
<1>7. QED
  BY <1>1, <1>4, <1>5, <1>6, EndedRows DEF IInv
-----------------------------------------------------------------------------
(* The handlers that change a request and no shift. *)

LEMMA PostRequestInv == ASSUME NEW h \in Calls PROVE IInv /\ PostRequest(h) => IInv'
<1> SUFFICES ASSUME IInv, PostRequest(h) PROVE IInv'
  OBVIOUS
<1>1. PICK s \in DOMAIN shift, offer \in BOOLEAN :
         request' = Save(request, h, [Offer(s) EXCEPT !.offer = offer])
  BY DEF PostRequest
<1>2. /\ pc[h] = "idle" /\ pc' = [pc EXCEPT ![h] = "failed"]
      /\ UNCHANGED <<shift, call, mine, copy, added, overlapped, blots>>
      /\ pc \in [Calls -> Steps] /\ h \notin DOMAIN call
      /\ s \in Shifts
  BY DEF PostRequest, Goto, IInv, TypeOK, CallsInv, InFlight, IsTable
<1>3. h \notin DOMAIN request
  BY <1>2 DEF IInv, CallsInv
<1>4. TypeOK'
  <2>1. [Offer(s) EXCEPT !.offer = offer] \in RequestRow
    BY <1>2 DEF Offer, RequestRow, Statuses
  <2>2. IsTable(request', Calls, RequestRow)
    BY <1>1, <2>1 DEF IInv, TypeOK, Save, IsTable
  <2>3. pc' \in [Calls -> Steps]
    BY <1>2 DEF Steps
  <2>4. QED
    BY <1>2, <2>2, <2>3 DEF IInv, TypeOK
<1>5. /\ DOMAIN request' = DOMAIN request \cup {h}
      /\ \A r \in DOMAIN request : request'[r] = request[r]
      /\ \A g \in DOMAIN call : pc'[g] = pc[g]
  BY <1>1, <1>2, <1>3 DEF Save
<1>6. CallsInv'
  <2>1. \A g \in Calls : pc'[g] \in InFlight <=> g \in DOMAIN call'
    BY <1>2 DEF IInv, CallsInv, InFlight
  <2>2. \A r \in DOMAIN request' : pc'[r] \in {"failed", "finish", "done"}
    BY <1>2, <1>5 DEF IInv, CallsInv
  <2>3. QED
    BY <1>2, <1>5, <2>1, <2>2 DEF IInv, CallsInv, Updating
<1>7. RowsInv'
  BY <1>2 DEF IInv, RowsInv, Fits
<1>8. LastInv'
  <2>1. \A g \in DOMAIN call : Updating(g) => call[g].req \in DOMAIN request
    BY DEF IInv, CallsInv
  <2>2. QED
    BY <1>2, <1>5, <2>1 DEF IInv, LastInv, Updating
<1>9. QED
  BY <1>4, <1>6, <1>7, <1>8 DEF IInv

LEMMA ReadRequestInv == ASSUME NEW h \in Calls PROVE IInv /\ ReadRequest(h) => IInv'
<1> SUFFICES ASSUME IInv, ReadRequest(h) PROVE IInv'
  OBVIOUS
<1>1. PICK r \in DOMAIN request, op \in Updates :
         /\ \E e \in IF op \in Names THEN Employees ELSE {Nobody} :
              call' = Save(call, h, [op |-> op, req |-> r, shift |-> request[r].shift,
                                     emp |-> e])
         /\ mine' = Save(mine, h, request[r])
         /\ overlapped' = overlapped \cup
              {x \in {r} : \E o \in Busy(request[r].shift) : call[o].req = x}
         /\ Blame(request[r].shift, Race(request[r].shift) \cup
              {c \in {"offerRejected"} : op = "reject" /\ request[r].offer})
  BY DEF ReadRequest
<1> DEFINE s == request[r].shift
<1>2. PICK e \in IF op \in Names THEN Employees ELSE {Nobody} :
         call' = Save(call, h, [op |-> op, req |-> r, shift |-> s, emp |-> e])
  BY <1>1
<1> DEFINE k == [op |-> op, req |-> r, shift |-> s, emp |-> e]
<1>3. /\ pc[h] = "idle" /\ pc' = [pc EXCEPT ![h] = "read_shift"]
      /\ UNCHANGED <<shift, request, copy, added>>
      /\ pc \in [Calls -> Steps] /\ h \notin DOMAIN call
      /\ h \notin DOMAIN mine /\ h \notin DOMAIN copy
      /\ r \in Calls /\ request[r] \in RequestRow /\ s \in Shifts
  BY DEF ReadRequest, Goto, IInv, TypeOK, CallsInv, InFlight, IsTable, RequestRow
<1>4. /\ DOMAIN call' = DOMAIN call \cup {h} /\ DOMAIN mine' = DOMAIN mine \cup {h}
      /\ call'[h] = k /\ mine'[h] = request[r]
      /\ \A g \in DOMAIN call : call'[g] = call[g] /\ g # h
      /\ \A g \in DOMAIN mine : mine'[g] = mine[g]
  BY <1>1, <1>2, <1>3 DEF Save
<1>5. /\ blots' \in [Shifts -> SUBSET Cause]
      /\ \A x \in Shifts : blots[x] \subseteq blots'[x]
  <2>1. Race(s) \cup {c \in {"offerRejected"} : op = "reject" /\ request[r].offer}
          \in SUBSET Cause
    BY DEF Race, Cause
  <2>2. QED
    BY <1>1, <1>3, <2>1, BlameType DEF IInv
<1>6. k.op \in Names => k.emp \in Employees
  BY <1>2
<1>7. TypeOK'
  <2>1. k \in Call
    BY <1>2, <1>3 DEF Call
  <2>2. IsTable(call', Calls, Call)
    BY <1>2, <2>1 DEF IInv, TypeOK, Save, IsTable
  <2>3. IsTable(mine', Calls, RequestRow)
    BY <1>1, <1>3 DEF IInv, TypeOK, Save, IsTable
  <2>4. pc' \in [Calls -> Steps]
    BY <1>3 DEF Steps, InFlight
  <2>5. overlapped' \subseteq Calls
    BY <1>1, <1>3 DEF IInv, TypeOK
  <2>6. QED
    BY <1>3, <1>5, <2>2, <2>3, <2>4, <2>5 DEF IInv, TypeOK
<1>8. Updating(h)' /\ \A g \in DOMAIN call : Updating(g)' <=> Updating(g)
  BY <1>3, <1>4 DEF Updating
<1>9. \A g \in DOMAIN call : pc'[g] = pc[g]
  BY <1>3, <1>4
<1>10. CallsInv'
  <2>1. \A g \in Calls : pc'[g] \in InFlight <=> g \in DOMAIN call'
    BY <1>3, <1>4 DEF IInv, CallsInv, InFlight
  <2>2. DOMAIN mine' = {g \in DOMAIN call' : Updating(g)'}
    BY <1>4, <1>8 DEF IInv, CallsInv
  <2>3. \A x \in DOMAIN request' : pc'[x] \in {"failed", "finish", "done"}
    BY <1>3 DEF IInv, CallsInv
  <2>4. /\ pc'[h] = "read_shift" /\ call'[h].op # "edit"
        /\ call'[h].req = r /\ call'[h].shift = request'[r].shift
        /\ mine'[h].shift = request'[r].shift
    BY <1>3, <1>4 DEF Updates, Approvals
  <2>5. \A g \in DOMAIN call : Updating(g) => mine'[g] = mine[g]
    BY <1>4 DEF IInv, CallsInv
  <2>6. QED
    BY <1>3, <1>4, <1>6, <1>8, <1>9, <2>1, <2>2, <2>3, <2>4, <2>5 DEF IInv, CallsInv
<1>11. RowsInv'
  <2>1. \A g \in DOMAIN copy : g \in DOMAIN call /\ call[g].shift \in Shifts
    BY CallFields DEF IInv, CallsInv
  <2>2. \A x \in DOMAIN shift : x \in Shifts
    BY DEF IInv, TypeOK, IsTable
  <2>3. QED
    BY <1>3, <1>4, <1>5, <2>1, <2>2 DEF IInv, RowsInv, Fits
<1>12. LastInv'
  <2>1. r \notin overlapped' => \A g \in DOMAIN call : Updating(g) => call[g].req # r
    <3>1. \A g \in DOMAIN call : Updating(g) /\ call[g].req = r => call[g].shift = s
      BY DEF IInv, CallsInv
    <3>2. QED
      BY <1>1, <3>1 DEF Busy
  <2>2. \A g \in DOMAIN call : Updating(g) => mine'[g] = mine[g]
    BY <1>4 DEF IInv, CallsInv
  <2>3. pc'[h] = "read_shift" /\ call'[h].req = r /\ mine'[h] = request'[r]
    BY <1>3, <1>4
  <2>4. overlapped \subseteq overlapped'
    BY <1>1
  <2>5. QED
    BY <1>3, <1>4, <1>8, <1>9, <2>1, <2>2, <2>3, <2>4 DEF IInv, LastInv
<1>13. QED
  BY <1>7, <1>10, <1>11, <1>12 DEF IInv

LEMMA ReadShiftInv == ASSUME NEW h \in Calls PROVE IInv /\ ReadShift(h) => IInv'
<1> SUFFICES ASSUME IInv, ReadShift(h) PROVE IInv'
  OBVIOUS
<1> DEFINE k == call[h]
           s == call[h].shift
           to == IF k.op = "other" THEN "finish" ELSE "save_request"
<1>1. /\ pc[h] = "read_shift" /\ pc' = [pc EXCEPT ![h] = to]
      /\ mine' = [mine EXCEPT ![h] = Updated(@, k)]
      /\ copy' = IF s \in DOMAIN shift THEN Save(copy, h, shift[s]) ELSE copy
      /\ UNCHANGED <<shift, request, call, added, overlapped, blots>>
  BY DEF ReadShift, Goto
<1>2. /\ h \in DOMAIN call /\ pc \in [Calls -> Steps] /\ Updating(h)
      /\ h \in DOMAIN mine /\ k.op \in Updates
      /\ k.op \in Names => k.emp \in Employees
  <2>1. h \in DOMAIN call /\ k.op # "edit" /\ pc \in [Calls -> Steps]
    BY <1>1 DEF IInv, TypeOK, CallsInv, InFlight
  <2>2. k.op \in Updates
    BY <2>1, CallFields DEF IInv
  <2>3. QED
    BY <2>1, <2>2 DEF IInv, CallsInv, Updating
<1>3. mine[h] \in RequestRow /\ s \in Shifts
  BY <1>2, CallFields DEF IInv, TypeOK, IsTable
<1>4. /\ DOMAIN mine' = DOMAIN mine /\ mine'[h] = Updated(mine[h], k)
      /\ mine'[h] \in RequestRow /\ mine'[h].shift = mine[h].shift
      /\ \A g \in DOMAIN mine : g # h => mine'[g] = mine[g]
  BY <1>1, <1>2, <1>3, UpdatedRow
<1>5. /\ pc'[h] = to /\ to \in {"finish", "save_request"}
      /\ \A g \in Calls : g # h => pc'[g] = pc[g]
  BY <1>1, <1>2
<1>6. TypeOK'
  <2>1. IsTable(mine', Calls, RequestRow)
    BY <1>1, <1>2, <1>4 DEF IInv, TypeOK, IsTable
  <2>2. IsTable(copy', Calls, ShiftRow)
    <3>1. s \in DOMAIN shift => shift[s] \in ShiftRow
      BY DEF IInv, TypeOK, IsTable
    <3>2. QED
      BY <1>1, <3>1 DEF IInv, TypeOK, Save, IsTable
  <2>3. pc' \in [Calls -> Steps]
    BY <1>1, <1>2, <1>5 DEF Steps, InFlight
  <2>4. QED
    BY <1>1, <2>1, <2>2, <2>3 DEF IInv, TypeOK
<1>7. /\ DOMAIN copy' \subseteq DOMAIN call /\ DOMAIN copy \subseteq DOMAIN copy'
      /\ h \in DOMAIN copy' => \/ copy'[h] = copy[h] /\ h \in DOMAIN copy
                               \/ copy'[h] = shift[s] /\ s \in DOMAIN shift
      /\ \A g \in DOMAIN copy' : g # h => g \in DOMAIN copy /\ copy'[g] = copy[g]
  <2>1. DOMAIN copy \subseteq DOMAIN call
    BY DEF IInv, CallsInv
  <2>2. CASE s \in DOMAIN shift
    BY <1>1, <1>2, <2>1, <2>2 DEF Save
  <2>3. CASE s \notin DOMAIN shift
    <3>1. copy' = copy
      BY <1>1, <2>3
    <3>2. QED
      BY <2>1, <3>1
  <2>4. QED
    BY <2>2, <2>3
<1>8. \A g \in DOMAIN call : g \in Calls
  BY CallFields DEF IInv
<1>9. \A g \in DOMAIN call : Updating(g)' <=> Updating(g)
  BY <1>1 DEF Updating
<1>10. CallsInv'
  <2>1. \A g \in Calls : pc'[g] \in InFlight <=> g \in DOMAIN call'
    BY <1>1, <1>2, <1>5 DEF IInv, CallsInv, InFlight
  <2>2. DOMAIN mine' = {g \in DOMAIN call' : Updating(g)'}
    BY <1>1, <1>4, <1>9 DEF IInv, CallsInv
  <2>3. \A x \in DOMAIN request' : pc'[x] \in {"failed", "finish", "done"}
    <3>1. \A x \in DOMAIN request : x \in Calls /\ x # h
      BY <1>1 DEF IInv, TypeOK, CallsInv, IsTable
    <3>2. QED
      BY <1>1, <1>5, <3>1 DEF IInv, CallsInv
  <2>4. \A g \in DOMAIN call : Updating(g) => g \in DOMAIN mine /\ mine'[g].shift = mine[g].shift
    BY <1>4 DEF IInv, CallsInv
  <2>5. ASSUME NEW g \in DOMAIN call
        PROVE  /\ pc'[g] = "edit_save" <=> call[g].op = "edit"
               /\ pc'[g] = "edit_save" => g \in DOMAIN copy'
               /\ pc'[g] \in {"save_shift", "post_offer"} => call[g].op \in Approvals
    <3>1. CASE g = h
      BY <1>2, <1>5, <3>1 DEF Updates, Approvals
    <3>2. CASE g # h
      BY <1>5, <1>7, <1>8, <3>2 DEF IInv, CallsInv
    <3>3. QED
      BY <3>1, <3>2
  <2>6. QED
    BY <1>1, <1>7, <1>9, <2>1, <2>2, <2>3, <2>4, <2>5 DEF IInv, CallsInv
<1>11. RowsInv'
  <2>1. \A g \in DOMAIN copy' : Fits(copy'[g], call[g].shift)
    BY <1>7 DEF IInv, RowsInv
  <2>2. QED
    BY <1>1, <2>1 DEF IInv, RowsInv, Fits
<1>12. LastInv'
  <2>1. ASSUME NEW g \in DOMAIN call, Updating(g), call[g].req \notin overlapped
        PROVE  CASE pc'[g] = "read_shift"   -> mine'[g] = request[call[g].req]
                 [] pc'[g] = "save_request" -> mine'[g] = Updated(request[call[g].req], call[g])
                 [] OTHER                   -> mine'[g] = request[call[g].req]
    <3>1. CASE g = h
      <4>1. mine[h] = request[k.req]
        BY <1>1, <2>1, <3>1 DEF IInv, LastInv
      <4>2. CASE k.op = "other"
        BY <1>4, <1>5, <3>1, <4>1, <4>2 DEF Updated, Approvals
      <4>3. CASE k.op # "other"
        BY <1>4, <1>5, <3>1, <4>1, <4>3
      <4>4. QED
        BY <4>2, <4>3
    <3>2. CASE g # h
      <4>1. pc'[g] = pc[g] /\ mine'[g] = mine[g]
        BY <1>4, <1>5, <1>8, <2>1, <3>2 DEF IInv, CallsInv
      <4>2. QED
        BY <2>1, <4>1 DEF IInv, LastInv
    <3>3. QED
      BY <3>1, <3>2
  <2>2. QED
    BY <1>1, <1>9, <2>1 DEF IInv, LastInv
<1>13. QED
  BY <1>6, <1>10, <1>11, <1>12 DEF IInv

LEMMA SaveRequestInv == ASSUME NEW h \in Calls PROVE IInv /\ SaveRequest(h) => IInv'
<1> SUFFICES ASSUME IInv, SaveRequest(h) PROVE IInv'
  OBVIOUS
<1> DEFINE k == call[h]
           r == call[h].req
           to == IF k.op \in Approvals THEN "save_shift" ELSE "finish"
<1>1. /\ pc[h] = "save_request" /\ pc' = [pc EXCEPT ![h] = to]
      /\ request' = Save(request, r, mine[h])
      /\ UNCHANGED <<shift, call, mine, copy, added, overlapped, blots>>
  BY DEF SaveRequest, Goto
<1>2. /\ h \in DOMAIN call /\ pc \in [Calls -> Steps] /\ k.op # "edit"
  BY <1>1 DEF IInv, TypeOK, CallsInv, InFlight
<1>3. /\ Updating(h) /\ h \in DOMAIN mine /\ r \in DOMAIN request /\ r \in Calls
      /\ mine[h].shift = request[r].shift /\ mine[h] \in RequestRow
  <2>1. Updating(h) /\ r \in Calls
    BY <1>2, CallFields DEF IInv, Updating
  <2>2. QED
    BY <1>2, <2>1 DEF IInv, CallsInv, TypeOK, IsTable
<1>4. /\ DOMAIN request' = DOMAIN request /\ request'[r] = mine[h]
      /\ \A x \in DOMAIN request : x # r => request'[x] = request[x]
      /\ \A x \in DOMAIN request : request'[x].shift = request[x].shift
  BY <1>1, <1>3 DEF Save
<1>5. /\ pc'[h] = to /\ to \in {"finish", "save_shift"}
      /\ \A g \in Calls : g # h => pc'[g] = pc[g]
  BY <1>1, <1>2
<1>6. TypeOK'
  <2>1. IsTable(request', Calls, RequestRow)
    BY <1>1, <1>3 DEF IInv, TypeOK, Save, IsTable
  <2>2. pc' \in [Calls -> Steps]
    BY <1>1, <1>2, <1>5 DEF Steps, InFlight
  <2>3. QED
    BY <1>1, <2>1, <2>2 DEF IInv, TypeOK
<1>7. \A g \in DOMAIN call : g \in Calls
  BY CallFields DEF IInv
<1>8. CallsInv'
  <2>1. \A g \in Calls : pc'[g] \in InFlight <=> g \in DOMAIN call'
    BY <1>1, <1>2, <1>5 DEF IInv, CallsInv, InFlight
  <2>2. \A x \in DOMAIN request' : pc'[x] \in {"failed", "finish", "done"}
    <3>1. \A x \in DOMAIN request : x \in Calls /\ x # h
      BY <1>1 DEF IInv, TypeOK, CallsInv, IsTable
    <3>2. QED
      BY <1>4, <1>5, <3>1 DEF IInv, CallsInv
  <2>3. ASSUME NEW g \in DOMAIN call
        PROVE  /\ pc'[g] = "edit_save" <=> call[g].op = "edit"
               /\ pc'[g] = "edit_save" => g \in DOMAIN copy
               /\ pc'[g] \in {"save_shift", "post_offer"} => call[g].op \in Approvals
    <3>1. CASE g = h
      BY <1>2, <1>5, <3>1
    <3>2. CASE g # h
      BY <1>5, <1>7, <3>2 DEF IInv, CallsInv
    <3>3. QED
      BY <3>1, <3>2
  <2>4. QED
    BY <1>1, <1>4, <2>1, <2>2, <2>3 DEF IInv, CallsInv, Updating
<1>9. RowsInv'
  BY <1>1 DEF IInv, RowsInv, Fits
<1>10. LastInv'
  <2>1. ASSUME NEW g \in DOMAIN call, Updating(g), call[g].req \notin overlapped
        PROVE  CASE pc'[g] = "read_shift"   -> mine[g] = request'[call[g].req]
                 [] pc'[g] = "save_request" -> mine[g] = Updated(request'[call[g].req], call[g])
                 [] OTHER                   -> mine[g] = request'[call[g].req]
    <3>1. CASE g = h
      BY <1>4, <1>5, <3>1
    <3>2. CASE g # h
      <4>1. call[g].req # r /\ call[g].req \in DOMAIN request
        BY <1>2, <1>3, <2>1, <3>2 DEF IInv, LastInv, CallsInv
      <4>2. pc'[g] = pc[g] /\ request'[call[g].req] = request[call[g].req]
        BY <1>4, <1>5, <1>7, <3>2, <4>1
      <4>3. QED
        BY <2>1, <4>2 DEF IInv, LastInv
    <3>3. QED
      BY <3>1, <3>2
  <2>2. QED
    BY <1>1, <2>1 DEF IInv, LastInv, Updating
<1>11. QED
  BY <1>6, <1>8, <1>9, <1>10 DEF IInv

LEMMA PostOfferInv == ASSUME NEW h \in Calls PROVE IInv /\ PostOffer(h) => IInv'
<1> SUFFICES ASSUME IInv, PostOffer(h) PROVE IInv'
  OBVIOUS
<1> DEFINE s == call[h].shift
<1>1. /\ pc[h] = "post_offer" /\ pc' = [pc EXCEPT ![h] = "finish"]
      /\ request' = Save(request, h, Offer(s))
      /\ UNCHANGED <<shift, call, mine, copy, added, overlapped, blots>>
  BY DEF PostOffer, Goto
<1>2. /\ h \in DOMAIN call /\ pc \in [Calls -> Steps] /\ s \in Shifts
      /\ h \notin DOMAIN request
  <2>1. h \in DOMAIN call /\ h \notin DOMAIN request /\ pc \in [Calls -> Steps]
    BY <1>1 DEF IInv, TypeOK, CallsInv, InFlight
  <2>2. QED
    BY <2>1, CallFields DEF IInv
<1>3. /\ DOMAIN request' = DOMAIN request \cup {h}
      /\ \A x \in DOMAIN request : request'[x] = request[x]
  BY <1>1, <1>2 DEF Save
<1>4. /\ pc'[h] = "finish"
      /\ \A g \in Calls : g # h => pc'[g] = pc[g]
  BY <1>1, <1>2
<1>5. TypeOK'
  <2>1. Offer(s) \in RequestRow
    BY <1>2 DEF Offer, RequestRow, Statuses
  <2>2. IsTable(request', Calls, RequestRow)
    BY <1>1, <2>1 DEF IInv, TypeOK, Save, IsTable
  <2>3. pc' \in [Calls -> Steps]
    BY <1>1, <1>2 DEF Steps, InFlight
  <2>4. QED
    BY <1>1, <2>2, <2>3 DEF IInv, TypeOK
<1>6. \A g \in DOMAIN call : g \in Calls
  BY CallFields DEF IInv
<1>7. CallsInv'
  <2>1. \A g \in Calls : pc'[g] \in InFlight <=> g \in DOMAIN call'
    BY <1>1, <1>2, <1>4 DEF IInv, CallsInv, InFlight
  <2>2. \A x \in DOMAIN request' : pc'[x] \in {"failed", "finish", "done"}
    <3>1. \A x \in DOMAIN request : x \in Calls
      BY DEF IInv, TypeOK, IsTable
    <3>2. QED
      BY <1>2, <1>3, <1>4, <3>1 DEF IInv, CallsInv
  <2>3. ASSUME NEW g \in DOMAIN call
        PROVE  /\ pc'[g] = "edit_save" <=> call[g].op = "edit"
               /\ pc'[g] = "edit_save" => g \in DOMAIN copy
               /\ pc'[g] \in {"save_shift", "post_offer"} => call[g].op \in Approvals
    <3>1. CASE g = h
      BY <1>1, <1>2, <1>4, <3>1 DEF IInv, CallsInv
    <3>2. CASE g # h
      BY <1>4, <1>6, <3>2 DEF IInv, CallsInv
    <3>3. QED
      BY <3>1, <3>2
  <2>4. QED
    BY <1>1, <1>3, <2>1, <2>2, <2>3 DEF IInv, CallsInv, Updating
<1>8. RowsInv'
  BY <1>1 DEF IInv, RowsInv, Fits
<1>9. LastInv'
  <2>1. ASSUME NEW g \in DOMAIN call, Updating(g), call[g].req \notin overlapped
        PROVE  CASE pc'[g] = "read_shift"   -> mine[g] = request'[call[g].req]
                 [] pc'[g] = "save_request" -> mine[g] = Updated(request'[call[g].req], call[g])
                 [] OTHER                   -> mine[g] = request'[call[g].req]
    <3>1. call[g].req \in DOMAIN request
      BY <2>1 DEF IInv, CallsInv
    <3>2. CASE g = h
      <4>1. mine[g] = request[call[g].req]
        BY <1>1, <2>1, <3>2 DEF IInv, LastInv
      <4>2. QED
        BY <1>3, <1>4, <3>1, <3>2, <4>1
    <3>3. CASE g # h
      BY <1>3, <1>4, <1>6, <2>1, <3>1, <3>3 DEF IInv, LastInv
    <3>4. QED
      BY <3>2, <3>3
  <2>2. QED
    BY <1>1, <2>1 DEF IInv, LastInv, Updating
<1>10. QED
  BY <1>5, <1>7, <1>8, <1>9 DEF IInv
-----------------------------------------------------------------------------
(* The approval that changes the shift. *)
LEMMA SaveShiftInv == ASSUME NEW h \in Calls PROVE IInv /\ SaveShift(h) => IInv'
<1> SUFFICES ASSUME IInv, SaveShift(h) PROVE IInv'
  OBVIOUS
<1> DEFINE k == call[h]
           s == call[h].shift
           to == IF k.op = "OPEN" THEN "post_offer" ELSE "finish"
           causes == {c \in {"assignedOpen"} : k.op = "DROP" /\ copy[h].open}
<1>1. /\ h \in DOMAIN copy
      /\ pc[h] = "save_shift" /\ pc' = [pc EXCEPT ![h] = to]
      /\ shift' = Save(shift, s, Assigned(copy[h], k))
      /\ Blame(s, causes)
      /\ UNCHANGED <<request, call, mine, copy, added, overlapped>>
  BY DEF SaveShift, Goto
<1>2. /\ h \in DOMAIN call /\ pc \in [Calls -> Steps] /\ s \in Shifts
      /\ k.op \in Approvals /\ (k.op \in Names => k.emp \in Employees)
      /\ copy[h] \in ShiftRow
  <2>1. /\ h \in DOMAIN call /\ pc \in [Calls -> Steps] /\ copy[h] \in ShiftRow
        /\ k.op \in Approvals /\ (k.op \in Names => k.emp \in Employees)
    BY <1>1 DEF IInv, TypeOK, IsTable, CallsInv
  <2>2. QED
    BY <2>1, CallFields DEF IInv
<1>3. /\ Assigned(copy[h], k) \in ShiftRow
      /\ \/ Assigned(copy[h], k).open <=> Assigned(copy[h], k).emp = Nobody
         \/ k.op = "DROP" /\ copy[h].open
  BY <1>2, AssignedRow
<1>4. /\ blots' \in [Shifts -> SUBSET Cause]
      /\ \A x \in Shifts : blots[x] \subseteq blots'[x]
      /\ k.op = "DROP" /\ copy[h].open => "assignedOpen" \in blots'[s]
  <2>1. causes \in SUBSET Cause
    BY DEF Cause
  <2>2. QED
    BY <1>1, <1>2, <2>1, BlameType DEF IInv
<1>5. /\ pc'[h] = to /\ to \in {"finish", "post_offer"}
      /\ \A g \in Calls : g # h => pc'[g] = pc[g]
  BY <1>1, <1>2
<1>6. TypeOK'
  <2>1. IsTable(shift', Shifts, ShiftRow)
    BY <1>1, <1>2, <1>3 DEF IInv, TypeOK, Save, IsTable
  <2>2. pc' \in [Calls -> Steps]
    BY <1>1, <1>2, <1>5 DEF Steps, InFlight
  <2>3. QED
    BY <1>1, <1>4, <2>1, <2>2 DEF IInv, TypeOK
<1>7. \A g \in DOMAIN call : g \in Calls
  BY CallFields DEF IInv
<1>8. CallsInv'
  <2>1. \A g \in Calls : pc'[g] \in InFlight <=> g \in DOMAIN call'
    BY <1>1, <1>2, <1>5 DEF IInv, CallsInv, InFlight
  <2>2. \A x \in DOMAIN request' : pc'[x] \in {"failed", "finish", "done"}
    <3>1. \A x \in DOMAIN request : x \in Calls /\ x # h
      BY <1>1 DEF IInv, TypeOK, CallsInv, IsTable
    <3>2. QED
      BY <1>1, <1>5, <3>1 DEF IInv, CallsInv
  <2>3. ASSUME NEW g \in DOMAIN call
        PROVE  /\ pc'[g] = "edit_save" <=> call[g].op = "edit"
               /\ pc'[g] = "edit_save" => g \in DOMAIN copy
               /\ pc'[g] \in {"save_shift", "post_offer"} => call[g].op \in Approvals
    <3>1. CASE g = h
      BY <1>2, <1>5, <3>1 DEF Approvals
    <3>2. CASE g # h
      BY <1>5, <1>7, <3>2 DEF IInv, CallsInv
    <3>3. QED
      BY <3>1, <3>2
  <2>4. QED
    BY <1>1, <2>1, <2>2, <2>3 DEF IInv, CallsInv, Updating
<1>9. RowsInv'
  <2>1. \A x \in DOMAIN shift :
           \/ shift[x].open <=> shift[x].emp = Nobody
           \/ "assignedOpen" \in blots'[x]
    BY <1>4 DEF IInv, TypeOK, IsTable, RowsInv, Fits
  <2>2. \A x \in DOMAIN shift' :
           \/ shift'[x].open <=> shift'[x].emp = Nobody
           \/ "assignedOpen" \in blots'[x]
    <3>1. DOMAIN shift' = DOMAIN shift \cup {s} /\ shift'[s] = Assigned(copy[h], k)
      BY <1>1 DEF Save
    <3>2. \A x \in DOMAIN shift : x # s => shift'[x] = shift[x]
      BY <1>1 DEF Save
    <3>3. QED
      BY <1>3, <1>4, <2>1, <3>1, <3>2
  <2>3. \A g \in DOMAIN copy : call[g].shift \in Shifts
    BY CallFields DEF IInv, CallsInv
  <2>4. QED
    BY <1>1, <1>4, <2>2, <2>3 DEF IInv, RowsInv, Fits
<1>10. LastInv'
  <2>1. ASSUME NEW g \in DOMAIN call, Updating(g), call[g].req \notin overlapped
        PROVE  CASE pc'[g] = "read_shift"   -> mine[g] = request[call[g].req]
                 [] pc'[g] = "save_request" -> mine[g] = Updated(request[call[g].req], call[g])
                 [] OTHER                   -> mine[g] = request[call[g].req]
    <3>1. CASE g = h
      <4>1. mine[g] = request[call[g].req]
        BY <1>1, <2>1, <3>1 DEF IInv, LastInv
      <4>2. QED
        BY <1>5, <3>1, <4>1
    <3>2. CASE g # h
      BY <1>5, <1>7, <2>1, <3>2 DEF IInv, LastInv
    <3>3. QED
      BY <3>1, <3>2
  <2>2. QED
    BY <1>1, <2>1 DEF IInv, LastInv, Updating
<1>11. QED
  BY <1>6, <1>8, <1>9, <1>10 DEF IInv
-----------------------------------------------------------------------------
LEMMA StutterInv == IInv /\ UNCHANGED vars => IInv'
  BY DEF vars, IInv, TypeOK, CallsInv, Updating, RowsInv, Fits, LastInv

LEMMA NextInv == IInv /\ [Next]_vars => IInv'
<1> SUFFICES ASSUME IInv, [Next]_vars PROVE IInv'
  OBVIOUS
<1>1. CASE \E h \in Calls : Edit(h)
  BY <1>1, EditReadInv, EditSaveInv DEF Edit
<1>2. CASE \E h \in Calls : PostRequest(h)
  BY <1>2, PostRequestInv
<1>3. CASE \E h \in Calls : Update(h)
  BY <1>3, ReadRequestInv, ReadShiftInv, SaveRequestInv, SaveShiftInv, NoShiftInv,
     PostOfferInv, FinishInv DEF Update
<1>4. CASE \E h \in Calls : Abort(h)
  BY <1>4, AbortInv
<1>5. CASE \E s \in Shifts : AddShift(s) \/ DeleteShift(s)
  BY <1>5, AddShiftInv, DeleteShiftInv
<1>6. CASE UNCHANGED vars
  BY <1>6, StutterInv
<1>7. QED
  BY <1>1, <1>2, <1>3, <1>4, <1>5, <1>6 DEF Next

(* IInv holds in every reachable state, whatever interleaves and fails.    *)
THEOREM ShiftsInductive == Spec => []IInv
<1>1. Init => IInv
  BY InitInv
<1>2. IInv /\ [Next]_vars => IInv'
  BY NextInv
<1>3. QED
  BY <1>1, <1>2, PTL DEF Spec

(* The tables of shifts and requests, and the rows that the handlers keep  *)
(* across their awaits, have their types.                                  *)
THEOREM ShiftsTypeCorrect == Spec => []TypeOK
<1>1. IInv => TypeOK
  BY DEF IInv
<1>2. QED
  BY <1>1, ShiftsInductive, PTL

(* Whatever interleaves and fails, a shift is marked open exactly when     *)
(* nobody has it, unless an approved DROP gave it away while it was open.  *)
THEOREM ShiftsOpenMeansUnassigned == Spec => []OpenMeansUnassigned
<1>1. IInv => OpenMeansUnassigned
  BY DEF IInv, RowsInv, Fits, OpenMeansUnassigned
<1>2. QED
  BY <1>1, ShiftsInductive, PTL
-----------------------------------------------------------------------------
(* What a step may do to a request that is stored: nothing, unless it is   *)
(* one of the two saves of updateShiftRequest.                             *)
Kept(r) ==
    /\ request'[r].status = "PENDING" => request[r].status = "PENDING"
    /\ request[r].applied \subseteq request'[r].applied

LEMMA InsertKeeps ==
    ASSUME IInv, NEW h \in Calls, PostRequest(h) \/ PostOffer(h), NEW r \in DOMAIN request
    PROVE  Kept(r)
<1>1. h \notin DOMAIN request
  BY DEF IInv, CallsInv, PostRequest, PostOffer, Goto
<1>2. \E row : request' = Save(request, h, row)
  BY DEF PostRequest, PostOffer
<1>3. request'[r] = request[r]
  BY <1>1, <1>2 DEF Save
<1>4. QED
  BY <1>3 DEF Kept

LEMMA UpdateKeeps ==
    ASSUME IInv, NEW h \in Calls, SaveRequest(h) \/ Finish(h),
           NEW r \in DOMAIN request, r \notin overlapped
    PROVE  Kept(r)
<1>1. /\ request' = Save(request, call[h].req, mine[h])
      /\ pc[h] \in {"save_request", "finish"}
  BY DEF SaveRequest, Finish, Goto
<1>2. CASE call[h].req # r
  <2>1. request'[r] = request[r]
    BY <1>1, <1>2 DEF Save
  <2>2. QED
    BY <2>1 DEF Kept
<1>3. CASE call[h].req = r
  <2>1. h \in DOMAIN call /\ call[h].op # "edit"
    BY <1>1 DEF IInv, CallsInv, InFlight
  <2>2. /\ call[h].op \in Updates /\ Updating(h)
        /\ call[h].op \in Names => call[h].emp \in Employees
    BY <2>1, CallFields DEF IInv, CallsInv, Updating
  <2>3. request'[r] = mine[h]
    BY <1>1, <1>3 DEF Save
  <2>4. \/ mine[h] = request[r]
        \/ mine[h] = Updated(request[r], call[h])
    BY <1>1, <1>3, <2>1, <2>2 DEF IInv, LastInv
  <2>5. request[r] \in RequestRow
    BY DEF IInv, TypeOK, IsTable
  <2>6. QED
    BY <2>2, <2>3, <2>4, <2>5, UpdatedRow DEF Kept
<1>4. QED
  BY <1>2, <1>3

(* Whatever interleaves and fails, a decided request does not become       *)
(* pending again and no application to an offer is lost, as long as no two *)
(* calls were updating the request at once: the second save that           *)
(* updateShiftRequest makes at its end is harmless then.                   *)
THEOREM ShiftsNothingForgotten == Spec => NothingForgotten
<1> DEFINE AllKept == \A r \in DOMAIN request \ overlapped : Kept(r)
<1>1. ASSUME IInv, [Next]_vars PROVE [AllKept]_vars
  <2> SUFFICES ASSUME NEW r \in DOMAIN request, r \notin overlapped, Next PROVE Kept(r)
    BY <1>1
  <2>1. CASE \E h \in Calls : PostRequest(h) \/ PostOffer(h)
    BY <1>1, <2>1, InsertKeeps
  <2>2. CASE \E h \in Calls : SaveRequest(h) \/ Finish(h)
    BY <1>1, <2>2, UpdateKeeps
  <2>3. CASE request' = request
    BY <2>3 DEF Kept
  <2>4. \/ \E h \in Calls : \/ EditRead(h) \/ EditSave(h) \/ PostRequest(h)
                            \/ ReadRequest(h) \/ ReadShift(h) \/ SaveRequest(h)
                            \/ SaveShift(h) \/ NoShift(h) \/ PostOffer(h) \/ Finish(h)
                            \/ Abort(h)
        \/ \E s \in Shifts : AddShift(s) \/ DeleteShift(s)
    BY DEF Next, Edit, Update
  <2>5. QED
    BY <2>1, <2>2, <2>3, <2>4 DEF EditRead, EditSave, ReadRequest, ReadShift, SaveShift,
       NoShift, Abort, AddShift, DeleteShift
<1>2. [AllKept]_vars <=>
        [\A r \in DOMAIN request \ overlapped :
           /\ request'[r].status = "PENDING" => request[r].status = "PENDING"
           /\ request[r].applied \subseteq request'[r].applied]_vars
  BY DEF Kept
<1>3. QED
  BY <1>1, <1>2, ShiftsInductive, PTL DEF Spec, NothingForgotten

-----------------------------------------------------------------------------
(* Alone, Decided and OfferInv.  A step of call h leaves the other calls,  *)
(* and the shifts that h is not about, as they were.                       *)
Moves(h) ==
    /\ DOMAIN call' \subseteq DOMAIN call
    /\ \A g \in DOMAIN call' : call'[g] = call[g]
    /\ \A g \in DOMAIN call : g # h =>
         /\ g \in DOMAIN call'
         /\ pc'[g] = pc[g]
         /\ g \in DOMAIN copy' <=> g \in DOMAIN copy
         /\ g \in DOMAIN copy => copy'[g] = copy[g]
         /\ Updating(g) => mine'[g] = mine[g]
    /\ \A s \in Shifts : s # call[h].shift =>
         /\ s \in DOMAIN shift' <=> s \in DOMAIN shift
         /\ s \in DOMAIN shift => shift'[s] = shift[s]
    /\ \A s \in Shifts : blots[s] \subseteq blots'[s]
    /\ added' = added

LEMMA ShiftFields ==
    ASSUME TypeOK
    PROVE  /\ \A s \in DOMAIN shift : s \in Shifts /\ shift[s] \in ShiftRow
           /\ \A r \in DOMAIN request : r \in Calls /\ request[r].shift \in Shifts
  BY DEF TypeOK, IsTable, RequestRow

(* A call keeps what holds of it while nothing about it or about its shift *)
(* changes and no other call on the shift begins.                          *)
LEMMA SteadyStays ==
    ASSUME IInv, ShiftsInv, NEW g \in DOMAIN call, g \in DOMAIN call', call'[g] = call[g],
           pc'[g] = pc[g],
           g \in DOMAIN copy' <=> g \in DOMAIN copy,
           g \in DOMAIN copy => copy'[g] = copy[g],
           Updating(g) => mine'[g] = mine[g],
           added \subseteq added',
           \A s \in Shifts : blots[s] \subseteq blots'[s],
           "raced" \notin blots'[call[g].shift] =>
              /\ {o \in DOMAIN call' : call'[o].shift = call[g].shift} = {g}
              /\ call[g].shift \in DOMAIN shift' <=> call[g].shift \in DOMAIN shift
              /\ call[g].shift \in DOMAIN shift => shift'[call[g].shift] = shift[call[g].shift]
    PROVE  Alone(g)' /\ Decided(g)'
<1> DEFINE s == call[g].shift
<1>1. /\ s \in Shifts /\ blots[s] \subseteq blots'[s]
      /\ Alone(g) /\ Decided(g)
  BY CallFields DEF IInv, ShiftsInv
<1>2. Alone(g)'
  <2>1. CASE "raced" \in blots'[s]
    BY <2>1 DEF Alone
  <2>2. CASE "raced" \notin blots'[s]
    <3>1. Fresh(g) => Fresh(g)'
      BY <2>2 DEF Fresh
    <3>2. QED
      BY <1>1, <2>2, <3>1 DEF Alone, Busy
  <2>3. QED
    BY <2>1, <2>2
<1>3. Decided(g)'
  <2>1. call[g].op \in Approvals \/ call[g].op = "reject" => Updating(g)
    BY DEF Updating, Updates
  <2>2. QED
    BY <1>1, <2>1 DEF Decided
<1>4. QED
  BY <1>2, <1>3

(* So a step of call h keeps what holds of the others: one on the same     *)
(* shift is raced.                                                         *)
LEMMA OthersStay ==
    ASSUME IInv, ShiftsInv, NEW h \in DOMAIN call, Moves(h), NEW g \in DOMAIN call', g # h
    PROVE  Alone(g)' /\ Decided(g)'
<1> DEFINE s == call[g].shift
<1>1. /\ g \in DOMAIN call /\ s \in Shifts
      /\ Alone(g) /\ blots[s] \subseteq blots'[s]
  <2>1. g \in DOMAIN call
    BY DEF Moves
  <2>2. QED
    BY <2>1, CallFields DEF Moves, IInv, ShiftsInv
<1>2. ASSUME "raced" \notin blots'[s]
      PROVE  /\ {o \in DOMAIN call' : call'[o].shift = s} = {g}
             /\ s \in DOMAIN shift' <=> s \in DOMAIN shift
             /\ s \in DOMAIN shift => shift'[s] = shift[s]
  <2>1. Busy(s) = {g}
    BY <1>1, <1>2 DEF Alone
  <2>2. call[h].shift # s
    BY <2>1 DEF Busy
  <2>3. QED
    BY <1>1, <2>1, <2>2 DEF Moves, Busy
<1>3. QED
  BY <1>1, <1>2, SteadyStays DEF Moves

(* A call whose step leaves it in flight is still alone on its shift. *)
LEMMA MoverAlone ==
    ASSUME IInv, ShiftsInv, NEW h \in DOMAIN call, Moves(h), h \in DOMAIN call',
           "raced" \notin blots'[call[h].shift]
    PROVE  /\ Busy(call[h].shift) = {h}
           /\ {o \in DOMAIN call' : call'[o].shift = call[h].shift} = {h}
           /\ "raced" \notin blots[call[h].shift]
<1>1. call[h].shift \in Shifts /\ Alone(h)
  BY CallFields DEF IInv, ShiftsInv
<1>2. "raced" \notin blots[call[h].shift]
  BY <1>1 DEF Moves
<1>3. Busy(call[h].shift) = {h}
  BY <1>1, <1>2 DEF Alone
<1>4. QED
  BY <1>2, <1>3 DEF Moves, Busy

(* The requests keep their shifts, and one that is new is of an added one. *)
LEMMA RequestsStay ==
    ASSUME IInv, ShiftsInv, DOMAIN request \subseteq DOMAIN request', added \subseteq added',
           \A r \in DOMAIN request : request'[r].shift = request[r].shift,
           \A r \in DOMAIN request' \ DOMAIN request : request'[r].shift \in added',
           overlapped' = overlapped,
           \A s \in Shifts : blots[s] \subseteq blots'[s]
    PROVE  /\ \A r \in DOMAIN request' : request'[r].shift \in added'
           /\ \A r \in overlapped' : /\ r \in DOMAIN request'
                                     /\ "raced" \in blots'[request'[r].shift]
<1>1. \A r \in DOMAIN request' : request'[r].shift \in added'
  BY DEF ShiftsInv
<1>2. ASSUME NEW r \in overlapped
      PROVE  r \in DOMAIN request' /\ "raced" \in blots'[request'[r].shift]
  <2>1. r \in DOMAIN request /\ "raced" \in blots[request[r].shift]
    BY <1>2 DEF ShiftsInv
  <2>2. request[r].shift \in Shifts
    BY <2>1, ShiftFields DEF IInv
  <2>3. QED
    BY <2>1, <2>2
<1>3. QED
  BY <1>1, <1>2

(* Offered and Covered of a shift, when nothing about it has changed. *)
LEMMA CoveredStays ==
    ASSUME NEW s, Covered(s),
           \A r \in DOMAIN request : request[r].offer /\ request[r].shift = s =>
              r \in DOMAIN request' /\ request'[r] = request[r],
           \A g \in Busy(s) : /\ g \in DOMAIN call' /\ call'[g] = call[g]
                              /\ pc'[g] = pc[g]
    PROVE  Covered(s)'
  BY DEF Covered, Offered, Busy

LEMMA MovesInv ==
    ASSUME IInv, ShiftsInv, NEW h \in DOMAIN call, Moves(h),
           DOMAIN shift' \subseteq added', overlapped' = overlapped,
           DOMAIN request \subseteq DOMAIN request',
           \A r \in DOMAIN request : request'[r].shift = request[r].shift,
           \A r \in DOMAIN request' \ DOMAIN request : request'[r].shift \in added',
           h \in DOMAIN call' => Alone(h)' /\ Decided(h)'
    PROVE  ShiftsInv'
<1>1. \A g \in DOMAIN call' : Alone(g)' /\ Decided(g)'
  BY OthersStay
<1>2. /\ \A s \in Shifts : blots[s] \subseteq blots'[s]
      /\ added \subseteq added'
  BY DEF Moves
<1>3. QED
  BY <1>1, <1>2, RequestsStay DEF ShiftsInv

-----------------------------------------------------------------------------
(* The steps of a call move nothing else. *)
LEMMA EndMoves ==
    ASSUME IInv, NEW h \in DOMAIN call, NEW to \in {"done", "failed"},
           pc' = [pc EXCEPT ![h] = to], Forget(h), added' = added,
           \A s \in Shifts : blots[s] \subseteq blots'[s],
           \A s \in Shifts : s # call[h].shift =>
              /\ s \in DOMAIN shift' <=> s \in DOMAIN shift
              /\ s \in DOMAIN shift => shift'[s] = shift[s]
    PROVE  Moves(h) /\ h \notin DOMAIN call'
<1>1. /\ DOMAIN call' = DOMAIN call \ {h} /\ DOMAIN copy' = DOMAIN copy \ {h}
      /\ \A g \in DOMAIN call' : call'[g] = call[g]
      /\ \A g \in DOMAIN copy : g # h => copy'[g] = copy[g]
  BY Forgotten DEF IInv
<1>2. \A g \in DOMAIN call' : /\ pc'[g] = pc[g]
                              /\ Updating(g) => mine'[g] = mine[g]
  BY EndedOthers
<1>3. QED
  BY <1>1, <1>2 DEF Moves

LEMMA StepMoves ==
    ASSUME IInv, NEW h \in DOMAIN call, NEW to, pc' = [pc EXCEPT ![h] = to],
           call' = call, added' = added,
           \A g \in DOMAIN call : g # h =>
              /\ g \in DOMAIN copy' <=> g \in DOMAIN copy
              /\ g \in DOMAIN copy => copy'[g] = copy[g]
              /\ Updating(g) => mine'[g] = mine[g],
           \A s \in Shifts : blots[s] \subseteq blots'[s],
           \A s \in Shifts : s # call[h].shift =>
              /\ s \in DOMAIN shift' <=> s \in DOMAIN shift
              /\ s \in DOMAIN shift => shift'[s] = shift[s]
    PROVE  Moves(h) /\ pc'[h] = to
<1>1. pc \in [Calls -> Steps] /\ \A g \in DOMAIN call : g \in Calls
  BY CallFields DEF IInv, TypeOK
<1>2. pc'[h] = to /\ \A g \in DOMAIN call : g # h => pc'[g] = pc[g]
  BY <1>1
<1>3. QED
  BY <1>2 DEF Moves

(* What updateShiftRequest saves is the request it has read, decided or    *)
(* applied to.                                                             *)
LEMMA Saves ==
    ASSUME IInv, NEW h \in DOMAIN call, call[h].op # "edit",
           request' = Save(request, call[h].req, mine[h])
    PROVE  /\ Updating(h)
           /\ call[h].req \in DOMAIN request /\ request[call[h].req].shift = call[h].shift
           /\ DOMAIN request' = DOMAIN request
           /\ request'[call[h].req] = mine[h]
           /\ \A r \in DOMAIN request : r # call[h].req => request'[r] = request[r]
           /\ \A r \in DOMAIN request : request'[r].shift = request[r].shift
<1>1. Updating(h)
  BY CallFields DEF IInv, Updating
<1>2. /\ call[h].req \in DOMAIN request
      /\ request[call[h].req].shift = call[h].shift
      /\ mine[h].shift = call[h].shift
  BY <1>1 DEF IInv, CallsInv
<1>3. QED
  BY <1>1, <1>2 DEF Save

LEMMA BlameGrows ==
    ASSUME IInv, NEW s \in Shifts, NEW causes, Blame(s, causes)
    PROVE  /\ \A x \in Shifts : blots[x] \subseteq blots'[x]
           /\ causes \subseteq blots'[s]
           /\ \A x \in Shifts : x # s => blots'[x] = blots[x]
<1>1. blots \in [Shifts -> SUBSET Cause]
  BY DEF IInv, TypeOK
<1>2. QED
  BY <1>1 DEF Blame

LEMMA AbortMoves ==
    ASSUME IInv, NEW h \in Calls, Abort(h)
    PROVE  h \in DOMAIN call /\ Moves(h) /\ h \notin DOMAIN call'
<1>1. /\ h \in DOMAIN call /\ pc' = [pc EXCEPT ![h] = "failed"] /\ Forget(h)
      /\ \E causes : Blame(call[h].shift, causes)
      /\ UNCHANGED <<shift, request, added, overlapped>>
  BY DEF Abort, IInv, CallsInv
<1>2. \A x \in Shifts : blots[x] \subseteq blots'[x]
  BY <1>1, CallFields, BlameGrows DEF IInv
<1>3. QED
  BY <1>1, <1>2, EndMoves

LEMMA NoShiftMoves ==
    ASSUME IInv, NEW h \in Calls, NoShift(h)
    PROVE  h \in DOMAIN call /\ Moves(h) /\ h \notin DOMAIN call'
<1>1. /\ h \in DOMAIN call /\ pc' = [pc EXCEPT ![h] = "failed"] /\ Forget(h)
      /\ UNCHANGED <<shift, request, added, overlapped, blots>>
  BY DEF NoShift, Goto, IInv, CallsInv, InFlight
<1>2. QED
  BY <1>1, EndMoves

LEMMA FinishMoves ==
    ASSUME IInv, NEW h \in Calls, Finish(h)
    PROVE  h \in DOMAIN call /\ Moves(h) /\ h \notin DOMAIN call' /\ call[h].op # "edit"
<1>1. /\ h \in DOMAIN call /\ pc' = [pc EXCEPT ![h] = "done"] /\ Forget(h)
      /\ call[h].op # "edit"
      /\ UNCHANGED <<shift, added, overlapped, blots>>
  BY DEF Finish, Goto, IInv, CallsInv, InFlight
<1>2. QED
  BY <1>1, EndMoves

LEMMA EditSaveMoves ==
    ASSUME IInv, NEW h \in Calls, EditSave(h)
    PROVE  h \in DOMAIN call /\ Moves(h) /\ h \notin DOMAIN call'
<1>1. /\ h \in DOMAIN call /\ pc' = [pc EXCEPT ![h] = "done"] /\ Forget(h)
      /\ shift' = Save(shift, call[h].shift, copy[h])
      /\ UNCHANGED <<request, added, overlapped, blots>>
  BY DEF EditSave, Goto, IInv, CallsInv, InFlight
<1>2. \A s \in Shifts : s # call[h].shift =>
         /\ s \in DOMAIN shift' <=> s \in DOMAIN shift
         /\ s \in DOMAIN shift => shift'[s] = shift[s]
  BY <1>1 DEF Save
<1>3. QED
  BY <1>1, <1>2, EndMoves

LEMMA ReadShiftMoves ==
    ASSUME IInv, NEW h \in Calls, ReadShift(h)
    PROVE  /\ h \in DOMAIN call /\ Moves(h) /\ Updating(h)
           /\ pc'[h] = IF call[h].op = "other" THEN "finish" ELSE "save_request"
           /\ mine'[h] = Updated(mine[h], call[h])
<1> DEFINE to == IF call[h].op = "other" THEN "finish" ELSE "save_request"
<1>1. /\ pc[h] = "read_shift" /\ pc' = [pc EXCEPT ![h] = to]
      /\ mine' = [mine EXCEPT ![h] = Updated(@, call[h])]
      /\ copy' = IF call[h].shift \in DOMAIN shift
                   THEN Save(copy, h, shift[call[h].shift]) ELSE copy
      /\ UNCHANGED <<shift, request, call, added, overlapped, blots>>
  BY DEF ReadShift, Goto
<1>2. h \in DOMAIN call /\ call[h].op # "edit"
  BY <1>1 DEF IInv, CallsInv, InFlight
<1>3. Updating(h) /\ h \in DOMAIN mine
  BY <1>2, CallFields DEF IInv, CallsInv, Updating
<1>4. ASSUME NEW g \in DOMAIN call, g # h
      PROVE  /\ g \in DOMAIN copy' <=> g \in DOMAIN copy
             /\ g \in DOMAIN copy => copy'[g] = copy[g]
             /\ Updating(g) => mine'[g] = mine[g]
  <2>1. /\ g \in DOMAIN copy' <=> g \in DOMAIN copy
        /\ g \in DOMAIN copy => copy'[g] = copy[g]
    BY <1>1, <1>4 DEF Save
  <2>2. Updating(g) => g \in DOMAIN mine
    BY DEF IInv, CallsInv
  <2>3. QED
    BY <1>1, <1>4, <2>1, <2>2
<1>5. mine'[h] = Updated(mine[h], call[h])
  BY <1>1, <1>3
<1> HIDE DEF to
<1>6. Moves(h) /\ pc'[h] = to
  BY <1>1, <1>2, <1>4, StepMoves
<1>7. QED
  BY <1>2, <1>3, <1>5, <1>6 DEF to

LEMMA SaveRequestMoves ==
    ASSUME IInv, NEW h \in Calls, SaveRequest(h)
    PROVE  /\ h \in DOMAIN call /\ Moves(h) /\ call[h].op # "edit"
           /\ pc'[h] = IF call[h].op \in Approvals THEN "save_shift" ELSE "finish"
<1> DEFINE to == IF call[h].op \in Approvals THEN "save_shift" ELSE "finish"
<1>1. /\ pc[h] = "save_request" /\ pc' = [pc EXCEPT ![h] = to]
      /\ UNCHANGED <<shift, call, mine, copy, added, overlapped, blots>>
  BY DEF SaveRequest, Goto
<1>2. h \in DOMAIN call /\ call[h].op # "edit"
  BY <1>1 DEF IInv, CallsInv, InFlight
<1> HIDE DEF to
<1>3. Moves(h) /\ pc'[h] = to
  BY <1>1, <1>2, StepMoves
<1>4. QED
  BY <1>2, <1>3 DEF to

LEMMA SaveShiftMoves ==
    ASSUME IInv, NEW h \in Calls, SaveShift(h)
    PROVE  /\ h \in DOMAIN call /\ Moves(h) /\ call[h].op \in Approvals
           /\ pc'[h] = IF call[h].op = "OPEN" THEN "post_offer" ELSE "finish"
<1> DEFINE to == IF call[h].op = "OPEN" THEN "post_offer" ELSE "finish"
<1>1. /\ pc[h] = "save_shift" /\ pc' = [pc EXCEPT ![h] = to]
      /\ shift' = Save(shift, call[h].shift, Assigned(copy[h], call[h]))
      /\ \E causes : Blame(call[h].shift, causes)
      /\ UNCHANGED <<request, call, mine, copy, added, overlapped>>
  BY DEF SaveShift, Goto
<1>2. h \in DOMAIN call /\ call[h].op \in Approvals
  BY <1>1 DEF IInv, CallsInv, InFlight
<1>3. \A x \in Shifts : blots[x] \subseteq blots'[x]
  BY <1>1, <1>2, CallFields, BlameGrows DEF IInv
<1>4. \A s \in Shifts : s # call[h].shift =>
         /\ s \in DOMAIN shift' <=> s \in DOMAIN shift
         /\ s \in DOMAIN shift => shift'[s] = shift[s]
  BY <1>1 DEF Save
<1> HIDE DEF to
<1>5. Moves(h) /\ pc'[h] = to
  BY <1>1, <1>2, <1>3, <1>4, StepMoves
<1>6. QED
  BY <1>2, <1>5 DEF to

LEMMA PostOfferMoves ==
    ASSUME IInv, NEW h \in Calls, PostOffer(h)
    PROVE  h \in DOMAIN call /\ Moves(h) /\ pc'[h] = "finish"
<1>1. /\ pc[h] = "post_offer" /\ pc' = [pc EXCEPT ![h] = "finish"]
      /\ UNCHANGED <<shift, call, mine, copy, added, overlapped, blots>>
  BY DEF PostOffer, Goto
<1>2. h \in DOMAIN call
  BY <1>1 DEF IInv, CallsInv, InFlight
<1>3. QED
  BY <1>1, <1>2, StepMoves

-----------------------------------------------------------------------------
(* Each step keeps ShiftsInv. *)
LEMMA AddShiftAlone == ASSUME NEW s \in Shifts, IInv, ShiftsInv, AddShift(s) PROVE ShiftsInv'
<1>1. /\ s \notin added /\ added' = added \cup {s}
      /\ DOMAIN shift' = DOMAIN shift \cup {s}
      /\ \A x \in DOMAIN shift : x # s => shift'[x] = shift[x]
      /\ UNCHANGED <<request, pc, call, mine, copy, overlapped, blots>>
  BY DEF AddShift, Save
<1>2. ASSUME NEW g \in DOMAIN call' PROVE Alone(g)' /\ Decided(g)'
  <2>1. g \in DOMAIN call /\ call[g].shift # s /\ Alone(g)
    BY <1>1, <1>2 DEF ShiftsInv, Decided
  <2>2. "raced" \notin blots'[call[g].shift] =>
          {o \in DOMAIN call' : call'[o].shift = call[g].shift} = {g}
    BY <1>1, <2>1 DEF Alone, Busy
  <2>3. QED
    BY <1>1, <2>1, <2>2, SteadyStays
<1>3. /\ \A r \in DOMAIN request' : request'[r].shift \in added'
      /\ \A r \in overlapped' : r \in DOMAIN request' /\ "raced" \in blots'[request'[r].shift]
  BY <1>1, RequestsStay
<1>4. DOMAIN shift' \subseteq added'
  BY <1>1 DEF ShiftsInv
<1>5. QED
  BY <1>2, <1>3, <1>4 DEF ShiftsInv

LEMMA DeleteShiftAlone ==
    ASSUME NEW s \in Shifts, IInv, ShiftsInv, DeleteShift(s) PROVE ShiftsInv'
<1>1. /\ shift' = Delete(shift, s) /\ Blame(s, Race(s))
      /\ UNCHANGED <<request, pc, call, mine, copy, added, overlapped>>
  BY DEF DeleteShift
<1>2. /\ \A x \in Shifts : blots[x] \subseteq blots'[x]
      /\ Race(s) \subseteq blots'[s]
  BY <1>1, BlameGrows
<1>3. /\ DOMAIN shift' = DOMAIN shift \ {s}
      /\ \A x \in DOMAIN shift : x # s => shift'[x] = shift[x]
  BY <1>1 DEF Delete
<1>4. ASSUME NEW g \in DOMAIN call' PROVE Alone(g)' /\ Decided(g)'
  <2>1. /\ g \in DOMAIN call /\ Alone(g)
        /\ call[g].shift \in Shifts
    BY <1>1, <1>4, CallFields DEF IInv, ShiftsInv
  <2>2. call[g].shift = s => "raced" \in blots'[s]
    BY <1>2, <2>1 DEF Race, Busy
  <2>3. "raced" \notin blots'[call[g].shift] =>
          {o \in DOMAIN call' : call'[o].shift = call[g].shift} = {g}
    BY <1>1, <1>2, <2>1 DEF Alone, Busy
  <2>4. QED
    BY <1>1, <1>2, <1>3, <2>1, <2>2, <2>3, SteadyStays
<1>5. /\ \A r \in DOMAIN request' : request'[r].shift \in added'
      /\ \A r \in overlapped' : r \in DOMAIN request' /\ "raced" \in blots'[request'[r].shift]
  BY <1>1, <1>2, RequestsStay
<1>6. DOMAIN shift' \subseteq added'
  BY <1>1, <1>3 DEF ShiftsInv
<1>7. QED
  BY <1>4, <1>5, <1>6 DEF ShiftsInv

LEMMA PostRequestAlone ==
    ASSUME NEW h \in Calls, IInv, ShiftsInv, PostRequest(h) PROVE ShiftsInv'
<1>1. /\ pc[h] = "idle" /\ pc' = [pc EXCEPT ![h] = "failed"]
      /\ UNCHANGED <<shift, call, mine, copy, added, overlapped, blots>>
      /\ pc \in [Calls -> Steps] /\ h \notin DOMAIN call /\ h \notin DOMAIN request
  BY DEF PostRequest, Goto, IInv, TypeOK, CallsInv, InFlight
<1>2. PICK s \in DOMAIN shift, offer \in BOOLEAN :
         request' = Save(request, h, [Offer(s) EXCEPT !.offer = offer])
  BY DEF PostRequest
<1>3. [Offer(s) EXCEPT !.offer = offer].shift = s
  BY DEF Offer
<1>4. /\ DOMAIN request' = DOMAIN request \cup {h} /\ request'[h].shift = s
      /\ \A r \in DOMAIN request : request'[r] = request[r]
  BY <1>1, <1>2, <1>3 DEF Save
<1>5. ASSUME NEW g \in DOMAIN call' PROVE Alone(g)' /\ Decided(g)'
  <2>1. g \in DOMAIN call /\ Alone(g) /\ pc'[g] = pc[g]
    BY <1>1, <1>5 DEF ShiftsInv
  <2>2. "raced" \notin blots'[call[g].shift] =>
          {o \in DOMAIN call' : call'[o].shift = call[g].shift} = {g}
    BY <1>1, <2>1 DEF Alone, Busy
  <2>3. QED
    BY <1>1, <2>1, <2>2, SteadyStays
<1>6. s \in added
  BY DEF ShiftsInv
<1>7. /\ \A r \in DOMAIN request' : request'[r].shift \in added'
      /\ \A r \in overlapped' : r \in DOMAIN request' /\ "raced" \in blots'[request'[r].shift]
  BY <1>1, <1>4, <1>6, RequestsStay
<1>8. QED
  BY <1>1, <1>5, <1>7 DEF ShiftsInv

(* A call that begins on shift s races with those that are in flight.      *)
LEMMA BeginOthers ==
    ASSUME IInv, ShiftsInv, NEW h \in Calls, h \notin DOMAIN call, NEW s \in Shifts,
           DOMAIN call' = DOMAIN call \cup {h}, call'[h].shift = s,
           \A g \in DOMAIN call : call'[g] = call[g] /\ pc'[g] = pc[g],
           \A g \in DOMAIN copy : g \in DOMAIN copy' /\ copy'[g] = copy[g],
           DOMAIN copy' \subseteq DOMAIN copy \cup {h},
           \A g \in DOMAIN call : Updating(g) => mine'[g] = mine[g],
           UNCHANGED <<shift, added>>,
           \A x \in Shifts : blots[x] \subseteq blots'[x],
           Race(s) \subseteq blots'[s]
    PROVE  /\ \A g \in DOMAIN call : Alone(g)' /\ Decided(g)'
           /\ "raced" \notin blots'[s] => {o \in DOMAIN call' : call'[o].shift = s} = {h}
<1>1. Busy(s) # {} => "raced" \in blots'[s]
  BY DEF Race
<1>2. ASSUME NEW g \in DOMAIN call PROVE Alone(g)' /\ Decided(g)'
  <2>1. g # h /\ call[g].shift \in Shifts /\ Alone(g)
    BY CallFields DEF IInv, ShiftsInv
  <2>2. "raced" \notin blots'[call[g].shift] =>
          {o \in DOMAIN call' : call'[o].shift = call[g].shift} = {g}
    <3>1. call[g].shift = s => "raced" \in blots'[s]
      BY <1>1 DEF Busy
    <3>2. QED
      BY <2>1, <3>1 DEF Alone, Busy
  <2>3. QED
    BY <2>1, <2>2, SteadyStays
<1>3. QED
  BY <1>1, <1>2 DEF Busy

LEMMA EditReadAlone ==
    ASSUME NEW h \in Calls, IInv, ShiftsInv, EditRead(h) PROVE ShiftsInv'
<1>1. /\ pc[h] = "idle" /\ pc' = [pc EXCEPT ![h] = "edit_save"]
      /\ UNCHANGED <<shift, request, mine, added, overlapped>>
      /\ pc \in [Calls -> Steps] /\ h \notin DOMAIN call /\ h \notin DOMAIN copy
  BY DEF EditRead, Goto, IInv, TypeOK, CallsInv, InFlight
<1>2. PICK s \in DOMAIN shift :
         /\ call' = Save(call, h, [op |-> "edit", req |-> h, shift |-> s, emp |-> Nobody])
         /\ copy' = Save(copy, h, shift[s])
         /\ Blame(s, Race(s))
  BY DEF EditRead
<1>3. s \in Shifts
  BY ShiftFields DEF IInv
<1>4. /\ DOMAIN call' = DOMAIN call \cup {h} /\ DOMAIN copy' = DOMAIN copy \cup {h}
      /\ call'[h].op = "edit" /\ call'[h].shift = s /\ call'[h].emp = Nobody
      /\ copy'[h] = shift[s]
      /\ \A g \in DOMAIN call : call'[g] = call[g] /\ pc'[g] = pc[g]
      /\ \A g \in DOMAIN copy : copy'[g] = copy[g]
  BY <1>1, <1>2 DEF Save
<1>5. /\ \A x \in Shifts : blots[x] \subseteq blots'[x]
      /\ Race(s) \subseteq blots'[s]
  BY <1>2, <1>3, BlameGrows
<1>6. /\ \A g \in DOMAIN call : Alone(g)' /\ Decided(g)'
      /\ "raced" \notin blots'[s] => {o \in DOMAIN call' : call'[o].shift = s} = {h}
  BY <1>1, <1>3, <1>4, <1>5, BeginOthers
<1>7. Alone(h)' /\ Decided(h)'
  <2>1. pc'[h] = "edit_save" /\ s \in added
    BY <1>1 DEF ShiftsInv
  <2>2. Fresh(h)'
    BY <1>1, <1>4 DEF Fresh
  <2>3. QED
    BY <1>1, <1>4, <1>6, <2>1, <2>2 DEF Alone, Decided, Busy, Approvals
<1>8. /\ \A r \in DOMAIN request' : request'[r].shift \in added'
      /\ \A r \in overlapped' : r \in DOMAIN request' /\ "raced" \in blots'[request'[r].shift]
  BY <1>1, <1>5, RequestsStay
<1>9. QED
  BY <1>1, <1>4, <1>6, <1>7, <1>8 DEF ShiftsInv

LEMMA ReadRequestAlone ==
    ASSUME NEW h \in Calls, IInv, ShiftsInv, ReadRequest(h) PROVE ShiftsInv'
<1>1. /\ pc[h] = "idle" /\ pc' = [pc EXCEPT ![h] = "read_shift"]
      /\ UNCHANGED <<shift, request, copy, added>>
      /\ pc \in [Calls -> Steps] /\ h \notin DOMAIN call /\ h \notin DOMAIN copy
      /\ h \notin DOMAIN mine
  BY DEF ReadRequest, Goto, IInv, TypeOK, CallsInv, InFlight
<1>2. PICK r \in DOMAIN request, op \in Updates :
         /\ \E e \in IF op \in Names THEN Employees ELSE {Nobody} :
              call' = Save(call, h, [op |-> op, req |-> r, shift |-> request[r].shift,
                                     emp |-> e])
         /\ mine' = Save(mine, h, request[r])
         /\ overlapped' = overlapped \cup
              {x \in {r} : \E o \in Busy(request[r].shift) : call[o].req = x}
         /\ Blame(request[r].shift, Race(request[r].shift) \cup
              {c \in {"offerRejected"} : op = "reject" /\ request[r].offer})
  BY DEF ReadRequest
<1>3. PICK e \in IF op \in Names THEN Employees ELSE {Nobody} :
         call' = Save(call, h, [op |-> op, req |-> r, shift |-> request[r].shift, emp |-> e])
  BY <1>2
<1>4. PICK s \in Shifts : s = request[r].shift /\ s \in added
  BY ShiftFields DEF IInv, ShiftsInv
<1>5. /\ DOMAIN call' = DOMAIN call \cup {h} /\ DOMAIN mine' = DOMAIN mine \cup {h}
      /\ call'[h].op = op /\ call'[h].shift = s /\ call'[h].emp = e
      /\ mine'[h] = request[r]
      /\ \A g \in DOMAIN call : call'[g] = call[g] /\ pc'[g] = pc[g]
      /\ \A g \in DOMAIN mine : mine'[g] = mine[g]
  BY <1>1, <1>2, <1>3, <1>4 DEF Save
<1>6. /\ \A x \in Shifts : blots[x] \subseteq blots'[x]
      /\ Race(s) \subseteq blots'[s]
      /\ op = "reject" /\ request[r].offer => "offerRejected" \in blots'[s]
  BY <1>2, <1>4, BlameGrows
<1>7. /\ \A g \in DOMAIN call : Alone(g)' /\ Decided(g)'
      /\ "raced" \notin blots'[s] => {o \in DOMAIN call' : call'[o].shift = s} = {h}
  <2>1. \A g \in DOMAIN call : Updating(g) => mine'[g] = mine[g]
    BY <1>5 DEF IInv, CallsInv
  <2>2. QED
    BY <1>1, <1>4, <1>5, <1>6, <2>1, BeginOthers
<1>8. Alone(h)' /\ Decided(h)'
  <2>1. pc'[h] = "read_shift"
    BY <1>1
  <2>2. Decided(h)'
    BY <1>1, <1>3, <1>4, <1>5, <1>6, <2>1 DEF Decided
  <2>3. QED
    BY <1>5, <1>7, <2>1, <2>2 DEF Alone, Busy
<1>9. ASSUME NEW x \in overlapped'
      PROVE  x \in DOMAIN request' /\ "raced" \in blots'[request'[x].shift]
  <2>1. CASE x \in overlapped
    <3>1. x \in DOMAIN request /\ "raced" \in blots[request[x].shift]
      BY <2>1 DEF ShiftsInv
    <3>2. request[x].shift \in Shifts
      BY <3>1, ShiftFields DEF IInv
    <3>3. QED
      BY <1>1, <1>6, <3>1, <3>2
  <2>2. CASE x = r /\ Busy(s) # {}
    BY <1>1, <1>4, <1>6, <2>2 DEF Race
  <2>3. QED
    BY <1>2, <1>4, <1>9, <2>1, <2>2
<1>10. QED
  BY <1>1, <1>5, <1>7, <1>8, <1>9 DEF ShiftsInv

(* A step that ends a call, or that leaves the shifts alone. *)
LEMMA EndAlone ==
    ASSUME NEW h \in Calls, IInv, ShiftsInv, NoShift(h) \/ Finish(h) \/ Abort(h)
    PROVE  ShiftsInv'
<1>1. /\ h \in DOMAIN call /\ Moves(h) /\ h \notin DOMAIN call'
      /\ UNCHANGED <<shift, added, overlapped>>
  BY NoShiftMoves, FinishMoves, AbortMoves DEF NoShift, Finish, Abort
<1>2. /\ DOMAIN request' = DOMAIN request
      /\ \A r \in DOMAIN request : request'[r].shift = request[r].shift
  <2>1. CASE Finish(h)
    <3>1. call[h].op # "edit" /\ request' = Save(request, call[h].req, mine[h])
      BY <2>1, FinishMoves DEF Finish
    <3>2. QED
      BY <1>1, <3>1, Saves
  <2>2. CASE NoShift(h) \/ Abort(h)
    BY <2>2 DEF NoShift, Abort
  <2>3. QED
    BY <2>1, <2>2
<1>3. DOMAIN shift' \subseteq added'
  BY <1>1 DEF ShiftsInv
<1>4. QED
  BY <1>1, <1>2, <1>3, MovesInv

LEMMA EditSaveAlone ==
    ASSUME NEW h \in Calls, IInv, ShiftsInv, EditSave(h) PROVE ShiftsInv'
<1>1. /\ h \in DOMAIN call /\ Moves(h) /\ h \notin DOMAIN call'
      /\ shift' = Save(shift, call[h].shift, copy[h])
      /\ UNCHANGED <<request, added, overlapped>>
  BY EditSaveMoves DEF EditSave
<1>2. DOMAIN shift' \subseteq added'
  BY <1>1 DEF Save, ShiftsInv, Decided
<1>3. QED
  BY <1>1, <1>2, MovesInv

LEMMA ReadShiftAlone ==
    ASSUME NEW h \in Calls, IInv, ShiftsInv, ReadShift(h) PROVE ShiftsInv'
<1> DEFINE s == call[h].shift
<1>1. /\ h \in DOMAIN call /\ Moves(h) /\ Updating(h)
      /\ pc[h] = "read_shift"
      /\ pc'[h] = IF call[h].op = "other" THEN "finish" ELSE "save_request"
      /\ mine'[h] = Updated(mine[h], call[h])
      /\ copy' = IF s \in DOMAIN shift THEN Save(copy, h, shift[s]) ELSE copy
      /\ UNCHANGED <<shift, request, call, added, overlapped, blots>>
  BY ReadShiftMoves DEF ReadShift, Goto
<1>2. Alone(h) /\ Decided(h) /\ h \notin DOMAIN copy
  BY <1>1 DEF ShiftsInv, Decided
<1>3. Alone(h)'
  <2>1. Fresh(h)'
    <3>1. CASE s \in DOMAIN shift
      BY <1>1, <3>1 DEF Fresh, Save
    <3>2. CASE s \notin DOMAIN shift
      BY <1>1, <1>2, <3>2 DEF Fresh
    <3>3. QED
      BY <3>1, <3>2
  <2>2. ~(call[h].op \in Approvals /\ pc'[h] \in {"post_offer", "finish"})
    BY <1>1 DEF Approvals
  <2>3. QED
    BY <1>1, <1>2, <2>1, <2>2 DEF Alone, Busy
<1>4. Decided(h)'
  <2>1. mine[h] \in RequestRow /\ call[h].op \in Updates
    BY <1>1 DEF IInv, CallsInv, TypeOK, IsTable, Updating
  <2>2. ASSUME call[h].op \in Approvals PROVE mine'[h].status = "APPROVED"
    <3>1. Updated(mine[h], call[h]) = [mine[h] EXCEPT !.status = "APPROVED"]
      BY <2>2 DEF Updated, Approvals
    <3>2. QED
      BY <1>1, <2>1, <3>1 DEF RequestRow
  <2>3. call[h].op = "reject" => mine'[h].offer = mine[h].offer
    BY <1>1, <2>1 DEF Updated, RequestRow, Approvals
  <2>4. pc'[h] # "read_shift"
    BY <1>1
  <2>5. QED
    BY <1>1, <1>2, <2>2, <2>3, <2>4 DEF Decided
<1>5. DOMAIN shift' \subseteq added'
  BY <1>1 DEF ShiftsInv
<1>6. QED
  BY <1>1, <1>3, <1>4, <1>5, MovesInv

LEMMA SaveRequestAlone ==
    ASSUME NEW h \in Calls, IInv, ShiftsInv, SaveRequest(h) PROVE ShiftsInv'
<1>1. /\ h \in DOMAIN call /\ Moves(h) /\ call[h].op # "edit"
      /\ pc[h] = "save_request"
      /\ pc'[h] = IF call[h].op \in Approvals THEN "save_shift" ELSE "finish"
      /\ request' = Save(request, call[h].req, mine[h])
      /\ UNCHANGED <<shift, call, mine, copy, added, overlapped, blots>>
  BY SaveRequestMoves DEF SaveRequest, Goto
<1>2. /\ DOMAIN request' = DOMAIN request
      /\ \A r \in DOMAIN request : request'[r].shift = request[r].shift
  BY <1>1, Saves
<1>3. Alone(h) /\ Decided(h)
  BY <1>1 DEF ShiftsInv
<1>4. Alone(h)'
  BY <1>1, <1>3 DEF Alone, Fresh, Busy
<1>5. Decided(h)'
  BY <1>1, <1>3 DEF Decided
<1>6. DOMAIN shift' \subseteq added'
  BY <1>1 DEF ShiftsInv
<1>7. QED
  BY <1>1, <1>2, <1>4, <1>5, <1>6, MovesInv

LEMMA SaveShiftAlone ==
    ASSUME NEW h \in Calls, IInv, ShiftsInv, SaveShift(h) PROVE ShiftsInv'
<1> DEFINE s == call[h].shift
<1>1. /\ h \in DOMAIN call /\ Moves(h) /\ call[h].op \in Approvals
      /\ pc[h] = "save_shift" /\ h \in DOMAIN copy
      /\ pc'[h] = IF call[h].op = "OPEN" THEN "post_offer" ELSE "finish"
      /\ shift' = Save(shift, s, Assigned(copy[h], call[h]))
      /\ UNCHANGED <<request, call, mine, copy, added, overlapped>>
  BY SaveShiftMoves DEF SaveShift, Goto
<1>2. /\ Alone(h) /\ Decided(h) /\ s \in Shifts
      /\ copy[h] \in ShiftRow
  BY <1>1, CallFields DEF ShiftsInv, IInv, TypeOK, IsTable
<1>3. Assigned(copy[h], call[h]).emp = call[h].emp
  <2>1. call[h].op = "OPEN" => call[h].emp = Nobody
    BY <1>2 DEF Decided, Names
  <2>2. QED
    BY <1>1, <1>2, <2>1 DEF Assigned, ShiftRow, Approvals
<1>4. /\ DOMAIN shift' = DOMAIN shift \cup {s}
      /\ shift'[s].emp = call[h].emp
  BY <1>1, <1>3 DEF Save
<1>5. blots[s] \subseteq blots'[s]
  BY <1>1, <1>2 DEF Moves
<1>6. Alone(h)'
  BY <1>1, <1>2, <1>4, <1>5 DEF Alone, Busy
<1>7. Decided(h)'
  BY <1>1, <1>2, <1>5 DEF Decided
<1>8. DOMAIN shift' \subseteq added'
  BY <1>1, <1>2, <1>4 DEF ShiftsInv, Decided
<1>9. QED
  BY <1>1, <1>6, <1>7, <1>8, MovesInv

LEMMA PostOfferAlone ==
    ASSUME NEW h \in Calls, IInv, ShiftsInv, PostOffer(h) PROVE ShiftsInv'
<1> DEFINE s == call[h].shift
<1>1. /\ h \in DOMAIN call /\ Moves(h)
      /\ pc[h] = "post_offer" /\ pc'[h] = "finish"
      /\ request' = Save(request, h, Offer(s))
      /\ UNCHANGED <<shift, call, mine, copy, added, overlapped, blots>>
  BY PostOfferMoves DEF PostOffer, Goto
<1>2. /\ Alone(h) /\ Decided(h) /\ h \notin DOMAIN request
  BY <1>1 DEF ShiftsInv, IInv, CallsInv
<1>3. /\ DOMAIN request' = DOMAIN request \cup {h}
      /\ request'[h].shift = s
      /\ \A r \in DOMAIN request : request'[r] = request[r]
  BY <1>1, <1>2 DEF Save, Offer
<1>4. Alone(h)'
  BY <1>1, <1>2 DEF Alone, Busy
<1>5. Decided(h)'
  BY <1>1, <1>2 DEF Decided
<1>6. DOMAIN shift' \subseteq added' /\ s \in added'
  BY <1>1, <1>2 DEF ShiftsInv, Decided
<1>7. QED
  BY <1>1, <1>3, <1>4, <1>5, <1>6, MovesInv

LEMMA NextAlone == ASSUME IInv, ShiftsInv, [Next]_vars PROVE ShiftsInv'
<1>1. CASE \E h \in Calls : Edit(h)
  BY <1>1, EditReadAlone, EditSaveAlone DEF Edit
<1>2. CASE \E h \in Calls : PostRequest(h) \/ Abort(h)
  BY <1>2, PostRequestAlone, EndAlone
<1>3. CASE \E h \in Calls : Update(h)
  BY <1>3, ReadRequestAlone, ReadShiftAlone, SaveRequestAlone, SaveShiftAlone,
     PostOfferAlone, EndAlone DEF Update
<1>4. CASE \E s \in Shifts : AddShift(s) \/ DeleteShift(s)
  BY <1>4, AddShiftAlone, DeleteShiftAlone
<1>5. CASE UNCHANGED vars
  BY <1>5 DEF vars, ShiftsInv, Alone, Fresh, Decided, Busy
<1>6. QED
  BY <1>1, <1>2, <1>3, <1>4, <1>5 DEF Next
-----------------------------------------------------------------------------
(* Each step keeps OfferInv.  First the shifts that a step is not about,   *)
(* and the steps that touch no shift and no request that is stored.        *)
LEMMA ElsewhereCovered ==
    ASSUME IInv, OfferInv, NEW h \in DOMAIN call, Moves(h),
           NEW s \in DOMAIN shift', s # call[h].shift, s \in Shifts,
           shift'[s].open, blots'[s] = {},
           \A r \in DOMAIN request : request[r].shift # call[h].shift =>
              r \in DOMAIN request' /\ request'[r] = request[r]
    PROVE  Covered(s)'
<1>1. s \in DOMAIN shift /\ shift[s].open /\ blots[s] = {}
  BY DEF Moves
<1>2. Covered(s)
  BY <1>1 DEF OfferInv
<1>3. \A g \in Busy(s) : g \in DOMAIN call' /\ call'[g] = call[g] /\ pc'[g] = pc[g]
  BY DEF Busy, Moves
<1>4. QED
  BY <1>2, <1>3, CoveredStays

(* On its own shift, a call that is not raced is the only one.             *)
LEMMA HereCovered ==
    ASSUME IInv, ShiftsInv, OfferInv, NEW h \in DOMAIN call, Moves(h), blots'[call[h].shift] = {}
    PROVE  /\ call[h].shift \in Shifts /\ blots[call[h].shift] = {}
           /\ Busy(call[h].shift) = {h}
           /\ pc[h] \in {"edit_save", "save_request", "save_shift"} => Fresh(h)
           /\ Decided(h)
           /\ call[h].req \in overlapped => ~Updating(h)
<1>1. call[h].shift \in Shifts /\ Alone(h) /\ Decided(h)
  BY CallFields DEF IInv, ShiftsInv
<1>2. blots[call[h].shift] = {}
  BY <1>1 DEF Moves
<1>3. call[h].req \in overlapped => ~Updating(h)
  BY <1>2 DEF ShiftsInv, IInv, CallsInv
<1>4. QED
  BY <1>1, <1>2, <1>3 DEF Alone

LEMMA QuietCovered ==
    ASSUME IInv, OfferInv,
           \A s \in DOMAIN shift' : s \in DOMAIN shift /\ shift'[s] = shift[s],
           \A s \in Shifts : blots[s] \subseteq blots'[s],
           \A r \in DOMAIN request : r \in DOMAIN request' /\ request'[r] = request[r],
           \A g \in DOMAIN call : g \in DOMAIN call' /\ call'[g] = call[g],
           \A g \in DOMAIN call : pc[g] \in {"save_shift", "post_offer"} => pc'[g] = pc[g]
    PROVE  OfferInv'
<1> SUFFICES ASSUME NEW s \in DOMAIN shift', shift'[s].open, blots'[s] = {}
             PROVE  Covered(s)'
  BY DEF OfferInv
<1>1. s \in DOMAIN shift /\ s \in Shifts /\ shift[s].open /\ blots[s] = {}
  BY ShiftFields DEF IInv
<1>2. QED
  BY <1>1 DEF OfferInv, Covered, Offered, Busy

LEMMA AddShiftCovered ==
    ASSUME NEW s \in Shifts, IInv, ShiftsInv, OfferInv, AddShift(s) PROVE OfferInv'
<1>1. /\ UNCHANGED <<request, pc, call, blots>>
      /\ s \notin DOMAIN shift
  BY DEF AddShift, ShiftsInv
<1>2. PICK e \in Employees : shift' = Save(shift, s, [emp |-> e, open |-> FALSE])
  BY DEF AddShift
<1>3. \A x \in DOMAIN shift' : ~shift'[x].open \/ (x \in DOMAIN shift /\ shift'[x] = shift[x])
  BY <1>2 DEF Save
<1>4. QED
  BY <1>1, <1>3 DEF OfferInv, Covered, Offered, Busy

LEMMA DeleteShiftCovered ==
    ASSUME NEW s \in Shifts, IInv, OfferInv, DeleteShift(s) PROVE OfferInv'
<1>1. /\ shift' = Delete(shift, s) /\ UNCHANGED <<request, pc, call>>
      /\ \A x \in Shifts : blots[x] \subseteq blots'[x]
  BY BlameGrows DEF DeleteShift
<1>2. \A x \in DOMAIN shift' : x \in DOMAIN shift /\ shift'[x] = shift[x]
  BY <1>1 DEF Delete
<1>3. QED
  BY <1>1, <1>2, QuietCovered

LEMMA BeginCovered ==
    ASSUME NEW h \in Calls, IInv, OfferInv, EditRead(h) \/ ReadRequest(h) \/ PostRequest(h)
    PROVE  OfferInv'
<1>1. /\ pc[h] = "idle" /\ \E to : pc' = [pc EXCEPT ![h] = to]
      /\ UNCHANGED shift /\ pc \in [Calls -> Steps]
      /\ h \notin DOMAIN call /\ h \notin DOMAIN request
  BY DEF EditRead, ReadRequest, PostRequest, Goto, IInv, TypeOK, CallsInv, InFlight
<1>2. \A s \in Shifts : blots[s] \subseteq blots'[s]
  <2>1. \/ UNCHANGED blots
        \/ \E s \in DOMAIN shift : \E causes : Blame(s, causes)
        \/ \E r \in DOMAIN request : \E causes : Blame(request[r].shift, causes)
    BY DEF EditRead, ReadRequest, PostRequest
  <2>2. QED
    BY <2>1, ShiftFields, BlameGrows DEF IInv
<1>3. \A r \in DOMAIN request : r \in DOMAIN request' /\ request'[r] = request[r]
  <2>1. UNCHANGED request \/ \E row : request' = Save(request, h, row)
    BY DEF EditRead, ReadRequest, PostRequest
  <2>2. QED
    BY <1>1, <2>1 DEF Save
<1>4. \A g \in DOMAIN call : g \in DOMAIN call' /\ call'[g] = call[g]
  <2>1. UNCHANGED call \/ \E row : call' = Save(call, h, row)
    BY DEF EditRead, ReadRequest, PostRequest
  <2>2. QED
    BY <1>1, <2>1 DEF Save
<1>5. \A g \in DOMAIN call : pc'[g] = pc[g]
  BY <1>1
<1>6. QED
  BY <1>1, <1>2, <1>3, <1>4, <1>5, QuietCovered

LEMMA EditSaveCovered ==
    ASSUME NEW h \in Calls, IInv, ShiftsInv, OfferInv, EditSave(h) PROVE OfferInv'
<1>1. /\ h \in DOMAIN call /\ Moves(h) /\ pc[h] = "edit_save"
      /\ h \in DOMAIN copy
      /\ shift' = Save(shift, call[h].shift, copy[h])
      /\ UNCHANGED request
  BY EditSaveMoves DEF EditSave, Goto, IInv, CallsInv
<1> SUFFICES ASSUME NEW s \in DOMAIN shift', shift'[s].open, blots'[s] = {}
             PROVE  Covered(s)'
  BY DEF OfferInv
<1>2. s \in Shifts
  BY <1>1, CallFields, ShiftFields DEF Save, IInv
<1>3. CASE s # call[h].shift
  BY <1>1, <1>2, <1>3, ElsewhereCovered
<1>4. CASE s = call[h].shift
  <2>1. blots[s] = {} /\ Busy(s) = {h} /\ Fresh(h)
    BY <1>1, <1>4, HereCovered
  <2>2. s \in DOMAIN shift /\ shift'[s] = shift[s]
    BY <1>1, <1>4, <2>1 DEF Fresh, Save
  <2>3. Offered(s)
    BY <1>1, <2>1, <2>2 DEF OfferInv, Covered
  <2>4. QED
    BY <1>1, <2>3 DEF Covered, Offered
<1>5. QED
  BY <1>3, <1>4

LEMMA ReadShiftCovered ==
    ASSUME NEW h \in Calls, IInv, OfferInv, ReadShift(h) PROVE OfferInv'
<1>1. /\ h \in DOMAIN call /\ Moves(h) /\ pc[h] = "read_shift"
      /\ UNCHANGED <<shift, request, call, blots>>
  BY ReadShiftMoves DEF ReadShift, Goto
<1>2. \A g \in DOMAIN call : pc[g] \in {"save_shift", "post_offer"} => pc'[g] = pc[g]
  BY <1>1 DEF Moves
<1>3. QED
  BY <1>1, <1>2, QuietCovered

(* A rejection of an offer is blamed, and an approval goes on to the shift. *)
LEMMA SaveRequestCovered ==
    ASSUME NEW h \in Calls, IInv, ShiftsInv, OfferInv, SaveRequest(h) PROVE OfferInv'
<1>1. /\ h \in DOMAIN call /\ Moves(h) /\ call[h].op # "edit"
      /\ pc[h] = "save_request"
      /\ pc'[h] = IF call[h].op \in Approvals THEN "save_shift" ELSE "finish"
      /\ request' = Save(request, call[h].req, mine[h])
      /\ UNCHANGED <<shift, call, blots>>
  BY SaveRequestMoves DEF SaveRequest, Goto
<1> SUFFICES ASSUME NEW s \in DOMAIN shift', shift'[s].open, blots'[s] = {}
             PROVE  Covered(s)'
  BY DEF OfferInv
<1>2. PICK q : q = call[h].req
  OBVIOUS
<1>3. /\ Updating(h) /\ q \in DOMAIN request /\ request[q].shift = call[h].shift
      /\ DOMAIN request' = DOMAIN request /\ request'[q] = mine[h]
      /\ \A r \in DOMAIN request : r # q => request'[r] = request[r]
  BY <1>1, <1>2, Saves
<1>4. s \in Shifts /\ s \in DOMAIN shift /\ shift[s].open /\ blots[s] = {}
  BY <1>1, ShiftFields DEF IInv
<1>5. CASE s # call[h].shift
  BY <1>1, <1>3, <1>4, <1>5, ElsewhereCovered
<1>6. CASE s = call[h].shift
  <2>1. /\ Busy(s) = {h} /\ Decided(h) /\ q \notin overlapped
    BY <1>1, <1>2, <1>3, <1>4, <1>6, HereCovered
  <2>2. CASE call[h].op \in Approvals
    BY <1>1, <1>6, <2>2 DEF Covered, Busy
  <2>3. CASE call[h].op \notin Approvals
    <3>1. PICK r \in DOMAIN request :
             request[r].offer /\ request[r].shift = s /\ request[r].status = "PENDING"
      BY <1>1, <1>4, <2>1 DEF OfferInv, Covered, Offered
    <3>2. CASE r # q
      BY <1>3, <3>1, <3>2 DEF Covered, Offered
    <3>3. CASE r = q
      <4>1. mine[h] = Updated(request[q], call[h]) /\ request[q] \in RequestRow
        BY <1>1, <1>2, <1>3, <2>1 DEF IInv, LastInv, TypeOK, IsTable
      <4>2. CASE call[h].op = "reject"
        <5>1. mine[h].offer = request[q].offer
          BY <4>1, <4>2 DEF Updated, RequestRow, Approvals
        <5>2. QED
          BY <1>4, <1>6, <2>1, <3>1, <3>3, <4>2, <5>1 DEF Decided
      <4>3. CASE call[h].op # "reject"
        <5>1. /\ mine[h].offer = request[q].offer /\ mine[h].shift = request[q].shift
              /\ mine[h].status = request[q].status
          BY <1>3, <2>3, <4>1, <4>3 DEF Updated, RequestRow, Updating, Updates
        <5>2. QED
          BY <1>3, <3>1, <3>3, <5>1 DEF Covered, Offered
      <4>4. QED
        BY <4>2, <4>3
    <3>4. QED
      BY <3>2, <3>3
  <2>4. QED
    BY <2>2, <2>3
<1>7. QED
  BY <1>5, <1>6

(* A DROP that is approved while the shift is open is blamed, a SWAP       *)
(* closes the shift, and an OPEN goes on to post the offer.                *)
LEMMA SaveShiftCovered ==
    ASSUME NEW h \in Calls, IInv, ShiftsInv, OfferInv, SaveShift(h) PROVE OfferInv'
<1> DEFINE k == call[h]
<1>1. /\ h \in DOMAIN call /\ Moves(h) /\ k.op \in Approvals
      /\ h \in DOMAIN copy
      /\ pc'[h] = IF k.op = "OPEN" THEN "post_offer" ELSE "finish"
      /\ shift' = Save(shift, k.shift, Assigned(copy[h], k))
      /\ Blame(k.shift, {c \in {"assignedOpen"} : k.op = "DROP" /\ copy[h].open})
      /\ UNCHANGED <<request, call>>
  BY SaveShiftMoves DEF SaveShift, Goto
<1> SUFFICES ASSUME NEW s \in DOMAIN shift', shift'[s].open, blots'[s] = {}
             PROVE  Covered(s)'
  BY DEF OfferInv
<1>2. k.shift \in Shifts /\ copy[h] \in ShiftRow
  BY <1>1, CallFields DEF IInv, TypeOK, IsTable
<1>3. s \in Shifts
  BY <1>1, <1>2, ShiftFields DEF Save, IInv
<1>4. CASE s # k.shift
  BY <1>1, <1>3, <1>4, ElsewhereCovered
<1>5. CASE s = k.shift
  <2>1. ~(k.op = "DROP" /\ copy[h].open)
    BY <1>1, <1>2, <1>5, BlameGrows
  <2>2. Assigned(copy[h], k).open
    BY <1>1, <1>5 DEF Save
  <2>3. k.op = "OPEN"
    BY <1>1, <1>2, <2>1, <2>2 DEF Assigned, ShiftRow, Approvals
  <2>4. QED
    BY <1>1, <1>5, <2>3 DEF Covered, Busy
<1>6. QED
  BY <1>4, <1>5

LEMMA PostOfferCovered ==
    ASSUME NEW h \in Calls, IInv, ShiftsInv, OfferInv, PostOffer(h) PROVE OfferInv'
<1>1. /\ h \in DOMAIN call /\ Moves(h)
      /\ request' = Save(request, h, Offer(call[h].shift))
      /\ h \notin DOMAIN request
      /\ UNCHANGED <<shift, call, blots>>
  BY PostOfferMoves DEF PostOffer, Goto, IInv, CallsInv
<1>2. /\ h \in DOMAIN request' /\ request'[h] = Offer(call[h].shift)
      /\ \A r \in DOMAIN request : r \in DOMAIN request' /\ request'[r] = request[r]
  BY <1>1 DEF Save
<1> SUFFICES ASSUME NEW s \in DOMAIN shift', shift'[s].open, blots'[s] = {}
             PROVE  Covered(s)'
  BY DEF OfferInv
<1>3. CASE s # call[h].shift
  BY <1>1, <1>2, <1>3, ShiftFields, ElsewhereCovered DEF IInv
<1>4. CASE s = call[h].shift
  BY <1>2, <1>4 DEF Covered, Offered, Offer
<1>5. QED
  BY <1>3, <1>4

(* A call that ends had nothing left to save of an approval, or is blamed. *)
LEMMA EndCovered ==
    ASSUME NEW h \in Calls, IInv, ShiftsInv, OfferInv, NoShift(h) \/ Finish(h) \/ Abort(h)
    PROVE  OfferInv'
<1>1. /\ h \in DOMAIN call /\ Moves(h) /\ UNCHANGED shift
  BY NoShiftMoves, FinishMoves, AbortMoves DEF NoShift, Finish, Abort
<1>2. /\ \A r \in DOMAIN request : request[r].shift # call[h].shift =>
            r \in DOMAIN request' /\ request'[r] = request[r]
      /\ blots'[call[h].shift] = {} =>
           \A r \in DOMAIN request : r \in DOMAIN request' /\ request'[r] = request[r]
  <2>1. CASE Finish(h)
    <3>1. PICK q : q = call[h].req
      OBVIOUS
    <3>2. /\ pc[h] = "finish" /\ call[h].op # "edit"
          /\ request' = Save(request, q, mine[h])
      BY <2>1, <3>1, FinishMoves DEF Finish, Goto
    <3>3. /\ Updating(h) /\ q \in DOMAIN request /\ request[q].shift = call[h].shift
          /\ DOMAIN request' = DOMAIN request /\ request'[q] = mine[h]
          /\ \A r \in DOMAIN request : r # q => request'[r] = request[r]
      BY <1>1, <3>1, <3>2, Saves
    <3>4. blots'[call[h].shift] = {} => q \notin overlapped
      BY <1>1, <3>1, <3>3, HereCovered
    <3>5. blots'[call[h].shift] = {} => mine[h] = request[q]
      BY <1>1, <3>1, <3>2, <3>3, <3>4 DEF IInv, LastInv
    <3>6. QED
      BY <3>3, <3>5
  <2>2. CASE NoShift(h) \/ Abort(h)
    BY <2>2 DEF NoShift, Abort
  <2>3. QED
    BY <2>1, <2>2
<1> SUFFICES ASSUME NEW s \in DOMAIN shift', shift'[s].open, blots'[s] = {}
             PROVE  Covered(s)'
  BY DEF OfferInv
<1>3. s \in Shifts /\ s \in DOMAIN shift /\ shift[s].open
  BY <1>1, ShiftFields DEF IInv
<1>4. CASE s # call[h].shift
  BY <1>1, <1>2, <1>3, <1>4, ElsewhereCovered
<1>5. CASE s = call[h].shift
  <2>1. blots[s] = {} /\ Busy(s) = {h} /\ (pc[h] = "save_shift" => Fresh(h))
    BY <1>1, <1>5, HereCovered
  <2>2. pc[h] \notin {"save_shift", "post_offer"}
    <3>1. CASE NoShift(h)
      BY <1>3, <1>5, <2>1, <3>1 DEF NoShift, Goto, Fresh
    <3>2. CASE Finish(h)
      BY <3>2 DEF Finish, Goto
    <3>3. CASE Abort(h)
      <4>1. Blame(s, {c \in {"abandoned"} : pc[h] \in {"save_shift", "post_offer"}})
        BY <1>5, <3>3 DEF Abort
      <4>2. {c \in {"abandoned"} : pc[h] \in {"save_shift", "post_offer"}} \subseteq blots'[s]
        BY <1>3, <4>1, BlameGrows
      <4>3. QED
        BY <4>2
    <3>4. QED
      BY <3>1, <3>2, <3>3
  <2>3. Offered(s)
    BY <1>3, <2>1, <2>2 DEF OfferInv, Covered
  <2>4. QED
    BY <1>2, <1>5, <2>3 DEF Covered, Offered
<1>6. QED
  BY <1>4, <1>5

LEMMA NextCovered == ASSUME IInv, ShiftsInv, OfferInv, [Next]_vars PROVE OfferInv'
<1>1. CASE \E h \in Calls : Edit(h)
  BY <1>1, BeginCovered, EditSaveCovered DEF Edit
<1>2. CASE \E h \in Calls : PostRequest(h) \/ Abort(h)
  BY <1>2, BeginCovered, EndCovered
<1>3. CASE \E h \in Calls : Update(h)
  BY <1>3, BeginCovered, ReadShiftCovered, SaveRequestCovered, SaveShiftCovered,
     PostOfferCovered, EndCovered DEF Update
<1>4. CASE \E s \in Shifts : AddShift(s) \/ DeleteShift(s)
  BY <1>4, AddShiftCovered, DeleteShiftCovered
<1>5. CASE UNCHANGED vars
  BY <1>5 DEF vars, OfferInv, Covered, Offered, Busy
<1>6. QED
  BY <1>1, <1>2, <1>3, <1>4, <1>5 DEF Next

(* In every reachable state a call on a shift that is not raced is the     *)
(* only one there and has done what it approved, and an open shift is      *)
(* offered but while an approval is under way.                             *)
THEOREM ShiftsOffersInductive == Spec => [](IInv /\ ShiftsInv /\ OfferInv)
<1>1. Init => IInv /\ ShiftsInv /\ OfferInv
  <2>1. Init => DOMAIN shift = {} /\ DOMAIN request = {} /\ DOMAIN call = {}
    BY DEF Init, NoRows, IsTable
  <2>2. QED
    BY <2>1, InitInv DEF Init, ShiftsInv, OfferInv
<1>2. IInv /\ ShiftsInv /\ OfferInv /\ [Next]_vars => (IInv /\ ShiftsInv /\ OfferInv)'
  BY NextInv, NextAlone, NextCovered
<1>3. QED
  BY <1>1, <1>2, PTL DEF Spec

(* Whatever interleaves and fails, an open shift has a pending offer to    *)
(* apply to, unless a call on it is in flight, calls on it overlapped, one *)
(* of them was abandoned between its saves, the shift was given away while *)
(* open, or its offer was rejected.                                        *)
THEOREM ShiftsOpenIsOffered == Spec => []OpenIsOffered
<1>1. OfferInv => OpenIsOffered
  BY DEF OfferInv, Covered, Offered, OpenIsOffered
<1>2. QED
  BY <1>1, ShiftsOffersInductive, PTL

(* When the approval of a request is answered and no other call was on the *)
(* shift meanwhile, the shift has the employee of the decision and the     *)
(* request is stored as approved, though each was saved at its own await   *)
(* and the request twice.                                                  *)
Answered(h) ==
    pc[h] = "finish" /\ pc'[h] = "done" /\ call[h].op \in Approvals =>
       LET s == call[h].shift IN
       \/ /\ s \in DOMAIN shift
          /\ shift[s].emp = call[h].emp
          /\ request'[call[h].req].status = "APPROVED"
       \/ "raced" \in blots[s]

THEOREM ShiftsAnsweredIsDone == Spec => AnsweredIsDone
<1>1. ASSUME IInv /\ ShiftsInv /\ OfferInv, [Next]_vars
      PROVE  [\A h \in Calls : Answered(h)]_vars
  <2> SUFFICES ASSUME NEW h \in Calls, Next, pc[h] = "finish", pc'[h] = "done",
                      call[h].op \in Approvals
               PROVE  \/ /\ call[h].shift \in DOMAIN shift
                         /\ shift[call[h].shift].emp = call[h].emp
                         /\ request'[call[h].req].status = "APPROVED"
                      \/ "raced" \in blots[call[h].shift]
    BY <1>1 DEF Answered
  <2>1. pc \in [Calls -> Steps]
    BY <1>1 DEF IInv, TypeOK
  <2>2. Finish(h)
    <3>1. \/ \E s \in Shifts : AddShift(s) \/ DeleteShift(s)
          \/ \E g \in Calls : \/ EditRead(g) \/ EditSave(g) \/ PostRequest(g)
                              \/ ReadRequest(g) \/ ReadShift(g) \/ SaveRequest(g)
                              \/ SaveShift(g) \/ NoShift(g) \/ PostOffer(g) \/ Finish(g)
                              \/ Abort(g)
      BY DEF Next, Edit, Update
    <3>2. CASE \E s \in Shifts : AddShift(s) \/ DeleteShift(s)
      BY <3>2 DEF AddShift, DeleteShift
    <3>3. ASSUME NEW g \in Calls,
                 \/ EditRead(g) \/ EditSave(g) \/ PostRequest(g) \/ ReadRequest(g)
                 \/ ReadShift(g) \/ SaveRequest(g) \/ SaveShift(g) \/ NoShift(g)
                 \/ PostOffer(g) \/ Abort(g)
          PROVE  FALSE
      <4>1. /\ \E to : pc' = [pc EXCEPT ![g] = to]
            /\ pc[g] # "finish" \/ pc' = [pc EXCEPT ![g] = "failed"]
        BY <3>3 DEF EditRead, EditSave, PostRequest, ReadRequest, ReadShift, SaveRequest,
           SaveShift, NoShift, PostOffer, Abort, Goto
      <4>2. QED
        BY <2>1, <4>1
    <3>4. PICK g \in Calls : Finish(g)
      BY <3>1, <3>2, <3>3
    <3>5. pc' = [pc EXCEPT ![g] = "done"]
      BY <3>4 DEF Finish, Goto
    <3>6. g = h
      BY <2>1, <3>5
    <3>7. QED
      BY <3>4, <3>6
  <2>3. /\ h \in DOMAIN call /\ call[h].op # "edit"
        /\ request' = Save(request, call[h].req, mine[h])
    BY <1>1, <2>2, FinishMoves DEF Finish
  <2>4. Alone(h) /\ Decided(h)
    BY <1>1, <2>3 DEF ShiftsInv
  <2>5. request'[call[h].req].status = "APPROVED"
    BY <2>3, <2>4 DEF Save, Decided
  <2>6. QED
    BY <2>4, <2>5 DEF Alone
<1>2. [\A h \in Calls : Answered(h)]_vars <=>
        [\A h \in Calls :
           pc[h] = "finish" /\ pc'[h] = "done" /\ call[h].op \in Approvals =>
              LET s == call[h].shift IN
              \/ /\ s \in DOMAIN shift
                 /\ shift[s].emp = call[h].emp
                 /\ request'[call[h].req].status = "APPROVED"
              \/ "raced" \in blots[s]]_vars
  BY DEF Answered
<1>3. QED
  BY <1>1, <1>2, ShiftsOffersInductive, PTL DEF Spec, AnsweredIsDone
=============================================================================
