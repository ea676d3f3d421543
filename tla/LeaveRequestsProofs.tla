------------------------- MODULE LeaveRequestsProofs -------------------------
(***************************************************************************)
(* Proofs about LeaveRequests, for every number of employees, categories,  *)
(* balance rows and calls.                                                 *)
(***************************************************************************)
EXTENDS LeaveRequests, TLAPS

-----------------------------------------------------------------------------
(* Charging a copy changes nothing but the numbers in used. *)
LEMMA AddType ==
    ASSUME NEW used \in [Calls -> [Units -> Int]],
           NEW r \in Calls, NEW u \in Units, NEW n \in Int
    PROVE  Add(used, r, u, n) \in [Calls -> [Units -> Int]]
<1> DEFINE g == [used[r] EXCEPT ![u] = used[r][u] + n]
<1>1. g \in [Units -> Int]
  OBVIOUS
<1> HIDE DEF g
<1>2. [used EXCEPT ![r] = g] \in [Calls -> [Units -> Int]]
  BY <1>1
<1>3. QED
  BY <1>2 DEF Add, g

LEMMA ChargedRow ==
    ASSUME NEW h, row[h].data \in BalanceRow, call[h].req \in Calls,
           row[h].unit \in Units, NEW n \in Int
    PROVE  /\ Charged(h, n) \in BalanceRow
           /\ Charged(h, n).emp = row[h].data.emp
           /\ Charged(h, n).cat = row[h].data.cat
           /\ Charged(h, n).total = row[h].data.total
<1> DEFINE f == Add(row[h].data.used, call[h].req, row[h].unit, n)
<1>1. f \in [Calls -> [Units -> Int]]
  BY AddType DEF BalanceRow
<1> HIDE DEF f
<1>2. /\ [row[h].data EXCEPT !.used = f] \in BalanceRow
      /\ [row[h].data EXCEPT !.used = f].emp = row[h].data.emp
      /\ [row[h].data EXCEPT !.used = f].cat = row[h].data.cat
      /\ [row[h].data EXCEPT !.used = f].total = row[h].data.total
  BY <1>1 DEF BalanceRow
<1>3. QED
  BY <1>2 DEF f, Charged

(* The fields of a stored row, call or copy have their types. *)
LEMMA CallFields ==
    ASSUME TypeOK, NEW h \in DOMAIN call
    PROVE  /\ h \in Calls
           /\ call[h] \in Call
           /\ call[h].op \in Ops
           /\ call[h].emp \in Employees
           /\ call[h].cat \in Categories
           /\ call[h].req \in Calls
           /\ call[h].status \in Statuses \cup {"manual"}
           /\ Account(call[h]) \in Accounts
  BY DEF TypeOK, IsTable, Call, Account, Accounts

LEMMA CopyFields ==
    ASSUME TypeOK, NEW h \in DOMAIN row
    PROVE  /\ h \in Calls
           /\ row[h] \in Copy
           /\ row[h].id \in Balances
           /\ row[h].data \in BalanceRow
           /\ row[h].unit \in Units
           /\ row[h].data.total \in SUBSET Calls
  BY DEF TypeOK, IsTable, Copy, BalanceRow

LEMMA RequestFields ==
    ASSUME TypeOK, NEW r \in DOMAIN request
    PROVE  /\ r \in Calls
           /\ request[r].emp \in Employees
           /\ request[r].cat \in Categories
           /\ request[r].status \in Statuses
           /\ Account(request[r]) \in Accounts
  BY DEF TypeOK, IsTable, RequestRow, Account, Accounts

LEMMA BalanceFields ==
    ASSUME TypeOK, NEW b \in DOMAIN balance
    PROVE  /\ b \in Balances
           /\ balance[b] \in BalanceRow
           /\ balance[b].emp \in Employees
           /\ balance[b].cat \in Categories
           /\ balance[b].total \in SUBSET Calls
  BY DEF TypeOK, IsTable, BalanceRow

(* The rows and calls the handlers build are of their types. *)
LEMMA AsksType ==
    ASSUME NEW op \in Ops, NEW e \in Employees, NEW c \in Categories,
           NEW r \in Calls, NEW s \in Statuses \cup {"manual"}, NEW known \in BOOLEAN
    PROVE  Asks(op, e, c, r, s, known) \in Call
  BY DEF Asks, Call

LEMMA FreshType ==
    ASSUME NEW e \in Employees, NEW c \in Categories
    PROVE  Fresh(e, c) \in BalanceRow
<1>1. [r \in Calls |-> [u \in Units |-> 0]] \in [Calls -> [Units -> Int]]
  OBVIOUS
<1>2. QED
  BY <1>1 DEF Fresh, BalanceRow

(* Blame only ever adds named causes. *)
LEMMA BlameType ==
    ASSUME blots \in [Accounts -> SUBSET Cause], NEW as, NEW causes \in SUBSET Cause,
           Blame(as, causes)
    PROVE  blots' \in [Accounts -> SUBSET Cause]
  BY DEF Blame

(* What a handler reads from, and writes back to, the balance table. *)
LEMMA JoinedRows ==
    ASSUME NEW e, NEW c
    PROVE  Joined(e, c) \subseteq {b \in DOMAIN balance :
                                     balance[b].emp = e /\ balance[b].cat = c}
  BY DEF Joined

LEMMA ReadBalanceType ==
    ASSUME TypeOK, NEW h \in DOMAIN call,
           ReadBalance(h, Joined(call[h].emp, call[h].cat))
    PROVE  IsTable(row', Calls, Copy)
<1>1. PICK b \in Joined(call[h].emp, call[h].cat) :
        row' = Save(row, h, [id |-> b, data |-> balance[b],
                             unit |-> unit[call[h].cat]])
  BY DEF ReadBalance
<1>2. b \in DOMAIN balance
  BY JoinedRows
<1>3. [id |-> b, data |-> balance[b], unit |-> unit[call[h].cat]] \in Copy
  BY <1>2, BalanceFields, CallFields DEF Copy, TypeOK
<1>4. QED
  BY <1>1, <1>3, CallFields DEF TypeOK, Save, IsTable

LEMMA SaveBalanceType ==
    ASSUME TypeOK, NEW h \in DOMAIN row, NEW data \in BalanceRow, SaveBalance(h, data)
    PROVE  /\ IsTable(balance', Balances, BalanceRow)
           /\ blots' \in [Accounts -> SUBSET Cause]
<1>1. IsTable(Save(balance, row[h].id, data), Balances, BalanceRow)
  BY CopyFields DEF TypeOK, Save, IsTable
<1>2. (IF balance[row[h].id] # row[h].data THEN {"lostUpdate"} ELSE {}) \in SUBSET Cause
  BY DEF Cause
<1>3. QED
  BY <1>1, <1>2, BlameType DEF SaveBalance, TypeOK

LEMMA SaveHistoryType ==
    ASSUME TypeOK, NEW h \in DOMAIN call, NEW id \in Calls,
           NEW action \in Statuses \cup {"manual"}, SaveHistory(h, id, action)
    PROVE  IsTable(history', Calls, HistoryRow)
<1>1. [emp |-> call[h].emp, cat |-> call[h].cat, action |-> action] \in HistoryRow
  BY CallFields DEF HistoryRow
<1>2. QED
  BY <1>1 DEF SaveHistory, TypeOK, Save, IsTable

(* Every step keeps the types: one case per action, and under it one step  *)
(* per variable the action changes.                                        *)
LEMMA TypeStep ==
    ASSUME IInv, [Next]_vars
    PROVE  TypeOK'
<1> USE DEF IInv
<1>1. ASSUME NEW h \in Calls, PostReadEmployee(h) PROVE TypeOK'
  <2>1. pc' \in [Calls -> Steps]
    BY <1>1 DEF PostReadEmployee, Goto, TypeOK, Steps, InFlight, PostSteps,
       PutSteps, AdjSteps
  <2>2. IsTable(call', Calls, Call)
    <3>1. PICK e \in Employees, c \in Categories, s \in {"pending", "approved"} :
            call' = Save(call, h, Asks("post", e, c, h, s, e \in active))
      BY <1>1 DEF PostReadEmployee
    <3>2. (e \in active) \in BOOLEAN
      OBVIOUS
    <3>3. Asks("post", e, c, h, s, e \in active) \in Call
      BY <3>2, AsksType, Zenon DEF Ops, Statuses
    <3>4. QED
      BY <3>1, <3>3 DEF TypeOK, Save, IsTable
  <2>3. QED
    BY <1>1, <2>1, <2>2 DEF PostReadEmployee, TypeOK, tables, NoBlame
<1>2. ASSUME NEW h \in Calls, PostReadBalance(h) PROVE TypeOK'
  <2>1. h \in DOMAIN call
    BY <1>2 DEF PostReadBalance, Goto, CallsInv
  <2>2. pc' \in [Calls -> Steps]
    BY <1>2 DEF PostReadBalance, Goto, TypeOK, Steps, InFlight, PostSteps,
       PutSteps, AdjSteps
  <2>3. IsTable(row', Calls, Copy)
    BY <1>2, <2>1, ReadBalanceType DEF PostReadBalance, TypeOK
  <2>4. QED
    BY <1>2, <2>1, <2>2, <2>3 DEF PostReadBalance, TypeOK, tables, NoBlame
<1>3. ASSUME NEW h \in Calls, PostSaveBalance(h) PROVE TypeOK'
  <2>1. h \in DOMAIN call
    BY <1>3 DEF PostSaveBalance, Goto, CallsInv
  <2>2. pc' \in [Calls -> Steps]
    BY <1>3 DEF PostSaveBalance, Goto, TypeOK, Steps, InFlight, PostSteps,
       PutSteps, AdjSteps
  <2>3. h \in DOMAIN row
    BY <1>3 DEF PostSaveBalance, Goto, RowsInv
  <2>4. Charged(h, 1) \in BalanceRow
    BY <2>1, <2>3, ChargedRow, CallFields, CopyFields
  <2>5. IsTable(balance', Balances, BalanceRow) /\ blots' \in [Accounts -> SUBSET Cause]
    BY <1>3, <2>3, <2>4, SaveBalanceType DEF PostSaveBalance
  <2>6. QED
    BY <1>3, <2>1, <2>2, <2>3, <2>4, <2>5 DEF PostSaveBalance, TypeOK, tables, NoBlame
<1>4. ASSUME NEW h \in Calls, PostSaveHistory(h) PROVE TypeOK'
  <2>1. h \in DOMAIN call
    BY <1>4 DEF PostSaveHistory, Goto, CallsInv
  <2>2. pc' \in [Calls -> Steps]
    BY <1>4 DEF PostSaveHistory, Goto, TypeOK, Steps, InFlight, PostSteps,
       PutSteps, AdjSteps
  <2>3. call[h].status \in Statuses \cup {"manual"}
    BY <2>1, CallFields
  <2>4. IsTable(history', Calls, HistoryRow)
    BY <1>4, <2>1, <2>3, SaveHistoryType DEF PostSaveHistory
  <2>5. QED
    BY <1>4, <2>1, <2>2, <2>3, <2>4 DEF PostSaveHistory, TypeOK, tables, NoBlame
<1>5. ASSUME NEW h \in Calls, PostSaveRequest(h) PROVE TypeOK'
  <2>1. h \in DOMAIN call
    BY <1>5 DEF PostSaveRequest, Goto, CallsInv
  <2>2. pc' \in [Calls -> Steps]
    BY <1>5 DEF PostSaveRequest, Goto, TypeOK, Steps, InFlight, PostSteps,
       PutSteps, AdjSteps
  <2>3. call[h].status # "manual"
    BY <1>5, <2>1 DEF PostSaveRequest, Goto, CallsInv, PostSteps
  <2>4. [emp |-> call[h].emp, cat |-> call[h].cat,
         status |-> call[h].status] \in RequestRow
    BY <2>1, <2>3, CallFields DEF RequestRow
  <2>5. IsTable(request', Calls, RequestRow)
    BY <1>5, <2>4 DEF PostSaveRequest, TypeOK, Save, IsTable
  <2>6. QED
    BY <1>5, <2>1, <2>2, <2>3, <2>4, <2>5 DEF PostSaveRequest, TypeOK, tables, NoBlame
<1>6. ASSUME NEW h \in Calls, PostUnknownEmployee(h) PROVE TypeOK'
  <2>1. h \in DOMAIN call
    BY <1>6 DEF PostUnknownEmployee, Goto, CallsInv
  <2>2. pc' \in [Calls -> Steps]
    BY <1>6 DEF PostUnknownEmployee, Goto, TypeOK, Steps, InFlight, PostSteps,
       PutSteps, AdjSteps
  <2>3. blots' \in [Accounts -> SUBSET Cause]
    BY <1>6, BlameType DEF PostUnknownEmployee, TypeOK, Cause
  <2>4. QED
    BY <1>6, <2>1, <2>2, <2>3 DEF PostUnknownEmployee, TypeOK, tables, NoBlame
<1>7. ASSUME NEW h \in Calls, PostNotify(h) PROVE TypeOK'
  <2>1. h \in DOMAIN call
    BY <1>7 DEF PostNotify, Goto, CallsInv
  <2>2. pc' \in [Calls -> Steps]
    BY <1>7 DEF PostNotify, Goto, TypeOK, Steps, InFlight, PostSteps, PutSteps, AdjSteps
  <2>3. QED
    BY <1>7, <2>1, <2>2 DEF PostNotify, TypeOK, tables, NoBlame
<1>8. ASSUME NEW h \in Calls, PutReadRequest(h) PROVE TypeOK'
  <2>1. pc' \in [Calls -> Steps]
    BY <1>8 DEF PutReadRequest, Goto, TypeOK, Steps, InFlight, PostSteps,
       PutSteps, AdjSteps
  <2>2. IsTable(call', Calls, Call)
    <3>1. PICK r \in DOMAIN request, s \in {"approved"} \cup Refunds :
            call' = Save(call, h, Asks("put", request[r].emp, request[r].cat,
                                       r, s, TRUE))
      BY <1>8 DEF PutReadRequest
    <3>2. Asks("put", request[r].emp, request[r].cat, r, s, TRUE) \in Call
      BY RequestFields, AsksType DEF Ops, Statuses, Refunds
    <3>3. QED
      BY <3>1, <3>2 DEF TypeOK, Save, IsTable
  <2>3. blots' \in [Accounts -> SUBSET Cause]
    BY <1>8, BlameType DEF PutReadRequest, TypeOK, Cause
  <2>4. QED
    BY <1>8, <2>1, <2>2, <2>3 DEF PutReadRequest, TypeOK, tables, NoBlame
<1>9. ASSUME NEW h \in Calls, PutReadBalance(h) PROVE TypeOK'
  <2>1. h \in DOMAIN call
    BY <1>9 DEF PutReadBalance, Goto, CallsInv
  <2>2. pc' \in [Calls -> Steps]
    BY <1>9 DEF PutReadBalance, Goto, TypeOK, Steps, InFlight, PostSteps,
       PutSteps, AdjSteps
  <2>3. IsTable(row', Calls, Copy)
    BY <1>9, <2>1, ReadBalanceType DEF PutReadBalance, TypeOK
  <2>4. QED
    BY <1>9, <2>1, <2>2, <2>3 DEF PutReadBalance, TypeOK, tables, NoBlame
<1>10. ASSUME NEW h \in Calls, PutSaveHistory(h) PROVE TypeOK'
  <2>1. h \in DOMAIN call
    BY <1>10 DEF PutSaveHistory, Goto, CallsInv
  <2>2. pc' \in [Calls -> Steps]
    BY <1>10 DEF PutSaveHistory, Goto, TypeOK, Steps, InFlight, PostSteps,
       PutSteps, AdjSteps
  <2>3. call[h].status \in Statuses \cup {"manual"} /\ call[h].req \in Calls
    BY <2>1, CallFields
  <2>4. IsTable(history', Calls, HistoryRow)
    BY <1>10, <2>1, <2>3, SaveHistoryType DEF PutSaveHistory
  <2>5. QED
    BY <1>10, <2>1, <2>2, <2>3, <2>4 DEF PutSaveHistory, TypeOK, tables, NoBlame
<1>11. ASSUME NEW h \in Calls, PutSaveBalance(h) PROVE TypeOK'
  <2>1. h \in DOMAIN call
    BY <1>11 DEF PutSaveBalance, Goto, CallsInv
  <2>2. pc' \in [Calls -> Steps]
    BY <1>11 DEF PutSaveBalance, Goto, TypeOK, Steps, InFlight, PostSteps,
       PutSteps, AdjSteps
  <2>3. h \in DOMAIN row
    BY <1>11 DEF PutSaveBalance
  <2>4. Charged(h, -1) \in BalanceRow /\ row[h].data \in BalanceRow
    BY <2>1, <2>3, ChargedRow, CallFields, CopyFields
  <2>5. (IF call[h].status \in Refunds THEN Charged(h, -1) ELSE row[h].data)
         \in BalanceRow
    BY <2>4
  <2>6. IsTable(balance', Balances, BalanceRow) /\ blots' \in [Accounts -> SUBSET Cause]
    BY <1>11, <2>3, <2>5, SaveBalanceType DEF PutSaveBalance
  <2>7. QED
    BY <1>11, <2>1, <2>2, <2>3, <2>4, <2>5, <2>6 DEF PutSaveBalance, TypeOK,
       tables, NoBlame
<1>12. ASSUME NEW h \in Calls, PutNoBalance(h) PROVE TypeOK'
  <2>1. h \in DOMAIN call
    BY <1>12 DEF PutNoBalance, Goto, CallsInv
  <2>2. pc' \in [Calls -> Steps]
    BY <1>12 DEF PutNoBalance, Goto, TypeOK, Steps, InFlight, PostSteps,
       PutSteps, AdjSteps
  <2>3. blots' \in [Accounts -> SUBSET Cause]
    BY <1>12, BlameType DEF PutNoBalance, TypeOK, Cause
  <2>4. QED
    BY <1>12, <2>1, <2>2, <2>3 DEF PutNoBalance, TypeOK, tables, NoBlame
<1>13. ASSUME NEW h \in Calls, PutSaveRequest(h) PROVE TypeOK'
  <2>1. h \in DOMAIN call
    BY <1>13 DEF PutSaveRequest, Goto, CallsInv
  <2>2. pc' \in [Calls -> Steps]
    BY <1>13 DEF PutSaveRequest, Goto, TypeOK, Steps, InFlight, PostSteps,
       PutSteps, AdjSteps
  <2>3. call[h].status # "manual"
    BY <1>13, <2>1 DEF PutSaveRequest, Goto, CallsInv, PutSteps
  <2>4. [emp |-> call[h].emp, cat |-> call[h].cat,
         status |-> call[h].status] \in RequestRow /\ call[h].req \in Calls
    BY <2>1, <2>3, CallFields DEF RequestRow
  <2>5. IsTable(request', Calls, RequestRow)
    BY <1>13, <2>4 DEF PutSaveRequest, TypeOK, Save, IsTable
  <2>6. QED
    BY <1>13, <2>1, <2>2, <2>3, <2>4, <2>5 DEF PutSaveRequest, TypeOK, tables, NoBlame
<1>14. ASSUME NEW h \in Calls, PutNotify(h) PROVE TypeOK'
  <2>1. h \in DOMAIN call
    BY <1>14 DEF PutNotify, Goto, CallsInv
  <2>2. pc' \in [Calls -> Steps]
    BY <1>14 DEF PutNotify, Goto, TypeOK, Steps, InFlight, PostSteps, PutSteps, AdjSteps
  <2>3. QED
    BY <1>14, <2>1, <2>2 DEF PutNotify, TypeOK, tables, NoBlame
<1>15. ASSUME NEW h \in Calls, AdjReadBalance(h) PROVE TypeOK'
  <2>1. pc' \in [Calls -> Steps]
    BY <1>15 DEF AdjReadBalance, Goto, TypeOK, Steps, InFlight, PostSteps,
       PutSteps, AdjSteps
  <2>2. IsTable(call', Calls, Call) /\ IsTable(row', Calls, Copy)
    <3>1. PICK b \in DOMAIN balance :
            /\ call' = Save(call, h, Asks("adjust", balance[b].emp, balance[b].cat,
                                          h, "manual", TRUE))
            /\ row' = Save(row, h, [id |-> b, data |-> balance[b],
                                    unit |-> unit[balance[b].cat]])
      BY <1>15 DEF AdjReadBalance
    <3>2. Asks("adjust", balance[b].emp, balance[b].cat, h, "manual", TRUE) \in Call
      BY BalanceFields, AsksType DEF Ops
    <3>3. [id |-> b, data |-> balance[b], unit |-> unit[balance[b].cat]] \in Copy
      BY BalanceFields DEF Copy, TypeOK
    <3>4. QED
      BY <3>1, <3>2, <3>3 DEF TypeOK, Save, IsTable
  <2>3. QED
    BY <1>15, <2>1, <2>2 DEF AdjReadBalance, TypeOK, tables, NoBlame
<1>16. ASSUME NEW h \in Calls, AdjSaveHistory(h) PROVE TypeOK'
  <2>1. h \in DOMAIN call
    BY <1>16 DEF AdjSaveHistory, Goto, CallsInv
  <2>2. pc' \in [Calls -> Steps]
    BY <1>16 DEF AdjSaveHistory, Goto, TypeOK, Steps, InFlight, PostSteps,
       PutSteps, AdjSteps
  <2>3. IsTable(history', Calls, HistoryRow)
    BY <1>16, <2>1, SaveHistoryType DEF AdjSaveHistory
  <2>4. QED
    BY <1>16, <2>1, <2>2, <2>3 DEF AdjSaveHistory, TypeOK, tables, NoBlame
<1>17. ASSUME NEW h \in Calls, AdjSaveBalance(h) PROVE TypeOK'
  <2>1. h \in DOMAIN call
    BY <1>17 DEF AdjSaveBalance, Goto, CallsInv
  <2>2. pc' \in [Calls -> Steps]
    BY <1>17 DEF AdjSaveBalance, Goto, TypeOK, Steps, InFlight, PostSteps,
       PutSteps, AdjSteps
  <2>3. h \in DOMAIN row
    BY <1>17 DEF AdjSaveBalance, Goto, RowsInv
  <2>4. [row[h].data EXCEPT !.total = row[h].data.total \cup {h}] \in BalanceRow
    BY <2>3, CopyFields DEF BalanceRow
  <2>5. IsTable(balance', Balances, BalanceRow) /\ blots' \in [Accounts -> SUBSET Cause]
    BY <1>17, <2>3, <2>4, SaveBalanceType DEF AdjSaveBalance
  <2>6. QED
    BY <1>17, <2>1, <2>2, <2>3, <2>4, <2>5 DEF AdjSaveBalance, TypeOK, tables, NoBlame
<1>18. ASSUME NEW h \in Calls, Abort(h) PROVE TypeOK'
  <2>1. pc' \in [Calls -> Steps]
    BY <1>18 DEF Abort, TypeOK, Steps
  <2>2. blots' \in [Accounts -> SUBSET Cause]
    BY <1>18, BlameType DEF Abort, TypeOK, Cause
  <2>3. QED
    BY <1>18, <2>1, <2>2 DEF Abort, TypeOK, tables
<1>19. ASSUME NEW r \in Calls, DeleteRequest(r) PROVE TypeOK'
  <2>1. IsTable(request', Calls, RequestRow)
    BY <1>19 DEF DeleteRequest, TypeOK, Delete, IsTable
  <2>2. blots' \in [Accounts -> SUBSET Cause]
    BY <1>19, BlameType DEF DeleteRequest, TypeOK, Cause
  <2>3. QED
    BY <1>19, <2>1, <2>2 DEF DeleteRequest, TypeOK
<1>20. ASSUME NEW e \in Employees, ChangeEmployeeStatus(e) PROVE TypeOK'
  BY <1>20 DEF ChangeEmployeeStatus, TypeOK, tables, NoBlame
<1>21. ASSUME NEW c \in Categories, DeleteCategory(c) PROVE TypeOK'
  BY <1>21 DEF DeleteCategory, TypeOK, tables, NoBlame
<1>22. ASSUME NEW e \in Employees, NEW c \in Categories, OpenBalance(e, c)
      PROVE TypeOK'
  <2>1. IsTable(balance', Balances, BalanceRow)
    BY <1>22, FreshType DEF OpenBalance, TypeOK, Save, IsTable
  <2>2. QED
    BY <1>22, <2>1 DEF OpenBalance, TypeOK, NoBlame
<1>23. ASSUME NEW cs \in SUBSET Categories, NEW timeUnit \in [cs -> Units],
             SaveCategories(timeUnit)
      PROVE TypeOK'
  <2>1. blots' \in [Accounts -> SUBSET Cause]
    BY <1>23, BlameType DEF SaveCategories, TypeOK, Cause
  <2>2. QED
    BY <1>23, <2>1 DEF SaveCategories, TypeOK, tables
<1>24. CASE UNCHANGED vars
  BY <1>24 DEF TypeOK, vars, tables
<1>25. QED
  BY <1>1, <1>2, <1>3, <1>4, <1>5, <1>6, <1>7, <1>8, <1>9, <1>10, <1>11,
     <1>12, <1>13, <1>14, <1>15, <1>16, <1>17, <1>18, <1>19, <1>20, <1>21,
     <1>22, <1>23, <1>24 DEF Next, Post, Put, Adjust, Categorise

(* A call moves through the handler it asked for. *)
LEMMA CallsStep ==
    ASSUME IInv, [Next]_vars
    PROVE  CallsInv'
<1> USE DEF IInv, TypeOK
<1>1. ASSUME NEW h \in Calls, PostReadEmployee(h) PROVE CallsInv'
  BY <1>1 DEF PostReadEmployee, CallsInv, Goto, PostSteps, PutSteps, AdjSteps,
     Save, Asks
<1>2. ASSUME NEW h \in Calls, PostReadBalance(h) PROVE CallsInv'
  <2>1. /\ pc[h] = "post_read" /\ pc'[h] \in {"post_charge", "failed"} /\ call' = call
        /\ \A x \in Calls : x # h => pc'[x] = pc[x]
    BY <1>2 DEF PostReadBalance, Goto, TypeOK
  <2>2. QED
    BY <2>1, CallFields DEF CallsInv, PostSteps, PutSteps, AdjSteps
<1>3. ASSUME NEW h \in Calls, PostSaveBalance(h) PROVE CallsInv'
  BY <1>3 DEF PostSaveBalance, CallsInv, Goto, PostSteps, PutSteps, AdjSteps
<1>4. ASSUME NEW h \in Calls, PostSaveHistory(h) PROVE CallsInv'
  BY <1>4 DEF PostSaveHistory, CallsInv, Goto, PostSteps, PutSteps, AdjSteps
<1>5. ASSUME NEW h \in Calls, PostSaveRequest(h) PROVE CallsInv'
  BY <1>5 DEF PostSaveRequest, CallsInv, Goto, PostSteps, PutSteps, AdjSteps
<1>6. ASSUME NEW h \in Calls, PostUnknownEmployee(h) PROVE CallsInv'
  BY <1>6 DEF PostUnknownEmployee, CallsInv, Goto, PostSteps, PutSteps, AdjSteps
<1>7. ASSUME NEW h \in Calls, PostNotify(h) PROVE CallsInv'
  BY <1>7 DEF PostNotify, CallsInv, Goto, PostSteps, PutSteps, AdjSteps
<1>8. ASSUME NEW h \in Calls, PutReadRequest(h) PROVE CallsInv'
  <2>1. PICK r \in DOMAIN request, s \in {"approved"} \cup Refunds :
          call' = Save(call, h, Asks("put", request[r].emp, request[r].cat, r, s, TRUE))
    BY <1>8 DEF PutReadRequest
  <2>2. /\ DOMAIN call' = DOMAIN call \cup {h}
        /\ call'[h].op = "put" /\ call'[h].status # "manual"
        /\ \A x \in DOMAIN call : x # h => call'[x] = call[x]
    BY <2>1 DEF Save, Asks, Refunds
  <2>3. pc[h] = "idle" /\ pc' = [pc EXCEPT ![h] = "put_read"]
    BY <1>8 DEF PutReadRequest, Goto
  <2>4. QED
    BY <2>2, <2>3 DEF CallsInv, PostSteps, PutSteps, AdjSteps
<1>9. ASSUME NEW h \in Calls, PutReadBalance(h) PROVE CallsInv'
  <2>1. /\ pc[h] = "put_read" /\ pc'[h] \in {"put_log", "failed"} /\ call' = call
        /\ \A x \in Calls : x # h => pc'[x] = pc[x]
    BY <1>9 DEF PutReadBalance, Goto, TypeOK
  <2>2. QED
    BY <2>1, CallFields DEF CallsInv, PostSteps, PutSteps, AdjSteps
<1>10. ASSUME NEW h \in Calls, PutSaveHistory(h) PROVE CallsInv'
  BY <1>10 DEF PutSaveHistory, CallsInv, Goto, PostSteps, PutSteps, AdjSteps
<1>11. ASSUME NEW h \in Calls, PutSaveBalance(h) PROVE CallsInv'
  BY <1>11 DEF PutSaveBalance, CallsInv, Goto, PostSteps, PutSteps, AdjSteps
<1>12. ASSUME NEW h \in Calls, PutNoBalance(h) PROVE CallsInv'
  BY <1>12 DEF PutNoBalance, CallsInv, Goto, PostSteps, PutSteps, AdjSteps
<1>13. ASSUME NEW h \in Calls, PutSaveRequest(h) PROVE CallsInv'
  BY <1>13 DEF PutSaveRequest, CallsInv, Goto, PostSteps, PutSteps, AdjSteps
<1>14. ASSUME NEW h \in Calls, PutNotify(h) PROVE CallsInv'
  BY <1>14 DEF PutNotify, CallsInv, Goto, PostSteps, PutSteps, AdjSteps
<1>15. ASSUME NEW h \in Calls, AdjReadBalance(h) PROVE CallsInv'
  BY <1>15 DEF AdjReadBalance, CallsInv, Goto, PostSteps, PutSteps, AdjSteps, Save, Asks
<1>16. ASSUME NEW h \in Calls, AdjSaveHistory(h) PROVE CallsInv'
  BY <1>16 DEF AdjSaveHistory, CallsInv, Goto, PostSteps, PutSteps, AdjSteps
<1>17. ASSUME NEW h \in Calls, AdjSaveBalance(h) PROVE CallsInv'
  BY <1>17 DEF AdjSaveBalance, CallsInv, Goto, PostSteps, PutSteps, AdjSteps
<1>18. ASSUME NEW h \in Calls, Abort(h) PROVE CallsInv'
  BY <1>18 DEF Abort, CallsInv, Goto, PostSteps, PutSteps, AdjSteps, InFlight
<1>19. ASSUME NEW r \in Calls, DeleteRequest(r) PROVE CallsInv'
  BY <1>19 DEF DeleteRequest, CallsInv
<1>20. ASSUME NEW e \in Employees, ChangeEmployeeStatus(e) PROVE CallsInv'
  BY <1>20 DEF ChangeEmployeeStatus, CallsInv
<1>21. ASSUME NEW c \in Categories, DeleteCategory(c) PROVE CallsInv'
  BY <1>21 DEF DeleteCategory, CallsInv
<1>22. ASSUME NEW e \in Employees, NEW c \in Categories, OpenBalance(e, c)
      PROVE CallsInv'
  BY <1>22 DEF OpenBalance, CallsInv
<1>23. ASSUME NEW cs \in SUBSET Categories, NEW timeUnit \in [cs -> Units],
             SaveCategories(timeUnit)
      PROVE CallsInv'
  BY <1>23 DEF SaveCategories, CallsInv
<1>24. CASE UNCHANGED vars
  BY <1>24 DEF CallsInv, vars
<1>25. QED
  BY <1>1, <1>2, <1>3, <1>4, <1>5, <1>6, <1>7, <1>8, <1>9, <1>10, <1>11,
     <1>12, <1>13, <1>14, <1>15, <1>16, <1>17, <1>18, <1>19, <1>20, <1>21,
     <1>22, <1>23, <1>24 DEF Next, Post, Put, Adjust, Categorise

(* A handler that reads a balance copies a stored row of its own account,  *)
(* and one that saves the copy leaves every row in its account.            *)
LEMMA ReadBalanceRow ==
    ASSUME NEW h \in DOMAIN call, ReadBalance(h, Joined(call[h].emp, call[h].cat))
    PROVE  /\ DOMAIN row' = DOMAIN row \cup {h}
           /\ \A x \in DOMAIN row : x # h => row'[x] = row[x]
           /\ row'[h].id \in DOMAIN balance
           /\ row'[h].data = balance[row'[h].id]
           /\ Account(row'[h].data) = Account(call[h])
<1>1. PICK b \in Joined(call[h].emp, call[h].cat) :
        row' = Save(row, h, [id |-> b, data |-> balance[b],
                             unit |-> unit[call[h].cat]])
  BY DEF ReadBalance
<1>2. /\ b \in DOMAIN balance
      /\ balance[b].emp = call[h].emp
      /\ balance[b].cat = call[h].cat
  BY DEF Joined
<1>3. /\ row'[h].id = b
      /\ row'[h].data = balance[b]
  BY <1>1 DEF Save
<1>4. QED
  BY <1>1, <1>2, <1>3 DEF Save, Account

LEMMA SaveBalanceRow ==
    ASSUME NEW h \in DOMAIN row, row[h].id \in DOMAIN balance, NEW data,
           Account(data) = Account(balance[row[h].id]), SaveBalance(h, data)
    PROVE  /\ DOMAIN balance' = DOMAIN balance
           /\ balance'[row[h].id] = data
           /\ \A b \in DOMAIN balance : b # row[h].id => balance'[b] = balance[b]
           /\ \A b \in DOMAIN balance : Account(balance'[b]) = Account(balance[b])
  BY DEF Save, SaveBalance

LEMMA ChargedAccount ==
    ASSUME TypeOK, NEW h \in DOMAIN row, h \in DOMAIN call, NEW n \in Int
    PROVE  /\ Account(Charged(h, n)) = Account(row[h].data)
           /\ Charged(h, n).total = row[h].data.total
  BY ChargedRow, CallFields, CopyFields DEF Account

(* A copied row stays a copy of a stored row of the call's account. *)
LEMMA RowsStep ==
    ASSUME IInv, [Next]_vars
    PROVE  RowsInv'
<1> USE DEF IInv
<1>1. ASSUME NEW h \in Calls, PostReadEmployee(h) PROVE RowsInv'
  <2>1. h \notin DOMAIN call /\ h \notin DOMAIN row
    BY <1>1 DEF PostReadEmployee, Goto, CallsInv, RowsInv
  <2>2. /\ DOMAIN call' = DOMAIN call \cup {h}
        /\ \A x \in DOMAIN call : x # h => call'[x] = call[x]
    BY <1>1 DEF PostReadEmployee, Save
  <2>3. pc' = [pc EXCEPT ![h] = "post_read"] /\ row' = row /\ balance' = balance
    BY <1>1 DEF PostReadEmployee, Goto, tables
  <2>4. QED
    BY <2>1, <2>2, <2>3 DEF RowsInv
<1>2. ASSUME NEW h \in Calls, PostReadBalance(h) PROVE RowsInv'
  <2>1. pc[h] = "post_read" /\ h \in DOMAIN call /\ call' = call /\ balance' = balance
    BY <1>2 DEF PostReadBalance, Goto, CallsInv, tables
  <2>2. \A x \in Calls : x # h => pc'[x] = pc[x]
    BY <1>2 DEF PostReadBalance, Goto, TypeOK
  <2>3. CASE row' = row /\ pc'[h] \in {"put_log", "failed"}
    BY <2>1, <2>2, <2>3 DEF RowsInv
  <2>4. CASE ReadBalance(h, Joined(call[h].emp, call[h].cat))
    <3>1. /\ DOMAIN row' = DOMAIN row \cup {h}
          /\ \A x \in DOMAIN row : x # h => row'[x] = row[x]
          /\ row'[h].id \in DOMAIN balance
          /\ row'[h].data = balance[row'[h].id]
          /\ Account(row'[h].data) = Account(call[h])
      BY <2>1, <2>4, ReadBalanceRow
    <3>2. \A x \in Calls : pc'[x] \in {"post_charge", "adj_log", "adj_save"} =>
            x = h \/ pc[x] = pc'[x]
      BY <2>2
    <3>3. ASSUME NEW x \in Calls, pc'[x] \in {"post_charge", "adj_log", "adj_save"}
          PROVE  x \in DOMAIN row'
      BY <3>1, <3>2, <3>3 DEF RowsInv
    <3>4. ASSUME NEW x \in DOMAIN row'
          PROVE  /\ x \in DOMAIN call'
                 /\ row'[x].id \in DOMAIN balance'
                 /\ Account(row'[x].data) = Account(call'[x])
                 /\ Account(balance'[row'[x].id]) = Account(call'[x])
      <4>1. CASE x = h
        BY <2>1, <3>1, <4>1
      <4>2. CASE x # h
        BY <2>1, <3>1, <3>4, <4>2 DEF RowsInv
      <4>3. QED
        BY <4>1, <4>2
    <3>5. QED
      BY <3>3, <3>4 DEF RowsInv
  <2>5. QED
    BY <1>2, <2>3, <2>4 DEF PostReadBalance, Goto, TypeOK
<1>3. ASSUME NEW h \in Calls, PostSaveBalance(h) PROVE RowsInv'
  <2>1. h \in DOMAIN row /\ h \in DOMAIN call /\ row[h].id \in DOMAIN balance
    BY <1>3 DEF PostSaveBalance, Goto, RowsInv
  <2>2. Account(Charged(h, 1)) = Account(balance[row[h].id])
    BY <2>1, ChargedAccount DEF RowsInv
  <2>3. /\ DOMAIN balance' = DOMAIN balance
        /\ \A b \in DOMAIN balance : Account(balance'[b]) = Account(balance[b])
    BY <1>3, <2>1, <2>2, SaveBalanceRow DEF PostSaveBalance
  <2>4. pc' = [pc EXCEPT ![h] = "post_log"] /\ call' = call /\ row' = row
    BY <1>3 DEF PostSaveBalance, Goto
  <2>5. QED
    BY <2>3, <2>4 DEF RowsInv
<1>4. ASSUME NEW h \in Calls, PostSaveHistory(h) PROVE RowsInv'
  BY <1>4 DEF PostSaveHistory, RowsInv, Goto, NoBlame, tables
<1>5. ASSUME NEW h \in Calls, PostSaveRequest(h) PROVE RowsInv'
  BY <1>5 DEF PostSaveRequest, RowsInv, Goto, NoBlame, tables
<1>6. ASSUME NEW h \in Calls, PostUnknownEmployee(h) PROVE RowsInv'
  BY <1>6 DEF PostUnknownEmployee, RowsInv, Goto, NoBlame, tables
<1>7. ASSUME NEW h \in Calls, PostNotify(h) PROVE RowsInv'
  BY <1>7 DEF PostNotify, RowsInv, Goto, NoBlame, tables
<1>8. ASSUME NEW h \in Calls, PutReadRequest(h) PROVE RowsInv'
  <2>1. h \notin DOMAIN call /\ h \notin DOMAIN row
    BY <1>8 DEF PutReadRequest, Goto, CallsInv, RowsInv
  <2>2. /\ DOMAIN call' = DOMAIN call \cup {h}
        /\ \A x \in DOMAIN call : x # h => call'[x] = call[x]
    BY <1>8 DEF PutReadRequest, Save
  <2>3. pc' = [pc EXCEPT ![h] = "put_read"] /\ row' = row /\ balance' = balance
    BY <1>8 DEF PutReadRequest, Goto, tables
  <2>4. QED
    BY <2>1, <2>2, <2>3 DEF RowsInv
<1>9. ASSUME NEW h \in Calls, PutReadBalance(h) PROVE RowsInv'
  <2>1. pc[h] = "put_read" /\ h \in DOMAIN call /\ call' = call /\ balance' = balance
    BY <1>9 DEF PutReadBalance, Goto, CallsInv, tables
  <2>2. \A x \in Calls : x # h => pc'[x] = pc[x]
    BY <1>9 DEF PutReadBalance, Goto, TypeOK
  <2>3. CASE row' = row /\ pc'[h] \in {"put_log", "failed"}
    BY <2>1, <2>2, <2>3 DEF RowsInv
  <2>4. CASE ReadBalance(h, Joined(call[h].emp, call[h].cat))
    <3>1. /\ DOMAIN row' = DOMAIN row \cup {h}
          /\ \A x \in DOMAIN row : x # h => row'[x] = row[x]
          /\ row'[h].id \in DOMAIN balance
          /\ row'[h].data = balance[row'[h].id]
          /\ Account(row'[h].data) = Account(call[h])
      BY <2>1, <2>4, ReadBalanceRow
    <3>2. \A x \in Calls : pc'[x] \in {"post_charge", "adj_log", "adj_save"} =>
            x = h \/ pc[x] = pc'[x]
      BY <2>2
    <3>3. ASSUME NEW x \in Calls, pc'[x] \in {"post_charge", "adj_log", "adj_save"}
          PROVE  x \in DOMAIN row'
      BY <3>1, <3>2, <3>3 DEF RowsInv
    <3>4. ASSUME NEW x \in DOMAIN row'
          PROVE  /\ x \in DOMAIN call'
                 /\ row'[x].id \in DOMAIN balance'
                 /\ Account(row'[x].data) = Account(call'[x])
                 /\ Account(balance'[row'[x].id]) = Account(call'[x])
      <4>1. CASE x = h
        BY <2>1, <3>1, <4>1
      <4>2. CASE x # h
        BY <2>1, <3>1, <3>4, <4>2 DEF RowsInv
      <4>3. QED
        BY <4>1, <4>2
    <3>5. QED
      BY <3>3, <3>4 DEF RowsInv
  <2>5. QED
    BY <1>9, <2>3, <2>4 DEF PutReadBalance, Goto, TypeOK
<1>10. ASSUME NEW h \in Calls, PutSaveHistory(h) PROVE RowsInv'
  BY <1>10 DEF PutSaveHistory, RowsInv, Goto, NoBlame, tables
<1>11. ASSUME NEW h \in Calls, PutSaveBalance(h) PROVE RowsInv'
  <2>1. h \in DOMAIN row /\ h \in DOMAIN call /\ row[h].id \in DOMAIN balance
    BY <1>11 DEF PutSaveBalance, Goto, RowsInv
  <2>2. Account((IF call[h].status \in Refunds THEN Charged(h, -1) ELSE row[h].data)) = Account(balance[row[h].id])
    BY <2>1, ChargedAccount DEF RowsInv
  <2>3. /\ DOMAIN balance' = DOMAIN balance
        /\ \A b \in DOMAIN balance : Account(balance'[b]) = Account(balance[b])
    BY <1>11, <2>1, <2>2, SaveBalanceRow DEF PutSaveBalance
  <2>4. pc' = [pc EXCEPT ![h] = "put_store"] /\ call' = call /\ row' = row
    BY <1>11 DEF PutSaveBalance, Goto
  <2>5. QED
    BY <2>3, <2>4 DEF RowsInv
<1>12. ASSUME NEW h \in Calls, PutNoBalance(h) PROVE RowsInv'
  BY <1>12 DEF PutNoBalance, RowsInv, Goto, NoBlame, tables
<1>13. ASSUME NEW h \in Calls, PutSaveRequest(h) PROVE RowsInv'
  BY <1>13 DEF PutSaveRequest, RowsInv, Goto, NoBlame, tables
<1>14. ASSUME NEW h \in Calls, PutNotify(h) PROVE RowsInv'
  BY <1>14 DEF PutNotify, RowsInv, Goto, NoBlame, tables
<1>15. ASSUME NEW h \in Calls, AdjReadBalance(h) PROVE RowsInv'
  <2>1. h \notin DOMAIN call /\ h \notin DOMAIN row
    BY <1>15 DEF AdjReadBalance, Goto, CallsInv, RowsInv
  <2>2. PICK b \in DOMAIN balance :
          /\ call' = Save(call, h, Asks("adjust", balance[b].emp, balance[b].cat,
                                        h, "manual", TRUE))
          /\ row' = Save(row, h, [id |-> b, data |-> balance[b],
                                  unit |-> unit[balance[b].cat]])
    BY <1>15 DEF AdjReadBalance
  <2>3. /\ DOMAIN call' = DOMAIN call \cup {h}
        /\ \A x \in DOMAIN call : x # h => call'[x] = call[x]
        /\ Account(call'[h]) = Account(balance[b])
    BY <2>2 DEF Save, Asks, Account
  <2>4. /\ DOMAIN row' = DOMAIN row \cup {h}
        /\ \A x \in DOMAIN row : x # h => row'[x] = row[x]
        /\ row'[h].id = b /\ row'[h].data = balance[b]
    BY <2>2 DEF Save
  <2>5. pc' = [pc EXCEPT ![h] = "adj_log"] /\ balance' = balance
    BY <1>15 DEF AdjReadBalance, Goto, tables
  <2>6. QED
    BY <2>1, <2>3, <2>4, <2>5 DEF RowsInv
<1>16. ASSUME NEW h \in Calls, AdjSaveHistory(h) PROVE RowsInv'
  BY <1>16 DEF AdjSaveHistory, RowsInv, Goto, NoBlame, tables
<1>17. ASSUME NEW h \in Calls, AdjSaveBalance(h) PROVE RowsInv'
  <2>1. h \in DOMAIN row /\ h \in DOMAIN call /\ row[h].id \in DOMAIN balance
    BY <1>17 DEF AdjSaveBalance, Goto, RowsInv
  <2>2. Account([row[h].data EXCEPT !.total = row[h].data.total \cup {h}]) = Account(balance[row[h].id])
    BY <2>1, CopyFields DEF RowsInv, Account, BalanceRow
  <2>3. /\ DOMAIN balance' = DOMAIN balance
        /\ \A b \in DOMAIN balance : Account(balance'[b]) = Account(balance[b])
    BY <1>17, <2>1, <2>2, SaveBalanceRow DEF AdjSaveBalance
  <2>4. pc' = [pc EXCEPT ![h] = "done"] /\ call' = call /\ row' = row
    BY <1>17 DEF AdjSaveBalance, Goto
  <2>5. QED
    BY <2>3, <2>4 DEF RowsInv
<1>18. ASSUME NEW h \in Calls, Abort(h) PROVE RowsInv'
  BY <1>18 DEF Abort, RowsInv, Goto, NoBlame, tables
<1>19. ASSUME NEW r \in Calls, DeleteRequest(r) PROVE RowsInv'
  BY <1>19 DEF DeleteRequest, RowsInv, tables
<1>20. ASSUME NEW e \in Employees, ChangeEmployeeStatus(e) PROVE RowsInv'
  BY <1>20 DEF ChangeEmployeeStatus, RowsInv, tables
<1>21. ASSUME NEW c \in Categories, DeleteCategory(c) PROVE RowsInv'
  BY <1>21 DEF DeleteCategory, RowsInv, tables
<1>22. ASSUME NEW e \in Employees, NEW c \in Categories, OpenBalance(e, c)
      PROVE RowsInv'
  <2>1. PICK b \in Balances \ DOMAIN balance : balance' = Save(balance, b, Fresh(e, c))
    BY <1>22 DEF OpenBalance
  <2>2. /\ DOMAIN balance' = DOMAIN balance \cup {b}
        /\ \A x \in DOMAIN balance : balance'[x] = balance[x]
    BY <2>1 DEF Save
  <2>3. pc' = pc /\ call' = call /\ row' = row
    BY <1>22 DEF OpenBalance
  <2>4. QED
    BY <2>2, <2>3 DEF RowsInv
<1>23. ASSUME NEW cs \in SUBSET Categories, NEW timeUnit \in [cs -> Units],
             SaveCategories(timeUnit)
      PROVE RowsInv'
  BY <1>23 DEF SaveCategories, RowsInv, tables
<1>24. CASE UNCHANGED vars
  BY <1>24 DEF RowsInv, vars, tables
<1>25. QED
  BY <1>1, <1>2, <1>3, <1>4, <1>5, <1>6, <1>7, <1>8, <1>9, <1>10, <1>11,
     <1>12, <1>13, <1>14, <1>15, <1>16, <1>17, <1>18, <1>19, <1>20, <1>21,
     <1>22, <1>23, <1>24 DEF Next, Post, Put, Adjust, Categorise

(* The history of a request or an adjustment is written by its own call,   *)
(* before the request is stored, and never changes its account or its kind. *)
LEMMA LogsStep ==
    ASSUME IInv, [Next]_vars
    PROVE  LogsInv'
<1> USE DEF IInv
<1>1. ASSUME NEW h \in Calls, PostReadEmployee(h) PROVE LogsInv'
  BY <1>1 DEF PostReadEmployee, LogsInv, CallsInv, Goto, tables, Save,
     SaveHistory, Asks, Account, PostSteps, PutSteps, AdjSteps
<1>2. ASSUME NEW h \in Calls, PostReadBalance(h) PROVE LogsInv'
  <2>1. /\ pc[h] = "post_read" /\ pc'[h] \in {"post_charge", "failed"} /\ call' = call
        /\ \A x \in Calls : x # h => pc'[x] = pc[x]
    BY <1>2 DEF PostReadBalance, Goto, TypeOK
  <2>2. request' = request /\ history' = history
    BY <1>2 DEF PostReadBalance, tables
  <2>3. QED
    BY <2>1, <2>2, CallFields DEF LogsInv
<1>3. ASSUME NEW h \in Calls, PostSaveBalance(h) PROVE LogsInv'
  BY <1>3 DEF PostSaveBalance, LogsInv, CallsInv, Goto, tables, Save,
     SaveHistory, Asks, Account, PostSteps, PutSteps, AdjSteps
<1>4. ASSUME NEW h \in Calls, PostSaveHistory(h) PROVE LogsInv'
  BY <1>4 DEF PostSaveHistory, LogsInv, CallsInv, Goto, tables, Save,
     SaveHistory, Asks, Account, PostSteps, PutSteps, AdjSteps
<1>5. ASSUME NEW h \in Calls, PostSaveRequest(h) PROVE LogsInv'
  BY <1>5 DEF PostSaveRequest, LogsInv, CallsInv, Goto, tables, Save,
     SaveHistory, Asks, Account, PostSteps, PutSteps, AdjSteps
<1>6. ASSUME NEW h \in Calls, PostUnknownEmployee(h) PROVE LogsInv'
  BY <1>6 DEF PostUnknownEmployee, LogsInv, CallsInv, Goto, tables, Save,
     SaveHistory, Asks, Account, PostSteps, PutSteps, AdjSteps
<1>7. ASSUME NEW h \in Calls, PostNotify(h) PROVE LogsInv'
  BY <1>7 DEF PostNotify, LogsInv, CallsInv, Goto, tables, Save, SaveHistory,
     Asks, Account, PostSteps, PutSteps, AdjSteps
<1>8. ASSUME NEW h \in Calls, PutReadRequest(h) PROVE LogsInv'
  <2>1. h \notin DOMAIN call /\ pc[h] = "idle" /\ pc' = [pc EXCEPT ![h] = "put_read"]
        /\ request' = request /\ history' = history
    BY <1>8 DEF PutReadRequest, Goto, CallsInv, tables
  <2>2. PICK r \in DOMAIN request, s \in {"approved"} \cup Refunds :
          call' = Save(call, h, Asks("put", request[r].emp, request[r].cat, r, s, TRUE))
    BY <1>8 DEF PutReadRequest
  <2>3. /\ DOMAIN call' = DOMAIN call \cup {h}
        /\ \A x \in DOMAIN call : call'[x] = call[x]
        /\ call'[h].op = "put" /\ call'[h].req = r
        /\ Account(call'[h]) = Account(request[r])
    BY <2>1, <2>2 DEF Save, Asks, Account
  <2>4. /\ r \in DOMAIN history /\ r \in DOMAIN call /\ call[r].op = "post"
        /\ Account(history[r]) = Account(request[r])
    BY DEF LogsInv
  <2>5. \A x \in DOMAIN call : x # h /\ pc'[x] = pc[x]
    BY <2>1, CallFields DEF TypeOK
  <2>6. pc'[h] = "put_read"
    BY <2>1 DEF TypeOK
  <2>7. QED
    BY <2>1, <2>3, <2>4, <2>5, <2>6 DEF LogsInv
<1>9. ASSUME NEW h \in Calls, PutReadBalance(h) PROVE LogsInv'
  <2>1. /\ pc[h] = "put_read" /\ pc'[h] \in {"put_log", "failed"} /\ call' = call
        /\ \A x \in Calls : x # h => pc'[x] = pc[x]
    BY <1>9 DEF PutReadBalance, Goto, TypeOK
  <2>2. request' = request /\ history' = history
    BY <1>9 DEF PutReadBalance, tables
  <2>3. QED
    BY <2>1, <2>2, CallFields DEF LogsInv
<1>10. ASSUME NEW h \in Calls, PutSaveHistory(h) PROVE LogsInv'
  BY <1>10 DEF PutSaveHistory, LogsInv, CallsInv, Goto, tables, Save,
     SaveHistory, Asks, Account, PostSteps, PutSteps, AdjSteps
<1>11. ASSUME NEW h \in Calls, PutSaveBalance(h) PROVE LogsInv'
  BY <1>11 DEF PutSaveBalance, LogsInv, CallsInv, Goto, tables, Save,
     SaveHistory, Asks, Account, PostSteps, PutSteps, AdjSteps
<1>12. ASSUME NEW h \in Calls, PutNoBalance(h) PROVE LogsInv'
  BY <1>12 DEF PutNoBalance, LogsInv, CallsInv, Goto, tables, Save, SaveHistory,
     Asks, Account, PostSteps, PutSteps, AdjSteps
<1>13. ASSUME NEW h \in Calls, PutSaveRequest(h) PROVE LogsInv'
  BY <1>13 DEF PutSaveRequest, LogsInv, CallsInv, Goto, tables, Save,
     SaveHistory, Asks, Account, PostSteps, PutSteps, AdjSteps
<1>14. ASSUME NEW h \in Calls, PutNotify(h) PROVE LogsInv'
  BY <1>14 DEF PutNotify, LogsInv, CallsInv, Goto, tables, Save, SaveHistory,
     Asks, Account, PostSteps, PutSteps, AdjSteps
<1>15. ASSUME NEW h \in Calls, AdjReadBalance(h) PROVE LogsInv'
  BY <1>15 DEF AdjReadBalance, LogsInv, CallsInv, Goto, tables, Save,
     SaveHistory, Asks, Account, PostSteps, PutSteps, AdjSteps
<1>16. ASSUME NEW h \in Calls, AdjSaveHistory(h) PROVE LogsInv'
  BY <1>16 DEF AdjSaveHistory, LogsInv, CallsInv, Goto, tables, Save,
     SaveHistory, Asks, Account, PostSteps, PutSteps, AdjSteps
<1>17. ASSUME NEW h \in Calls, AdjSaveBalance(h) PROVE LogsInv'
  BY <1>17 DEF AdjSaveBalance, LogsInv, CallsInv, Goto, tables, Save,
     SaveHistory, Asks, Account, PostSteps, PutSteps, AdjSteps
<1>18. ASSUME NEW h \in Calls, Abort(h) PROVE LogsInv'
  BY <1>18 DEF Abort, LogsInv, CallsInv, Goto, tables, Save, SaveHistory, Asks,
     Account, PostSteps, PutSteps, AdjSteps
<1>19. ASSUME NEW r \in Calls, DeleteRequest(r) PROVE LogsInv'
  BY <1>19 DEF DeleteRequest, LogsInv, Delete, tables
<1>20. ASSUME NEW e \in Employees, ChangeEmployeeStatus(e) PROVE LogsInv'
  BY <1>20 DEF ChangeEmployeeStatus, LogsInv, Delete, tables
<1>21. ASSUME NEW c \in Categories, DeleteCategory(c) PROVE LogsInv'
  BY <1>21 DEF DeleteCategory, LogsInv, Delete, tables
<1>22. ASSUME NEW e \in Employees, NEW c \in Categories, OpenBalance(e, c)
      PROVE LogsInv'
  BY <1>22 DEF OpenBalance, LogsInv, Delete, tables
<1>23. ASSUME NEW cs \in SUBSET Categories, NEW timeUnit \in [cs -> Units],
             SaveCategories(timeUnit)
      PROVE LogsInv'
  BY <1>23 DEF SaveCategories, LogsInv, Delete, tables
<1>24. CASE UNCHANGED vars
  BY <1>24 DEF LogsInv, vars, tables
<1>25. QED
  BY <1>1, <1>2, <1>3, <1>4, <1>5, <1>6, <1>7, <1>8, <1>9, <1>10, <1>11,
     <1>12, <1>13, <1>14, <1>15, <1>16, <1>17, <1>18, <1>19, <1>20, <1>21,
     <1>22, <1>23, <1>24 DEF Next, Post, Put, Adjust, Categorise

(* Saving a history row leaves every logged adjustment logged. *)
LEMMA HistoryKept ==
    ASSUME NEW h, NEW id, NEW action, SaveHistory(h, id, action),
           id \in DOMAIN history /\ history[id].action = "manual" =>
               action = "manual" /\ Account(history[id]) = Account(call[h])
    PROVE  \A x \in DOMAIN history : history[x].action = "manual" =>
               /\ x \in DOMAIN history'
               /\ history'[x].action = "manual"
               /\ Account(history'[x]) = Account(history[x])
  BY DEF SaveHistory, Save, Account

(* An adjustment in a total, stored or copied, keeps its history row. *)
LEMMA TotalsStep ==
    ASSUME IInv, [Next]_vars
    PROVE  TotalsInv'
<1> USE DEF IInv
<1>1. ASSUME NEW h \in Calls, PostReadEmployee(h) PROVE TotalsInv'
  BY <1>1 DEF PostReadEmployee, TotalsInv, AdjustmentLogged, tables, Goto
<1>2. ASSUME NEW h \in Calls, PostReadBalance(h) PROVE TotalsInv'
  <2>1. h \in DOMAIN call /\ balance' = balance /\ history' = history
    BY <1>2 DEF PostReadBalance, Goto, CallsInv, tables
  <2>2. CASE row' = row
    BY <2>1, <2>2 DEF TotalsInv, AdjustmentLogged
  <2>3. CASE ReadBalance(h, Joined(call[h].emp, call[h].cat))
    <3>1. /\ DOMAIN row' = DOMAIN row \cup {h}
          /\ \A x \in DOMAIN row : x # h => row'[x] = row[x]
          /\ row'[h].id \in DOMAIN balance
          /\ row'[h].data = balance[row'[h].id]
      BY <2>1, <2>3, ReadBalanceRow
    <3>2. \A b \in DOMAIN balance' : \A x \in balance'[b].total :
            AdjustmentLogged(x, balance[b])'
      BY <2>1 DEF TotalsInv, AdjustmentLogged
    <3>3. ASSUME NEW k \in DOMAIN row', NEW x \in row'[k].data.total
          PROVE  AdjustmentLogged(x, row'[k].data)
      <4>1. CASE k = h
        BY <3>1, <3>3, <4>1 DEF TotalsInv
      <4>2. CASE k # h
        BY <3>1, <3>3, <4>2 DEF TotalsInv
      <4>3. QED
        BY <4>1, <4>2
    <3>4. QED
      BY <2>1, <3>2, <3>3 DEF TotalsInv, AdjustmentLogged
  <2>4. QED
    BY <1>2, <2>2, <2>3 DEF PostReadBalance
<1>3. ASSUME NEW h \in Calls, PostSaveBalance(h) PROVE TotalsInv'
  <2>1. h \in DOMAIN row /\ h \in DOMAIN call /\ row[h].id \in DOMAIN balance
    BY <1>3 DEF PostSaveBalance, Goto, RowsInv
  <2>2. Account(Charged(h, 1)) = Account(balance[row[h].id])
    BY <2>1, ChargedAccount DEF RowsInv
  <2>3. /\ DOMAIN balance' = DOMAIN balance
        /\ balance'[row[h].id] = Charged(h, 1)
        /\ \A b \in DOMAIN balance : b # row[h].id => balance'[b] = balance[b]
    BY <1>3, <2>1, <2>2, SaveBalanceRow DEF PostSaveBalance
  <2>4. history' = history /\ row' = row
    BY <1>3 DEF PostSaveBalance
  <2>5. \A x \in (Charged(h, 1)).total :
            AdjustmentLogged(x, Charged(h, 1))
    BY <2>1, ChargedAccount DEF TotalsInv, AdjustmentLogged
  <2>6. QED
    BY <2>3, <2>4, <2>5 DEF TotalsInv, AdjustmentLogged
<1>4. ASSUME NEW h \in Calls, PostSaveHistory(h) PROVE TotalsInv'
  <2>1. h \in DOMAIN call /\ call[h].op = "post"
    BY <1>4 DEF PostSaveHistory, Goto, CallsInv, PostSteps
  <2>2. \A x \in DOMAIN history : history[x].action = "manual" =>
            /\ x \in DOMAIN history'
            /\ history'[x].action = "manual"
            /\ Account(history'[x]) = Account(history[x])
    BY <1>4, <2>1, HistoryKept DEF PostSaveHistory, LogsInv
  <2>3. balance' = balance /\ row' = row
    BY <1>4 DEF PostSaveHistory
  <2>4. QED
    BY <2>2, <2>3 DEF TotalsInv, AdjustmentLogged
<1>5. ASSUME NEW h \in Calls, PostSaveRequest(h) PROVE TotalsInv'
  BY <1>5 DEF PostSaveRequest, TotalsInv, AdjustmentLogged, tables, Goto
<1>6. ASSUME NEW h \in Calls, PostUnknownEmployee(h) PROVE TotalsInv'
  BY <1>6 DEF PostUnknownEmployee, TotalsInv, AdjustmentLogged, tables, Goto
<1>7. ASSUME NEW h \in Calls, PostNotify(h) PROVE TotalsInv'
  BY <1>7 DEF PostNotify, TotalsInv, AdjustmentLogged, tables, Goto
<1>8. ASSUME NEW h \in Calls, PutReadRequest(h) PROVE TotalsInv'
  BY <1>8 DEF PutReadRequest, TotalsInv, AdjustmentLogged, tables, Goto
<1>9. ASSUME NEW h \in Calls, PutReadBalance(h) PROVE TotalsInv'
  <2>1. h \in DOMAIN call /\ balance' = balance /\ history' = history
    BY <1>9 DEF PutReadBalance, Goto, CallsInv, tables
  <2>2. CASE row' = row
    BY <2>1, <2>2 DEF TotalsInv, AdjustmentLogged
  <2>3. CASE ReadBalance(h, Joined(call[h].emp, call[h].cat))
    <3>1. /\ DOMAIN row' = DOMAIN row \cup {h}
          /\ \A x \in DOMAIN row : x # h => row'[x] = row[x]
          /\ row'[h].id \in DOMAIN balance
          /\ row'[h].data = balance[row'[h].id]
      BY <2>1, <2>3, ReadBalanceRow
    <3>2. \A b \in DOMAIN balance' : \A x \in balance'[b].total :
            AdjustmentLogged(x, balance[b])'
      BY <2>1 DEF TotalsInv, AdjustmentLogged
    <3>3. ASSUME NEW k \in DOMAIN row', NEW x \in row'[k].data.total
          PROVE  AdjustmentLogged(x, row'[k].data)
      <4>1. CASE k = h
        BY <3>1, <3>3, <4>1 DEF TotalsInv
      <4>2. CASE k # h
        BY <3>1, <3>3, <4>2 DEF TotalsInv
      <4>3. QED
        BY <4>1, <4>2
    <3>4. QED
      BY <2>1, <3>2, <3>3 DEF TotalsInv, AdjustmentLogged
  <2>4. QED
    BY <1>9, <2>2, <2>3 DEF PutReadBalance
<1>10. ASSUME NEW h \in Calls, PutSaveHistory(h) PROVE TotalsInv'
  <2>1. h \in DOMAIN call /\ call[call[h].req].op = "post"
    BY <1>10 DEF PutSaveHistory, Goto, CallsInv, PutSteps, LogsInv
  <2>2. \A x \in DOMAIN history : history[x].action = "manual" =>
            /\ x \in DOMAIN history'
            /\ history'[x].action = "manual"
            /\ Account(history'[x]) = Account(history[x])
    BY <1>10, <2>1, HistoryKept DEF PutSaveHistory, LogsInv
  <2>3. balance' = balance /\ row' = row
    BY <1>10 DEF PutSaveHistory
  <2>4. QED
    BY <2>2, <2>3 DEF TotalsInv, AdjustmentLogged
<1>11. ASSUME NEW h \in Calls, PutSaveBalance(h) PROVE TotalsInv'
  <2>1. h \in DOMAIN row /\ h \in DOMAIN call /\ row[h].id \in DOMAIN balance
    BY <1>11 DEF PutSaveBalance, Goto, RowsInv
  <2>2. Account((IF call[h].status \in Refunds THEN Charged(h, -1) ELSE row[h].data)) = Account(balance[row[h].id])
    BY <2>1, ChargedAccount DEF RowsInv
  <2>3. /\ DOMAIN balance' = DOMAIN balance
        /\ balance'[row[h].id] = (IF call[h].status \in Refunds THEN Charged(h, -1) ELSE row[h].data)
        /\ \A b \in DOMAIN balance : b # row[h].id => balance'[b] = balance[b]
    BY <1>11, <2>1, <2>2, SaveBalanceRow DEF PutSaveBalance
  <2>4. history' = history /\ row' = row
    BY <1>11 DEF PutSaveBalance
  <2>5. \A x \in ((IF call[h].status \in Refunds THEN Charged(h, -1) ELSE row[h].data)).total :
            AdjustmentLogged(x, (IF call[h].status \in Refunds THEN Charged(h, -1) ELSE row[h].data))
    BY <2>1, ChargedAccount DEF TotalsInv, AdjustmentLogged
  <2>6. QED
    BY <2>3, <2>4, <2>5 DEF TotalsInv, AdjustmentLogged
<1>12. ASSUME NEW h \in Calls, PutNoBalance(h) PROVE TotalsInv'
  BY <1>12 DEF PutNoBalance, TotalsInv, AdjustmentLogged, tables, Goto
<1>13. ASSUME NEW h \in Calls, PutSaveRequest(h) PROVE TotalsInv'
  BY <1>13 DEF PutSaveRequest, TotalsInv, AdjustmentLogged, tables, Goto
<1>14. ASSUME NEW h \in Calls, PutNotify(h) PROVE TotalsInv'
  BY <1>14 DEF PutNotify, TotalsInv, AdjustmentLogged, tables, Goto
<1>15. ASSUME NEW h \in Calls, AdjReadBalance(h) PROVE TotalsInv'
  <2>1. balance' = balance /\ history' = history
    BY <1>15 DEF AdjReadBalance, tables
  <2>2. PICK b \in DOMAIN balance :
          row' = Save(row, h, [id |-> b, data |-> balance[b],
                               unit |-> unit[balance[b].cat]])
    BY <1>15 DEF AdjReadBalance
  <2>3. /\ DOMAIN row' = DOMAIN row \cup {h}
        /\ \A x \in DOMAIN row : x # h => row'[x] = row[x]
        /\ row'[h].data = balance[b]
    BY <2>2 DEF Save
  <2>4. QED
    BY <2>1, <2>3 DEF TotalsInv, AdjustmentLogged
<1>16. ASSUME NEW h \in Calls, AdjSaveHistory(h) PROVE TotalsInv'
  <2>1. h \in DOMAIN call /\ call[h].op = "adjust"
    BY <1>16 DEF AdjSaveHistory, Goto, CallsInv, AdjSteps
  <2>2. \A x \in DOMAIN history : history[x].action = "manual" =>
            /\ x \in DOMAIN history'
            /\ history'[x].action = "manual"
            /\ Account(history'[x]) = Account(history[x])
    BY <1>16, <2>1, HistoryKept DEF AdjSaveHistory, LogsInv
  <2>3. balance' = balance /\ row' = row
    BY <1>16 DEF AdjSaveHistory
  <2>4. QED
    BY <2>2, <2>3 DEF TotalsInv, AdjustmentLogged
<1>17. ASSUME NEW h \in Calls, AdjSaveBalance(h) PROVE TotalsInv'
  <2>1. h \in DOMAIN row /\ h \in DOMAIN call /\ row[h].id \in DOMAIN balance
    BY <1>17 DEF AdjSaveBalance, Goto, RowsInv
  <2>2. Account([row[h].data EXCEPT !.total = row[h].data.total \cup {h}]) = Account(balance[row[h].id])
    BY <2>1, CopyFields DEF RowsInv, Account, BalanceRow
  <2>3. /\ DOMAIN balance' = DOMAIN balance
        /\ balance'[row[h].id] = [row[h].data EXCEPT !.total = row[h].data.total \cup {h}]
        /\ \A b \in DOMAIN balance : b # row[h].id => balance'[b] = balance[b]
    BY <1>17, <2>1, <2>2, SaveBalanceRow DEF AdjSaveBalance
  <2>4. history' = history /\ row' = row
    BY <1>17 DEF AdjSaveBalance
  <2>5. \A x \in ([row[h].data EXCEPT !.total = row[h].data.total \cup {h}]).total :
            AdjustmentLogged(x, [row[h].data EXCEPT !.total = row[h].data.total \cup {h}])
    <3>1. /\ h \in DOMAIN history /\ history[h].action = "manual"
          /\ Account(history[h]) = Account(row[h].data)
      BY <1>17, <2>1 DEF AdjSaveBalance, Goto, LogsInv, RowsInv, CallsInv, AdjSteps
    <3>2. /\ Account([row[h].data EXCEPT !.total = row[h].data.total \cup {h}]) = Account(row[h].data)
          /\ ([row[h].data EXCEPT !.total = row[h].data.total \cup {h}]).total = row[h].data.total \cup {h}
      BY <2>1, CopyFields DEF Account, BalanceRow
    <3>3. QED
      BY <2>1, <3>1, <3>2 DEF TotalsInv, AdjustmentLogged
  <2>6. QED
    BY <2>3, <2>4, <2>5 DEF TotalsInv, AdjustmentLogged
<1>18. ASSUME NEW h \in Calls, Abort(h) PROVE TotalsInv'
  BY <1>18 DEF Abort, TotalsInv, AdjustmentLogged, tables, Goto
<1>19. ASSUME NEW r \in Calls, DeleteRequest(r) PROVE TotalsInv'
  BY <1>19 DEF DeleteRequest, TotalsInv, AdjustmentLogged, tables
<1>20. ASSUME NEW e \in Employees, ChangeEmployeeStatus(e) PROVE TotalsInv'
  BY <1>20 DEF ChangeEmployeeStatus, TotalsInv, AdjustmentLogged, tables
<1>21. ASSUME NEW c \in Categories, DeleteCategory(c) PROVE TotalsInv'
  BY <1>21 DEF DeleteCategory, TotalsInv, AdjustmentLogged, tables
<1>22. ASSUME NEW e \in Employees, NEW c \in Categories, OpenBalance(e, c)
      PROVE TotalsInv'
  <2>1. history' = history /\ row' = row
    BY <1>22 DEF OpenBalance
  <2>2. PICK b \in Balances \ DOMAIN balance : balance' = Save(balance, b, Fresh(e, c))
    BY <1>22 DEF OpenBalance
  <2>3. /\ DOMAIN balance' = DOMAIN balance \cup {b}
        /\ \A x \in DOMAIN balance : balance'[x] = balance[x]
        /\ balance'[b].total = {}
    BY <2>2 DEF Save, Fresh
  <2>4. QED
    BY <2>1, <2>3 DEF TotalsInv, AdjustmentLogged
<1>23. ASSUME NEW cs \in SUBSET Categories, NEW timeUnit \in [cs -> Units],
             SaveCategories(timeUnit)
      PROVE TotalsInv'
  BY <1>23 DEF SaveCategories, TotalsInv, AdjustmentLogged, tables
<1>24. CASE UNCHANGED vars
  BY <1>24 DEF TotalsInv, AdjustmentLogged, vars, tables
<1>25. QED
  BY <1>1, <1>2, <1>3, <1>4, <1>5, <1>6, <1>7, <1>8, <1>9, <1>10, <1>11,
     <1>12, <1>13, <1>14, <1>15, <1>16, <1>17, <1>18, <1>19, <1>20, <1>21,
     <1>22, <1>23, <1>24 DEF Next, Post, Put, Adjust, Categorise

LEMMA InitIInv == Init => IInv
<1> SUFFICES ASSUME Init PROVE IInv
  OBVIOUS
<1>1. TypeOK
  BY DEF Init, TypeOK, Steps, NoRows, IsTable
<1>2. CallsInv /\ RowsInv /\ LogsInv /\ TotalsInv
  BY DEF Init, CallsInv, RowsInv, LogsInv, TotalsInv, NoRows, IsTable
<1>3. QED
  BY <1>1, <1>2 DEF IInv

(* The strengthened invariant is inductive. *)
THEOREM Inductive == Spec => []IInv
<1>1. IInv /\ [Next]_vars => IInv'
  BY TypeStep, CallsStep, RowsStep, LogsStep, TotalsStep DEF IInv
<1>2. QED
  BY InitIInv, <1>1, PTL DEF Spec

(* Every variable keeps its type, for any number of calls in flight. *)
THEOREM TypeCorrect == Spec => []TypeOK
<1>1. IInv => TypeOK
  BY DEF IInv
<1>2. QED
  BY Inductive, <1>1, PTL

(* postLeaveRequest and putLeaveRequest never leave a stored request       *)
(* without the history row its historyId names, whatever interleaves,      *)
(* throws or stops in between.                                             *)
THEOREM RequestsLogged == Spec => []RequestsAreLogged
<1>1. IInv => RequestsAreLogged
  BY DEF IInv, LogsInv, RequestsAreLogged
<1>2. QED
  BY Inductive, <1>1, PTL

(* putLeaveBalance never makes an adjustment part of a stored total        *)
(* without its 'Manual' history row.                                       *)
THEOREM AdjustmentsLogged == Spec => []AdjustmentsAreLogged
<1>1. IInv => AdjustmentsAreLogged
  BY DEF IInv, TotalsInv, AdjustmentLogged, AdjustmentsAreLogged
<1>2. QED
  BY Inductive, <1>1, PTL

(* Both at once: whatever interleaves and fails, the history has the row   *)
(* of every stored request and of every adjustment in a stored total.      *)
THEOREM HistoryLogged == Spec => []HistoryIsThere
<1>1. RequestsAreLogged /\ AdjustmentsAreLogged => HistoryIsThere
  BY DEF HistoryIsThere
<1>2. QED
  BY RequestsLogged, AdjustmentsLogged, <1>1, PTL

-----------------------------------------------------------------------------

(* Request r has been refunded to account a, or is about to be stored so.  *)
Released(r, a) ==
    /\ r \in DOMAIN request /\ Account(request[r]) = a
    /\ request[r].status \in Refunds \/ Refunding(r)

(* A call that has saved the refund of its request, and not the request.   *)
RefundSaved(h) ==
    h \in DOMAIN call /\ call[h].op = "put" /\ pc[h] = "put_store" /\ call[h].status \in Refunds

(* A step leaves the standing of request r on account a as it is.          *)
Kept(r, a) ==
    /\ Outstanding(r, a)' <=> Outstanding(r, a)
    /\ Released(r, a)' <=> Released(r, a)

(* A step forgets no call, moves none but h, and disturbs only more.       *)
CallsKept(h) ==
    /\ DOMAIN call \subseteq DOMAIN call'
    /\ \A x \in DOMAIN call : call'[x] = call[x]
    /\ \A x \in Calls : x # h => pc'[x] = pc[x]
    /\ DOMAIN call' \subseteq DOMAIN call \cup {h}

-----------------------------------------------------------------------------
(* The causes that disturb an account are never taken back.                *)
LEMMA BlameGrows ==
    ASSUME TypeOK, NEW as, NEW causes, Blame(as, causes), NEW a \in Accounts
    PROVE  /\ blots[a] \subseteq blots'[a]
           /\ a \in as => causes \subseteq blots'[a]
  BY DEF Blame, TypeOK

LEMMA BlotsGrow ==
    ASSUME IInv, [Next]_vars, NEW a \in Accounts
    PROVE  blots[a] \subseteq blots'[a]
<1> USE BlameGrows DEF IInv, NoBlame
<1>1. ASSUME NEW h \in Calls, Post(h) PROVE blots[a] \subseteq blots'[a]
  BY <1>1 DEF Post, PostReadEmployee, PostReadBalance, PostSaveBalance, SaveBalance,
     PostSaveHistory, PostSaveRequest, PostUnknownEmployee, PostNotify
<1>2. ASSUME NEW h \in Calls, Put(h) PROVE blots[a] \subseteq blots'[a]
  BY <1>2 DEF Put, PutReadRequest, PutReadBalance, PutSaveHistory, PutSaveBalance,
     SaveBalance, PutNoBalance, PutSaveRequest, PutNotify
<1>3. ASSUME NEW h \in Calls, Adjust(h) \/ Abort(h) \/ DeleteRequest(h)
      PROVE  blots[a] \subseteq blots'[a]
  BY <1>3 DEF Adjust, AdjReadBalance, AdjSaveHistory, AdjSaveBalance, SaveBalance, Abort,
     DeleteRequest
<1>4. ASSUME NEW e \in Employees, ChangeEmployeeStatus(e) PROVE blots[a] \subseteq blots'[a]
  BY <1>4 DEF ChangeEmployeeStatus
<1>5. ASSUME Categorise PROVE blots[a] \subseteq blots'[a]
  BY <1>5 DEF Categorise, OpenBalance, SaveCategories, DeleteCategory
<1>6. CASE UNCHANGED vars
  BY <1>6 DEF vars
<1>7. QED
  BY <1>1, <1>2, <1>3, <1>4, <1>5, <1>6 DEF Next

(* What a step does to the calls in flight.                                *)
LEMMA MoveKeeps ==
    ASSUME IInv, NEW h \in Calls, NEW to, pc' = [pc EXCEPT ![h] = to], call' = call
    PROVE  CallsKept(h) /\ pc'[h] = to
  BY DEF CallsKept, IInv, TypeOK

LEMMA BeginKeeps ==
    ASSUME IInv, NEW h \in Calls, NEW to, NEW c, Goto(h, "idle", to), call' = Save(call, h, c)
    PROVE  /\ CallsKept(h) /\ pc'[h] = to
           /\ h \notin DOMAIN call /\ h \notin DOMAIN row
           /\ h \in DOMAIN call' /\ call'[h] = c
<1>1. h \notin DOMAIN call /\ h \notin DOMAIN row
  BY DEF IInv, CallsInv, RowsInv, Goto
<1>2. /\ DOMAIN call' = DOMAIN call \cup {h}
      /\ call'[h] = c
      /\ \A x \in DOMAIN call : call'[x] = call[x]
  BY <1>1 DEF Save
<1>3. pc'[h] = to /\ \A x \in Calls : x # h => pc'[x] = pc[x]
  BY DEF Goto, IInv, TypeOK
<1>4. QED
  BY <1>1, <1>2, <1>3 DEF CallsKept

(* The standing of a request depends on the requests, on the calls that    *)
(* have charged, and on those that have refunded.                          *)
LEMMA StandKept ==
    ASSUME NEW r \in Calls, NEW a, request' = request,
           DOMAIN call \subseteq DOMAIN call', \A x \in DOMAIN call : call'[x] = call[x],
           \A x \in Calls : Filing(x)' <=> Filing(x),
           \A x : RefundSaved(x)' <=> RefundSaved(x)
    PROVE  Kept(r, a)
<1>1. Refunding(r) <=> \E h \in DOMAIN call : RefundSaved(h) /\ call[h].req = r
  BY DEF Refunding, RefundSaved, Deciding, PutSteps
<1>2. Refunding(r)' <=> \E h \in DOMAIN call' : RefundSaved(h)' /\ call'[h].req = r
  BY DEF Refunding, RefundSaved, Deciding, PutSteps
<1>3. Refunding(r)' <=> Refunding(r)
  BY <1>1, <1>2 DEF RefundSaved
<1>4. Filing(r) => Account(call'[r]) = Account(call[r])
  BY DEF Filing
<1>5. QED
  BY <1>3, <1>4 DEF Kept, Outstanding, Released

LEMMA MoveStands ==
    ASSUME IInv, NEW r \in Calls, NEW a, NEW h \in Calls, CallsKept(h), request' = request,
           Filing(h)' <=> Filing(h), RefundSaved(h)' <=> RefundSaved(h)
    PROVE  Kept(r, a)
<1>1. \A x \in Calls : Filing(x)' <=> Filing(x)
  BY DEF CallsKept, Filing
<1>2. DOMAIN call \subseteq Calls /\ DOMAIN call' \subseteq Calls
  BY DEF CallsKept, IInv, TypeOK, IsTable
<1>3. \A x : RefundSaved(x)' <=> RefundSaved(x)
  BY <1>2 DEF CallsKept, RefundSaved
<1>4. QED
  BY <1>1, <1>3, StandKept DEF CallsKept

Charging == {"post_log", "post_store"}

LEMMA GotoStands ==
    ASSUME IInv, NEW r \in Calls, NEW a, NEW h \in Calls, NEW from, NEW to, Goto(h, from, to),
           call' = call, request' = request, from \in Charging <=> to \in Charging,
           from # "put_store", to # "put_store"
    PROVE  Kept(r, a)
<1>1. CallsKept(h) /\ pc'[h] = to /\ pc[h] = from
  BY MoveKeeps DEF Goto
<1>2. (Filing(h)' <=> Filing(h)) /\ (RefundSaved(h)' <=> RefundSaved(h))
  BY <1>1 DEF Filing, RefundSaved, Charging
<1>3. QED
  BY <1>1, <1>2, MoveStands

(* A call changes nothing for an account other than its own.               *)
LEMMA StandsElsewhere ==
    ASSUME IInv, NEW r \in Calls, NEW a, NEW h \in DOMAIN call, CallsKept(h), request' = request,
           a # Account(call[h])
    PROVE  Kept(r, a)
<1>1. h \in Calls /\ DOMAIN call \subseteq Calls /\ DOMAIN call' = DOMAIN call
  BY DEF CallsKept, IInv, TypeOK, IsTable
<1>2. (Filing(r) /\ Account(call[r]) = a)' <=> (Filing(r) /\ Account(call[r]) = a)
  BY <1>1 DEF CallsKept, Filing
<1>3. CASE r \in DOMAIN request /\ Account(request[r]) = a
  <2>1. \A x \in DOMAIN call : RefundSaved(x) /\ call[x].req = r => x # h
    BY <1>3 DEF IInv, LogsInv, RefundSaved
  <2>2. \A x \in DOMAIN call : call[x].op = "put" /\ call[x].req = r => x # h
    BY <1>3 DEF IInv, LogsInv
  <2>3. Refunding(r)' <=> Refunding(r)
    BY <1>1, <2>2 DEF Refunding, Deciding, CallsKept, PutSteps
  <2>4. QED
    BY <1>2, <2>3 DEF Kept, Outstanding, Released
<1>4. CASE ~(r \in DOMAIN request /\ Account(request[r]) = a)
  BY <1>2, <1>4 DEF Kept, Outstanding, Released
<1>5. QED
  BY <1>3, <1>4

(* POST stores its request: what the call had charged, the request has.    *)
LEMMA PostStands ==
    ASSUME IInv, BooksInv, NEW h \in Calls, PostSaveRequest(h), NEW r \in Calls, NEW a
    PROVE  Kept(r, a)
<1>1. /\ h \in DOMAIN call /\ call[h].op = "post" /\ pc[h] = "post_store"
      /\ call' = call /\ pc' = [pc EXCEPT ![h] = "post_notify"]
  BY DEF PostSaveRequest, Goto, IInv, CallsInv, PostSteps
<1>2. CallsKept(h) /\ pc'[h] = "post_notify"
  BY <1>1, MoveKeeps
<1>3. \A x \in DOMAIN call : RefundSaved(x)' <=> RefundSaved(x)
  BY <1>1, <1>2 DEF CallsKept, RefundSaved, IInv, TypeOK, IsTable
<1>4. \A x \in Calls : Refunding(x)' <=> Refunding(x)
  BY <1>1, <1>3 DEF Refunding, RefundSaved, Deciding, PutSteps
<1>5. /\ DOMAIN request' = DOMAIN request \cup {h}
      /\ request'[h].status = call[h].status /\ Account(request'[h]) = Account(call[h])
      /\ \A x \in DOMAIN request : x # h => request'[x] = request[x]
  BY <1>1 DEF PostSaveRequest, Save, Account
<1>6. CASE r # h
  <2>1. Filing(r)' <=> Filing(r)
    BY <1>1, <1>2, <1>6 DEF Filing, CallsKept
  <2>2. QED
    BY <1>1, <1>4, <1>5, <1>6, <2>1 DEF Kept, Outstanding, Released
<1>7. CASE r = h
  <2>1. /\ h \notin DOMAIN request /\ ~Refunding(h)
        /\ call[h].status \notin Refunds
    BY <1>1 DEF BooksInv, FiledInv, Filed, Refunding, Deciding
  <2>2. Filing(h) /\ ~Filing(h)'
    BY <1>1, <1>2 DEF Filing
  <2>3. QED
    BY <1>4, <1>5, <1>7, <2>1, <2>2 DEF Kept, Outstanding, Released
<1>8. QED
  BY <1>6, <1>7

(* PUT stores its decision: a refund that was saved stays so, an approval  *)
(* leaves the charge.                                                      *)
LEMMA PutStands ==
    ASSUME IInv, BooksInv, NEW h \in Calls, PutSaveRequest(h), NEW r \in Calls,
           NEW a \in Accounts, blots'[a] = {}
    PROVE  Kept(r, a)
<1> DEFINE q == call[h].req
<1>1. /\ h \in DOMAIN call /\ call[h].op = "put" /\ pc[h] = "put_store"
      /\ call' = call /\ pc' = [pc EXCEPT ![h] = "put_notify"] /\ blots' = blots
  BY DEF PutSaveRequest, Goto, IInv, CallsInv, PutSteps, NoBlame
<1>2. CallsKept(h) /\ pc'[h] = "put_notify"
  BY <1>1, MoveKeeps
<1>3. /\ DOMAIN request' = DOMAIN request \cup {q}
      /\ request'[q].status = call[h].status /\ Account(request'[q]) = Account(call[h])
      /\ \A x \in DOMAIN request : x # q => request'[x] = request[x]
  BY <1>1 DEF PutSaveRequest, Save, Account
<1>4. \A x \in Calls : Filing(x)' <=> Filing(x)
  BY <1>1, <1>2 DEF Filing, CallsKept
<1>5. CASE r # q
  <2>1. Refunding(r)' <=> Refunding(r)
    BY <1>1, <1>2, <1>5 DEF Refunding, Deciding, PutSteps, CallsKept, IInv, TypeOK, IsTable
  <2>2. QED
    BY <1>1, <1>3, <1>4, <1>5, <2>1 DEF Kept, Outstanding, Released
<1>6. CASE r = q /\ a # Account(call[h])
  <2>1. q \in DOMAIN request => Account(request[q]) = Account(call[h])
    BY <1>1 DEF IInv, LogsInv
  <2>2. QED
    BY <1>1, <1>3, <1>4, <1>6, <2>1 DEF Kept, Outstanding, Released
<1>7. CASE r = q /\ a = Account(call[h])
  <2>1. h \in Deciding(q) /\ blots[a] = {}
    BY <1>1 DEF Deciding, PutSteps
  <2>2. /\ q \in DOMAIN request /\ request[q].status \notin Refunds
        /\ \A g \in Deciding(q) : g = h
    BY <1>1, <1>7, <2>1 DEF BooksInv, DecidedInv, DecidedWell
  <2>3. Account(request[q]) = a
    BY <1>1, <1>7, <2>2 DEF IInv, LogsInv
  <2>4. ~Filing(q)
    BY <1>1 DEF Filing, BooksInv, FiledInv, Filed
  <2>5. Refunding(q) <=> call[h].status \in Refunds
    BY <1>1, <2>1, <2>2 DEF Refunding
  <2>6. ~Refunding(q)'
    BY <1>1, <1>2, <2>2 DEF Refunding, Deciding, PutSteps, CallsKept, IInv, TypeOK, IsTable
  <2>7. QED
    BY <1>1, <1>3, <1>4, <1>7, <2>2, <2>3, <2>4, <2>5, <2>6 DEF Kept, Outstanding, Released
<1>8. QED
  BY <1>5, <1>6, <1>7

(* A request is deleted: that disturbs its account, and no other has it.   *)
LEMMA DeleteStands ==
    ASSUME IInv, NEW d \in Calls, DeleteRequest(d), NEW r \in Calls,
           NEW a \in Accounts, blots'[a] = {}
    PROVE  Kept(r, a)
<1>1. /\ d \in DOMAIN request /\ call' = call /\ pc' = pc
      /\ Blame({Account(request[d])}, {"deleted"})
  BY DEF DeleteRequest
<1>2. a # Account(request[d])
  BY <1>1, BlameGrows DEF IInv
<1>3. /\ DOMAIN request' = DOMAIN request \ {d}
      /\ \A x \in DOMAIN request : x # d => request'[x] = request[x]
  BY DEF DeleteRequest, Delete
<1>4. (Filing(r)' <=> Filing(r)) /\ (Refunding(r)' <=> Refunding(r))
  BY <1>1 DEF Filing, Refunding, Deciding
<1>5. QED
  BY <1>1, <1>2, <1>3, <1>4 DEF Kept, Outstanding, Released

(* A call touches no request but its own.                                  *)
LEMMA StandsBeside ==
    ASSUME IInv, NEW r \in Calls, NEW a, NEW h \in DOMAIN call, CallsKept(h), request' = request,
           call[h].op = "put" \/ call[h].op = "post", r # call[h].req
    PROVE  Kept(r, a)
<1>1. h \in Calls /\ DOMAIN call \subseteq Calls /\ DOMAIN call' = DOMAIN call
  BY DEF CallsKept, IInv, TypeOK, IsTable
<1>2. Filing(r)' <=> Filing(r)
  BY <1>1 DEF CallsKept, Filing, IInv, CallsInv
<1>3. Refunding(r)' <=> Refunding(r)
  BY <1>1 DEF Refunding, Deciding, CallsKept, PutSteps
<1>4. QED
  BY <1>1, <1>2, <1>3 DEF Kept, Outstanding, Released, CallsKept, Filing

(* The two steps that do change a standing: the charge of request r to     *)
(* account a, and its refund.                                              *)
Charges(r, a) == PostSaveBalance(r) /\ a = Account(call[r])

Refunded(r, a) ==
    \E h \in Calls : /\ PutSaveBalance(h) /\ call[h].status \in Refunds
                     /\ call[h].req = r /\ a = Account(call[h])

LEMMA Stands ==
    ASSUME IInv, BooksInv, [Next]_vars, NEW r \in Calls, NEW a \in Accounts, blots'[a] = {}
    PROVE  Kept(r, a) \/ Charges(r, a) \/ Refunded(r, a)
<1>1. ASSUME NEW h \in Calls, PostReadEmployee(h) PROVE Kept(r, a)
  <2>1. CallsKept(h) /\ pc'[h] = "post_read" /\ h \notin DOMAIN call
    BY <1>1, BeginKeeps DEF PostReadEmployee
  <2>2. QED
    BY <1>1, <2>1, MoveStands DEF PostReadEmployee, tables, Filing, RefundSaved
<1>2. ASSUME NEW h \in Calls, PostReadBalance(h) PROVE Kept(r, a)
  BY <1>2, GotoStands DEF PostReadBalance, tables, Charging
<1>3. ASSUME NEW h \in Calls, PostSaveBalance(h) PROVE Kept(r, a) \/ Charges(r, a)
  <2>1. /\ h \in DOMAIN call /\ call[h].op = "post" /\ call[h].req = h
        /\ CallsKept(h) /\ request' = request
    BY <1>3, MoveKeeps DEF PostSaveBalance, Goto, IInv, CallsInv, PostSteps
  <2>2. CASE r # h
    BY <2>1, <2>2, StandsBeside
  <2>3. CASE a # Account(call[h])
    BY <2>1, <2>3, StandsElsewhere
  <2>4. QED
    BY <1>3, <2>2, <2>3 DEF Charges
<1>4. ASSUME NEW h \in Calls, PostSaveHistory(h) PROVE Kept(r, a)
  BY <1>4, GotoStands DEF PostSaveHistory, Charging
<1>5. ASSUME NEW h \in Calls, PostSaveRequest(h) PROVE Kept(r, a)
  BY <1>5, PostStands
<1>6. ASSUME NEW h \in Calls, PostUnknownEmployee(h) PROVE Kept(r, a)
  <2>1. h \in DOMAIN call /\ CallsKept(h) /\ request' = request
    BY <1>6, MoveKeeps DEF PostUnknownEmployee, tables, Goto, IInv, CallsInv
  <2>2. a # Account(call[h])
    BY <1>6, BlameGrows DEF PostUnknownEmployee, IInv
  <2>3. QED
    BY <2>1, <2>2, StandsElsewhere
<1>7. ASSUME NEW h \in Calls, PostNotify(h) PROVE Kept(r, a)
  <2>1. PICK end \in {"done", "failed"} : Goto(h, "post_notify", end)
    BY <1>7 DEF PostNotify
  <2>2. QED
    BY <1>7, <2>1, GotoStands DEF PostNotify, Charging
<1>8. ASSUME NEW h \in Calls, PutReadRequest(h) PROVE Kept(r, a)
  <2>1. CallsKept(h) /\ pc'[h] = "put_read" /\ h \notin DOMAIN call
    BY <1>8, BeginKeeps DEF PutReadRequest
  <2>2. QED
    BY <1>8, <2>1, MoveStands DEF PutReadRequest, tables, Filing, RefundSaved
<1>9. ASSUME NEW h \in Calls, PutReadBalance(h) PROVE Kept(r, a)
  BY <1>9, GotoStands DEF PutReadBalance, tables, Charging
<1>10. ASSUME NEW h \in Calls, PutSaveHistory(h) PROVE Kept(r, a)
  BY <1>10, GotoStands DEF PutSaveHistory, Charging
<1>11. ASSUME NEW h \in Calls, PutSaveBalance(h) PROVE Kept(r, a) \/ Refunded(r, a)
  <2>1. /\ h \in DOMAIN call /\ call[h].op = "put" /\ pc[h] = "put_balance"
        /\ CallsKept(h) /\ request' = request /\ call' = call /\ pc'[h] = "put_store"
    BY <1>11, MoveKeeps DEF PutSaveBalance, Goto, IInv, CallsInv, PutSteps
  <2>2. CASE call[h].status \notin Refunds
    BY <2>1, <2>2, MoveStands DEF Filing, RefundSaved
  <2>3. CASE r # call[h].req
    BY <2>1, <2>3, StandsBeside
  <2>4. CASE a # Account(call[h])
    BY <2>1, <2>4, StandsElsewhere
  <2>5. QED
    BY <1>11, <2>2, <2>3, <2>4 DEF Refunded
<1>12. ASSUME NEW h \in Calls, PutNoBalance(h) PROVE Kept(r, a)
  <2>1. h \in DOMAIN call /\ CallsKept(h) /\ request' = request
    BY <1>12, MoveKeeps DEF PutNoBalance, tables, Goto, IInv, CallsInv
  <2>2. a # Account(call[h])
    BY <1>12, BlameGrows DEF PutNoBalance, IInv
  <2>3. QED
    BY <2>1, <2>2, StandsElsewhere
<1>13. ASSUME NEW h \in Calls, PutSaveRequest(h) PROVE Kept(r, a)
  BY <1>13, PutStands
<1>14. ASSUME NEW h \in Calls, PutNotify(h) PROVE Kept(r, a)
  BY <1>14, GotoStands DEF PutNotify, tables, Charging
<1>15. ASSUME NEW h \in Calls, AdjReadBalance(h) PROVE Kept(r, a)
  <2>1. PICK b \in DOMAIN balance :
          call' = Save(call, h, Asks("adjust", balance[b].emp, balance[b].cat, h, "manual", TRUE))
    BY <1>15 DEF AdjReadBalance
  <2>2. CallsKept(h) /\ pc'[h] = "adj_log" /\ h \notin DOMAIN call
    BY <1>15, <2>1, BeginKeeps DEF AdjReadBalance
  <2>3. QED
    BY <1>15, <2>2, MoveStands DEF AdjReadBalance, tables, Filing, RefundSaved
<1>16. ASSUME NEW h \in Calls, AdjSaveHistory(h) PROVE Kept(r, a)
  BY <1>16, GotoStands DEF AdjSaveHistory, Charging
<1>17. ASSUME NEW h \in Calls, AdjSaveBalance(h) PROVE Kept(r, a)
  BY <1>17, GotoStands DEF AdjSaveBalance, Charging
<1>18. ASSUME NEW h \in Calls, Abort(h) PROVE Kept(r, a)
  <2>1. pc[h] # "idle" /\ pc' = [pc EXCEPT ![h] = "failed"] /\ call' = call /\ request' = request
    BY <1>18 DEF Abort, tables, InFlight, PostSteps, PutSteps, AdjSteps
  <2>2. h \in DOMAIN call /\ CallsKept(h) /\ pc'[h] = "failed"
    BY <2>1, MoveKeeps DEF IInv, CallsInv
  <2>3. CASE pc[h] \in {"post_log", "post_store", "put_balance", "put_store", "adj_save"}
    <3>1. a # Account(call[h])
      BY <1>18, <2>3, BlameGrows DEF Abort, IInv
    <3>2. QED
      BY <2>1, <2>2, <3>1, StandsElsewhere
  <2>4. CASE pc[h] \notin {"post_log", "post_store", "put_balance", "put_store", "adj_save"}
    <3>1. (Filing(h)' <=> Filing(h)) /\ (RefundSaved(h)' <=> RefundSaved(h))
      BY <2>2, <2>4 DEF Filing, RefundSaved
    <3>2. QED
      BY <2>1, <2>2, <3>1, MoveStands
  <2>5. QED
    BY <2>3, <2>4
<1>19. ASSUME NEW d \in Calls, DeleteRequest(d) PROVE Kept(r, a)
  BY <1>19, DeleteStands
<1>20. CASE Categorise \/ UNCHANGED vars \/ \E e \in Employees : ChangeEmployeeStatus(e)
  <2>1. request' = request /\ call' = call /\ pc' = pc
    BY <1>20 DEF Categorise, OpenBalance, SaveCategories, DeleteCategory, ChangeEmployeeStatus,
       vars, tables
  <2>2. QED
    BY <2>1, StandKept DEF Filing, RefundSaved
<1>21. QED
  BY <1>1, <1>2, <1>3, <1>4, <1>5, <1>6, <1>7, <1>8, <1>9, <1>10, <1>11, <1>12, <1>13,
     <1>14, <1>15, <1>16, <1>17, <1>18, <1>19, <1>20 DEF Next, Post, Put, Adjust

(* The charge: the request stood nowhere, and is outstanding.              *)
LEMMA ChargeStands ==
    ASSUME IInv, BooksInv, NEW r \in Calls, NEW a \in Accounts, Charges(r, a)
    PROVE  /\ ~Outstanding(r, a) /\ ~Released(r, a)
           /\ Outstanding(r, a)' /\ ~Released(r, a)'
<1>1. /\ pc[r] = "post_charge" /\ r \in DOMAIN call /\ call[r].op = "post"
      /\ call' = call /\ request' = request /\ pc'[r] = "post_log"
  BY DEF Charges, PostSaveBalance, Goto, IInv, CallsInv, PostSteps, TypeOK
<1>2. r \notin DOMAIN request
  BY <1>1 DEF BooksInv, FiledInv, Filed
<1>3. ~Filing(r) /\ Filing(r)' /\ Account(call'[r]) = a
  BY <1>1 DEF Filing, Charges
<1>4. QED
  BY <1>1, <1>2, <1>3 DEF Outstanding, Released

(* The refund: the request was outstanding, and is released.               *)
LEMMA RefundStands ==
    ASSUME IInv, BooksInv, NEW r \in Calls, NEW a \in Accounts, blots'[a] = {}, Refunded(r, a)
    PROVE  /\ Outstanding(r, a) /\ ~Released(r, a)
           /\ ~Outstanding(r, a)' /\ Released(r, a)'
<1>1. PICK h \in Calls : /\ PutSaveBalance(h) /\ call[h].status \in Refunds
                         /\ call[h].req = r /\ a = Account(call[h])
  BY DEF Refunded
<1>2. /\ pc[h] = "put_balance" /\ h \in DOMAIN call /\ call[h].op = "put"
      /\ call' = call /\ request' = request /\ pc' = [pc EXCEPT ![h] = "put_store"]
      /\ CallsKept(h) /\ pc'[h] = "put_store"
  BY <1>1, MoveKeeps DEF PutSaveBalance, Goto, IInv, CallsInv, PutSteps
<1>3. blots[a] = {}
  BY <1>1, BlameGrows DEF PutSaveBalance, SaveBalance, IInv
<1>4. h \in Deciding(r)
  BY <1>1, <1>2 DEF Deciding, PutSteps
<1>5. /\ r \in DOMAIN request /\ request[r].status \notin Refunds
      /\ \A g \in Deciding(r) : g = h
  BY <1>1, <1>2, <1>3, <1>4 DEF BooksInv, DecidedInv, DecidedWell
<1>6. Account(request[r]) = a
  BY <1>1, <1>2, <1>5 DEF IInv, LogsInv
<1>7. ~Refunding(r) /\ Refunding(r)'
  <2>1. ~Refunding(r)
    BY <1>2, <1>5 DEF Refunding
  <2>2. h \in Deciding(r)'
    BY <1>1, <1>2 DEF Deciding, PutSteps
  <2>3. QED
    BY <1>1, <1>2, <2>1, <2>2 DEF Refunding
<1>8. ~Filing(r)'
  <2>1. pc[r] \in Filed
    BY <1>1, <1>2 DEF BooksInv, FiledInv
  <2>2. QED
    BY <1>2, <2>1 DEF Filing, Filed, CallsKept
<1>9. QED
  BY <1>2, <1>5, <1>6, <1>7, <1>8 DEF Outstanding, Released
-----------------------------------------------------------------------------
(* On an account that stays undisturbed the unit of its category is fixed. *)
LEMMA UnitKept ==
    ASSUME IInv, [Next]_vars, NEW a \in Accounts, "unitEdited" \notin blots'[a]
    PROVE  unit'[a[2]] = unit[a[2]]
<1>1. CASE unit' = unit
  BY <1>1
<1>2. CASE \E cs \in SUBSET Categories : \E timeUnit \in [cs -> Units] :
             SaveCategories(timeUnit)
  <2>1. PICK cs \in SUBSET Categories : \E timeUnit \in [cs -> Units] : SaveCategories(timeUnit)
    BY <1>2
  <2>2. PICK timeUnit \in [cs -> Units] : SaveCategories(timeUnit)
    BY <2>1
  <2>3. a \notin Employees \X {c \in DOMAIN timeUnit : timeUnit[c] # unit[c]}
    BY <2>2, BlameGrows DEF SaveCategories, IInv
  <2>4. QED
    BY <2>2, <2>3 DEF SaveCategories, Accounts
<1>3. unit' = unit \/ \E cs \in SUBSET Categories : \E timeUnit \in [cs -> Units] :
                         SaveCategories(timeUnit)
  BY DEF Next, vars, tables, Post, Put, Adjust, Categorise, PostReadEmployee, PostReadBalance,
     PostSaveBalance, PostSaveHistory, PostSaveRequest, PostUnknownEmployee, PostNotify,
     PutReadRequest, PutReadBalance, PutSaveHistory, PutSaveBalance, PutNoBalance,
     PutSaveRequest, PutNotify, AdjReadBalance, AdjSaveHistory, AdjSaveBalance, Abort,
     DeleteRequest, ChangeEmployeeStatus, OpenBalance, DeleteCategory
<1>4. QED
  BY <1>1, <1>2, <1>3

(* Charging a copy adds to one number of used.                             *)
LEMMA AddValue ==
    ASSUME NEW used \in [Calls -> [Units -> Int]],
           NEW r \in Calls, NEW u \in Units, NEW n \in Int, NEW x \in Calls, NEW v \in Units
    PROVE  Add(used, r, u, n)[x][v] = used[x][v] + (IF x = r /\ v = u THEN n ELSE 0)
<1> DEFINE g == [used[r] EXCEPT ![u] = used[r][u] + n]
<1>1. g[v] = used[r][v] + (IF v = u THEN n ELSE 0)
  OBVIOUS
<1> HIDE DEF g
<1>2. [used EXCEPT ![r] = g][x][v] = IF x = r THEN g[v] ELSE used[x][v]
  OBVIOUS
<1>3. used[x][v] \in Int
  OBVIOUS
<1>4. QED
  BY <1>1, <1>2, <1>3 DEF Add, g

LEMMA ChargedValue ==
    ASSUME TypeOK, NEW h \in DOMAIN row, h \in DOMAIN call, NEW n \in Int,
           NEW x \in Calls, NEW v \in Units
    PROVE  Charged(h, n).used[x][v] =
               row[h].data.used[x][v] + (IF x = call[h].req /\ v = row[h].unit THEN n ELSE 0)
<1>1. /\ row[h].data.used \in [Calls -> [Units -> Int]]
      /\ call[h].req \in Calls /\ row[h].unit \in Units
  BY CopyFields, CallFields DEF BalanceRow
<1>2. Charged(h, n).used = Add(row[h].data.used, call[h].req, row[h].unit, n)
  BY CopyFields DEF Charged, BalanceRow
<1>3. QED
  BY <1>1, <1>2, AddValue

(* A save onto an account that stays undisturbed undoes nothing, and finds *)
(* the account's only row.                                                 *)
LEMMA CleanSave ==
    ASSUME IInv, NEW h \in DOMAIN row, NEW data, SaveBalance(h, data),
           Account(data) = Account(row[h].data), "lostUpdate" \notin blots'[Account(call[h])]
    PROVE  /\ balance[row[h].id] = row[h].data
           /\ DOMAIN balance' = DOMAIN balance
           /\ balance'[row[h].id] = data
           /\ \A b \in DOMAIN balance : b # row[h].id => balance'[b] = balance[b]
           /\ \A b \in DOMAIN balance : Account(balance'[b]) = Account(balance[b])
<1>1. h \in DOMAIN call /\ row[h].id \in DOMAIN balance
      /\ Account(row[h].data) = Account(call[h])
      /\ Account(balance[row[h].id]) = Account(call[h])
  BY DEF IInv, RowsInv
<1>2. balance[row[h].id] = row[h].data
  BY <1>1, CallFields, BlameGrows DEF SaveBalance, IInv
<1>3. QED
  BY <1>1, <1>2, SaveBalanceRow

-----------------------------------------------------------------------------
(* The rows that were copied stay copied, and those of other calls stay as *)
(* they are.                                                               *)
LEMMA CopiesKept ==
    ASSUME IInv, NEW h \in DOMAIN call, row' = row \/ ReadBalance(h, Joined(call[h].emp, call[h].cat))
    PROVE  /\ DOMAIN row \subseteq DOMAIN row' /\ DOMAIN row' \subseteq DOMAIN row \cup {h}
           /\ \A x \in DOMAIN row : x # h => row'[x] = row[x]
  BY ReadBalanceRow

LEMMA FiledStep ==
    ASSUME IInv, FiledInv, [Next]_vars
    PROVE  FiledInv'
<1>1. ASSUME NEW h \in Calls, PostReadEmployee(h) PROVE FiledInv'
  <2>1. PICK c : call' = Save(call, h, c) /\ c.op = "post" /\ c.status \notin Refunds
    BY <1>1 DEF PostReadEmployee, Asks, Refunds
  <2>2. CallsKept(h) /\ pc'[h] = "post_read" /\ h \notin DOMAIN call /\ pc[h] = "idle" /\ call'[h] = c
    BY <1>1, <2>1, BeginKeeps DEF PostReadEmployee, Goto
  <2>3. request' = request /\ history' = history /\ row' = row
    BY <1>1 DEF PostReadEmployee, tables
  <2>4. QED
    BY <2>1, <2>2, <2>3, CallFields, RequestFields DEF CallsKept, FiledInv, Filed, IInv
<1>2. ASSUME NEW h \in Calls, PostReadBalance(h) PROVE FiledInv'
  <2>1. /\ h \in DOMAIN call /\ call' = call /\ pc[h] = "post_read" /\ pc'[h] \in {"post_charge", "failed"}
        /\ \A x \in Calls : x # h => pc'[x] = pc[x]
        /\ row' = row \/ ReadBalance(h, Joined(call[h].emp, call[h].cat))
        /\ request' = request /\ history' = history
    BY <1>2 DEF PostReadBalance, Goto, tables, IInv, CallsInv, TypeOK
  <2>2. DOMAIN row \subseteq DOMAIN row'
    BY <2>1, CopiesKept
  <2>3. QED
    BY <2>1, <2>2, CallFields, RequestFields DEF FiledInv, Filed, IInv
<1>3. ASSUME NEW h \in Calls, PostSaveBalance(h) PROVE FiledInv'
  BY <1>3 DEF PostSaveBalance, FiledInv, Filed, IInv, TypeOK, RowsInv, Goto
<1>4. ASSUME NEW h \in Calls, PostSaveHistory(h) PROVE FiledInv'
  <2>1. /\ h \in DOMAIN call /\ pc[h] = "post_log" /\ pc' = [pc EXCEPT ![h] = "post_store"]
        /\ call' = call /\ row' = row /\ request' = request
        /\ history'[h].action = call[h].status
        /\ \A x \in DOMAIN history : x # h => history'[x] = history[x]
    BY <1>4 DEF PostSaveHistory, SaveHistory, Save, Goto, IInv, CallsInv
  <2>2. QED
    BY <2>1, CallFields DEF FiledInv, Filed, IInv, LogsInv, TypeOK
<1>5. ASSUME NEW h \in Calls, PostSaveRequest(h) PROVE FiledInv'
  BY <1>5 DEF PostSaveRequest, FiledInv, Filed, IInv, TypeOK, CallsInv, LogsInv, Goto, tables, Save, Delete, Asks,
     SaveHistory, PostSteps, PutSteps, AdjSteps, InFlight
<1>6. ASSUME NEW h \in Calls, PostUnknownEmployee(h) PROVE FiledInv'
  BY <1>6 DEF PostUnknownEmployee, FiledInv, Filed, IInv, TypeOK, CallsInv, LogsInv, Goto, tables, Save, Delete, Asks,
     SaveHistory, PostSteps, PutSteps, AdjSteps, InFlight
<1>7. ASSUME NEW h \in Calls, PostNotify(h) PROVE FiledInv'
  BY <1>7 DEF PostNotify, FiledInv, Filed, IInv, TypeOK, CallsInv, LogsInv, Goto, tables, Save, Delete, Asks,
     SaveHistory, PostSteps, PutSteps, AdjSteps, InFlight
<1>8. ASSUME NEW h \in Calls, PutReadRequest(h) PROVE FiledInv'
  BY <1>8 DEF PutReadRequest, FiledInv, Filed, IInv, TypeOK, CallsInv, LogsInv, Goto, tables, Save, Delete, Asks,
     SaveHistory, PostSteps, PutSteps, AdjSteps, InFlight
<1>9. ASSUME NEW h \in Calls, PutReadBalance(h) PROVE FiledInv'
  <2>1. /\ h \in DOMAIN call /\ call' = call /\ pc[h] = "put_read" /\ pc'[h] \in {"put_log", "failed"}
        /\ \A x \in Calls : x # h => pc'[x] = pc[x]
        /\ row' = row \/ ReadBalance(h, Joined(call[h].emp, call[h].cat))
        /\ request' = request /\ history' = history
    BY <1>9 DEF PutReadBalance, Goto, tables, IInv, CallsInv, TypeOK
  <2>2. DOMAIN row \subseteq DOMAIN row'
    BY <2>1, CopiesKept
  <2>3. QED
    BY <2>1, <2>2, CallFields, RequestFields DEF FiledInv, Filed, IInv
<1>10. ASSUME NEW h \in Calls, PutSaveHistory(h) PROVE FiledInv'
  BY <1>10 DEF PutSaveHistory, FiledInv, Filed, IInv, TypeOK, CallsInv, LogsInv, Goto, tables, Save, Delete, Asks,
     SaveHistory, PostSteps, PutSteps, AdjSteps, InFlight
<1>11. ASSUME NEW h \in Calls, PutSaveBalance(h) PROVE FiledInv'
  BY <1>11 DEF PutSaveBalance, FiledInv, Filed, IInv, TypeOK, CallsInv, LogsInv, Goto, tables, Save, Delete, Asks,
     SaveHistory, PostSteps, PutSteps, AdjSteps, InFlight
<1>12. ASSUME NEW h \in Calls, PutNoBalance(h) PROVE FiledInv'
  BY <1>12 DEF PutNoBalance, FiledInv, Filed, IInv, TypeOK, CallsInv, LogsInv, Goto, tables, Save, Delete, Asks,
     SaveHistory, PostSteps, PutSteps, AdjSteps, InFlight
<1>13. ASSUME NEW h \in Calls, PutSaveRequest(h) PROVE FiledInv'
  BY <1>13 DEF PutSaveRequest, FiledInv, Filed, IInv, TypeOK, CallsInv, LogsInv, Goto, tables, Save, Delete, Asks,
     SaveHistory, PostSteps, PutSteps, AdjSteps, InFlight
<1>14. ASSUME NEW h \in Calls, PutNotify(h) PROVE FiledInv'
  BY <1>14 DEF PutNotify, FiledInv, Filed, IInv, TypeOK, CallsInv, LogsInv, Goto, tables, Save, Delete, Asks,
     SaveHistory, PostSteps, PutSteps, AdjSteps, InFlight
<1>15. ASSUME NEW h \in Calls, AdjReadBalance(h) PROVE FiledInv'
  BY <1>15 DEF AdjReadBalance, FiledInv, Filed, IInv, TypeOK, CallsInv, LogsInv, Goto, tables, Save, Delete, Asks,
     SaveHistory, PostSteps, PutSteps, AdjSteps, InFlight
<1>16. ASSUME NEW h \in Calls, AdjSaveHistory(h) PROVE FiledInv'
  BY <1>16 DEF AdjSaveHistory, FiledInv, Filed, IInv, TypeOK, CallsInv, LogsInv, Goto, tables, Save, Delete, Asks,
     SaveHistory, PostSteps, PutSteps, AdjSteps, InFlight
<1>17. ASSUME NEW h \in Calls, AdjSaveBalance(h) PROVE FiledInv'
  BY <1>17 DEF AdjSaveBalance, FiledInv, Filed, IInv, TypeOK, CallsInv, LogsInv, Goto, tables, Save, Delete, Asks,
     SaveHistory, PostSteps, PutSteps, AdjSteps, InFlight
<1>18. ASSUME NEW h \in Calls, Abort(h) PROVE FiledInv'
  BY <1>18 DEF Abort, FiledInv, Filed, IInv, TypeOK, CallsInv, LogsInv, Goto, tables, Save, Delete, Asks,
     SaveHistory, PostSteps, PutSteps, AdjSteps, InFlight
<1>19. ASSUME NEW h \in Calls, DeleteRequest(h) PROVE FiledInv'
  BY <1>19 DEF DeleteRequest, FiledInv, Filed, IInv, TypeOK, CallsInv, LogsInv, Goto, tables, Save, Delete, Asks,
     SaveHistory, PostSteps, PutSteps, AdjSteps, InFlight
<1>20. CASE Categorise \/ UNCHANGED vars \/ \E e \in Employees : ChangeEmployeeStatus(e)
  BY <1>20 DEF Categorise, OpenBalance, SaveCategories, DeleteCategory, ChangeEmployeeStatus,
     vars, tables, FiledInv
<1>21. QED
  BY <1>1, <1>2, <1>3, <1>4, <1>5, <1>6, <1>7, <1>8, <1>9, <1>10, <1>11, <1>12, <1>13,
     <1>14, <1>15, <1>16, <1>17, <1>18, <1>19, <1>20 DEF Next, Post, Put, Adjust

(* A copied row counts in the unit its category has, or had before an      *)
(* edit.                                                                   *)
LEMMA UnitsKept ==
    ASSUME IInv, UnitsInv, [Next]_vars, \A x \in DOMAIN call : call'[x] = call[x],
           NEW x \in DOMAIN row, row'[x] = row[x]
    PROVE  LET a == Account(call'[x]) IN
           "unitEdited" \in blots'[a] \/ row'[x].unit = unit'[a[2]]
<1>1. x \in DOMAIN call /\ Account(call[x]) \in Accounts /\ call'[x] = call[x]
  BY CallFields DEF IInv, RowsInv
<1>2. CASE "unitEdited" \in blots'[Account(call[x])]
  BY <1>1, <1>2
<1>3. CASE "unitEdited" \notin blots'[Account(call[x])]
  BY <1>1, <1>3, UnitKept, BlotsGrow DEF UnitsInv
<1>4. QED
  BY <1>2, <1>3

LEMMA UnitsStep ==
    ASSUME IInv, UnitsInv, [Next]_vars
    PROVE  UnitsInv'
<1>1. ASSUME NEW h \in Calls, PostReadBalance(h) \/ PutReadBalance(h) PROVE UnitsInv'
  <2>1. /\ h \in DOMAIN call /\ call' = call /\ unit' = unit
        /\ row' = row \/ ReadBalance(h, Joined(call[h].emp, call[h].cat))
    BY <1>1 DEF PostReadBalance, PutReadBalance, Goto, IInv, CallsInv
  <2>2. \A x \in DOMAIN row : x # h => row'[x] = row[x]
    BY <2>1, CopiesKept
  <2>3. h \in DOMAIN row' => row'[h].unit = unit[call[h].cat] \/ row' = row
    BY <2>1 DEF ReadBalance, Save
  <2>4. QED
    BY <2>1, <2>2, <2>3, CopiesKept, UnitsKept DEF UnitsInv, Account
<1>2. ASSUME NEW h \in Calls, AdjReadBalance(h) PROVE UnitsInv'
  <2>1. PICK b \in DOMAIN balance :
          /\ call' = Save(call, h, Asks("adjust", balance[b].emp, balance[b].cat, h, "manual", TRUE))
          /\ row' = Save(row, h, [id |-> b, data |-> balance[b], unit |-> unit[balance[b].cat]])
    BY <1>2 DEF AdjReadBalance
  <2>2. h \notin DOMAIN call /\ unit' = unit
    BY <1>2 DEF AdjReadBalance, Goto, IInv, CallsInv
  <2>3. /\ \A x \in DOMAIN call : call'[x] = call[x]
        /\ \A x \in DOMAIN row : x # h => row'[x] = row[x]
        /\ DOMAIN row' = DOMAIN row \cup {h}
        /\ row'[h].unit = unit[balance[b].cat] /\ call'[h].cat = balance[b].cat
    BY <2>1, <2>2 DEF Save, Asks
  <2>4. QED
    BY <2>2, <2>3, UnitsKept DEF UnitsInv, Account
<1>3. ASSUME NEW h \in Calls, PostReadEmployee(h) \/ PutReadRequest(h) PROVE UnitsInv'
  <2>1. row' = row /\ h \notin DOMAIN call /\ \E c : call' = Save(call, h, c)
    BY <1>3 DEF PostReadEmployee, PutReadRequest, Goto, IInv, CallsInv
  <2>2. \A x \in DOMAIN call : call'[x] = call[x]
    BY <2>1 DEF Save
  <2>3. QED
    BY <2>1, <2>2, UnitsKept DEF UnitsInv
<1>4. CASE call' = call /\ row' = row
  BY <1>4, UnitsKept DEF UnitsInv
<1>5. QED
  BY <1>1, <1>2, <1>3, <1>4 DEF Next, vars, tables, Post, Put, Adjust, Categorise,
     PostSaveBalance, PostSaveHistory, PostSaveRequest, PostUnknownEmployee, PostNotify,
     PutSaveHistory, PutSaveBalance, PutNoBalance, PutSaveRequest, PutNotify,
     AdjSaveHistory, AdjSaveBalance, Abort, DeleteRequest, ChangeEmployeeStatus, OpenBalance,
     DeleteCategory, SaveCategories

(* What is known of a decision stays known while the tables it depends on  *)
(* stay as they are.                                                       *)
LEMMA DecidedKept ==
    ASSUME IInv, DecidedInv, [Next]_vars, request' = request, history' = history,
           DOMAIN call \subseteq DOMAIN call', \A x \in DOMAIN call : call'[x] = call[x],
           \A x \in DOMAIN call' : call'[x].op = "put" /\ pc'[x] \in PutSteps =>
               /\ x \in DOMAIN call /\ pc[x] \in PutSteps
               /\ pc'[x] \in {"put_balance", "put_store"} => pc[x] \in {"put_balance", "put_store"}
               /\ pc[x] = "put_notify" => pc'[x] = "put_notify"
    PROVE  DecidedInv'
<1> SUFFICES ASSUME NEW r \in Calls, NEW h \in Deciding(r)'
             PROVE  DecidedWell(r, h)'
  BY DEF DecidedInv
<1>1. h \in Deciding(r) /\ call'[h] = call[h] /\ Deciding(r)' \subseteq Deciding(r)
  BY DEF Deciding
<1>2. Account(call[h]) \in Accounts
  BY <1>1, CallFields DEF Deciding, IInv
<1>3. blots[Account(call[h])] \subseteq blots'[Account(call[h])]
  BY <1>2, BlotsGrow
<1>4. h \in DOMAIN call' /\ call'[h].op = "put" /\ pc'[h] \in PutSteps
  BY DEF Deciding
<1>5. QED
  BY <1>1, <1>3, <1>4 DEF DecidedInv, DecidedWell

(* The history of a request under decision is written by its decisions     *)
(* only, and its row, while it is undecided, by nobody else.               *)
LEMMA DecidedHistory ==
    ASSUME IInv, DecidedInv, FiledInv, [Next]_vars, NEW w \in DOMAIN call, request' = request,
           call' = call, \A x \in Calls : x # w => pc'[x] = pc[x],
           pc[w] \in {"post_log", "adj_log"}, pc'[w] \in {"post_store", "adj_save"},
           \A x \in DOMAIN history : x # w => history'[x] = history[x]
    PROVE  DecidedInv'
<1> SUFFICES ASSUME NEW r \in Calls, NEW h \in Deciding(r)'
             PROVE  DecidedWell(r, h)'
  BY DEF DecidedInv
<1>1. h \in DOMAIN call /\ call[h].op = "put" /\ call[h].req = r /\ h # w
  BY DEF Deciding, IInv, CallsInv, PostSteps, AdjSteps, PutSteps
<1>2. pc'[h] = pc[h] /\ h \in Deciding(r) /\ Deciding(r)' \subseteq Deciding(r)
  BY <1>1, CallFields DEF Deciding, IInv, CallsInv, PostSteps, AdjSteps, PutSteps
<1>3. r # w /\ r \in DOMAIN history
  BY <1>1 DEF FiledInv, Filed, IInv, LogsInv
<1>4. blots[Account(call[h])] \subseteq blots'[Account(call[h])]
  BY <1>1, CallFields, BlotsGrow DEF IInv
<1>5. QED
  BY <1>2, <1>3, <1>4 DEF DecidedInv, DecidedWell

LEMMA DecidedStep ==
    ASSUME IInv, FiledInv, DecidedInv, [Next]_vars
    PROVE  DecidedInv'
<1>1. ASSUME NEW h \in Calls, PostReadEmployee(h) PROVE DecidedInv'
  <2>1. PICK c : call' = Save(call, h, c) /\ c.op = "post"
    BY <1>1 DEF PostReadEmployee, Asks
  <2>2. CallsKept(h) /\ h \notin DOMAIN call /\ call'[h] = c /\ request' = request /\ history' = history
    BY <1>1, <2>1, BeginKeeps DEF PostReadEmployee, tables
  <2>3. QED
    BY <2>1, <2>2, CallFields, DecidedKept DEF CallsKept, IInv
<1>2. ASSUME NEW h \in Calls, AdjReadBalance(h) PROVE DecidedInv'
  <2>1. PICK c : call' = Save(call, h, c) /\ c.op = "adjust"
    BY <1>2 DEF AdjReadBalance, Asks
  <2>2. CallsKept(h) /\ h \notin DOMAIN call /\ call'[h] = c /\ request' = request /\ history' = history
    BY <1>2, <2>1, BeginKeeps DEF AdjReadBalance, tables
  <2>3. QED
    BY <2>1, <2>2, CallFields, DecidedKept DEF CallsKept, IInv
<1>3. ASSUME NEW h \in Calls, PostSaveHistory(h) \/ AdjSaveHistory(h) PROVE DecidedInv'
  <2>1. /\ h \in DOMAIN call /\ call' = call /\ request' = request
        /\ \A x \in Calls : x # h => pc'[x] = pc[x]
        /\ pc[h] \in {"post_log", "adj_log"} /\ pc'[h] \in {"post_store", "adj_save"}
        /\ \A x \in DOMAIN history : x # h => history'[x] = history[x]
    BY <1>3 DEF PostSaveHistory, AdjSaveHistory, SaveHistory, Save, Goto, IInv, CallsInv, TypeOK
  <2>2. QED
    BY <2>1, DecidedHistory
<1>4. ASSUME NEW h \in Calls, Goto(h, pc[h], pc'[h]), pc[h] # "idle", call' = call,
             request' = request, history' = history,
             pc'[h] \in PutSteps =>
                 /\ pc[h] \in PutSteps
                 /\ pc'[h] \in {"put_balance", "put_store"} => pc[h] \in {"put_balance", "put_store"}
                 /\ pc[h] = "put_notify" => pc'[h] = "put_notify"
      PROVE  DecidedInv'
  <2>1. CallsKept(h)
    BY <1>4, MoveKeeps DEF Goto
  <2>2. QED
    BY <1>4, <2>1, CallFields, DecidedKept DEF CallsKept, IInv
<1>5. ASSUME NEW h \in Calls,
             \/ PostReadBalance(h) \/ PostSaveBalance(h) \/ PostUnknownEmployee(h) \/ PostNotify(h)
             \/ PutReadBalance(h) \/ PutSaveBalance(h) \/ PutNoBalance(h) \/ PutNotify(h)
             \/ AdjSaveBalance(h) \/ Abort(h)
      PROVE  DecidedInv'
  <2>1. Goto(h, pc[h], pc'[h]) /\ pc[h] # "idle" /\ call' = call /\ request' = request /\ history' = history
    BY <1>5 DEF PostReadBalance, PostSaveBalance, PostUnknownEmployee, PostNotify, PutReadBalance,
       PutSaveBalance, PutNoBalance, PutNotify, AdjSaveBalance, Abort, Goto, tables, IInv, TypeOK,
       InFlight, PostSteps, PutSteps, AdjSteps
  <2>2. pc'[h] \in PutSteps =>
          /\ pc[h] \in PutSteps
          /\ pc'[h] \in {"put_balance", "put_store"} => pc[h] \in {"put_balance", "put_store"}
          /\ pc[h] = "put_notify" => pc'[h] = "put_notify"
    BY <1>5 DEF PostReadBalance, PostSaveBalance, PostUnknownEmployee, PostNotify, PutReadBalance,
       PutSaveBalance, PutNoBalance, PutNotify, AdjSaveBalance, Abort, Goto, IInv, TypeOK, PutSteps
  <2>3. QED
    BY <1>4, <2>1, <2>2
<1>6. CASE Categorise \/ UNCHANGED vars \/ \E e \in Employees : ChangeEmployeeStatus(e)
  <2>1. request' = request /\ history' = history /\ call' = call /\ pc' = pc
    BY <1>6 DEF Categorise, OpenBalance, SaveCategories, DeleteCategory, ChangeEmployeeStatus,
       vars, tables
  <2>2. QED
    BY <2>1, DecidedKept
<1>7. ASSUME NEW w \in Calls, PutReadRequest(w) PROVE DecidedInv'
  <2>1. PICK q \in DOMAIN request, s \in {"approved"} \cup Refunds :
          /\ call' = Save(call, w, Asks("put", request[q].emp, request[q].cat, q, s, TRUE))
          /\ Blame({Account(request[q])},
                   IF request[q].status \in Refunds \/ Deciding(q) # {}
                   THEN {"redecided"} ELSE {})
    BY <1>7 DEF PutReadRequest
  <2>2. /\ CallsKept(w) /\ pc'[w] = "put_read" /\ w \notin DOMAIN call /\ w \in DOMAIN call'
        /\ call'[w].op = "put" /\ call'[w].req = q /\ Account(call'[w]) = Account(request[q])
        /\ request' = request /\ history' = history
    <3>1. /\ CallsKept(w) /\ pc'[w] = "put_read" /\ w \notin DOMAIN call /\ w \in DOMAIN call'
          /\ call'[w] = Asks("put", request[q].emp, request[q].cat, q, s, TRUE)
      BY <1>7, <2>1, BeginKeeps DEF PutReadRequest
    <3>2. QED
      BY <1>7, <3>1 DEF PutReadRequest, tables, Asks, Account
  <2>3. request[q].status \in Refunds \/ Deciding(q) # {} => "redecided" \in blots'[Account(request[q])]
    BY <2>1, RequestFields, BlameGrows DEF IInv
  <2>4. \A r \in Calls : Deciding(r)' = IF r = q THEN Deciding(r) \cup {w} ELSE Deciding(r)
    BY <2>2, CallFields DEF Deciding, CallsKept, PutSteps, IInv
  <2>5. SUFFICES ASSUME NEW r \in Calls, NEW h \in Deciding(r)' PROVE DecidedWell(r, h)'
    BY DEF DecidedInv
  <2>6. CASE h = w
    <3>1. r = q
      BY <2>2, <2>6 DEF Deciding
    <3>2. QED
      BY <2>2, <2>3, <2>4, <2>6, <3>1 DEF DecidedWell
  <2>7. CASE h # w
    <3>1. h \in Deciding(r) /\ call'[h] = call[h] /\ pc'[h] = pc[h] /\ Account(call[h]) \in Accounts
      BY <2>2, <2>4, <2>7, CallFields DEF Deciding, CallsKept, IInv
    <3>2. blots[Account(call[h])] \subseteq blots'[Account(call[h])]
      BY <3>1, BlotsGrow
    <3>3. r = q => "redecided" \in blots'[Account(call[h])]
      BY <2>3, <3>1 DEF Deciding, IInv, LogsInv
    <3>4. QED
      BY <2>2, <2>4, <3>1, <3>2, <3>3 DEF DecidedInv, DecidedWell
  <2>8. QED
    BY <2>6, <2>7
<1>8. ASSUME NEW w \in Calls, PutSaveHistory(w) PROVE DecidedInv'
  <2>1. /\ w \in DOMAIN call /\ call[w].op = "put" /\ pc[w] = "put_log" /\ pc'[w] = "put_balance"
        /\ CallsKept(w) /\ call' = call /\ request' = request /\ blots' = blots
        /\ history'[call[w].req].action = call[w].status
        /\ \A x \in DOMAIN history : x # call[w].req => history'[x] = history[x]
    BY <1>8, MoveKeeps DEF PutSaveHistory, SaveHistory, Save, Goto, NoBlame, IInv, CallsInv, PutSteps
  <2>2. \A r \in Calls : Deciding(r)' = Deciding(r)
    BY <2>1, CallFields DEF Deciding, CallsKept, PutSteps, IInv
  <2>3. SUFFICES ASSUME NEW r \in Calls, NEW h \in Deciding(r)' PROVE DecidedWell(r, h)'
    BY DEF DecidedInv
  <2>4. h \in Deciding(r) /\ r \in DOMAIN history /\ DecidedWell(r, h)
    BY <2>2 DEF DecidedInv, Deciding, IInv, LogsInv
  <2>5. r = call[w].req => w \in Deciding(r)
    BY <2>1 DEF Deciding, PutSteps
  <2>6. h # w => pc'[h] = pc[h]
    BY <2>1, <2>4, CallFields DEF CallsKept, Deciding, IInv
  <2>7. h = w => r = call[w].req
    BY <2>4 DEF Deciding
  <2>8. QED
    BY <2>1, <2>2, <2>4, <2>5, <2>6, <2>7 DEF DecidedWell
<1>9. ASSUME NEW w \in Calls, PutSaveRequest(w) PROVE DecidedInv'
  <2>1. /\ w \in DOMAIN call /\ call[w].op = "put" /\ pc[w] = "put_store" /\ pc'[w] = "put_notify"
        /\ CallsKept(w) /\ call' = call /\ history' = history /\ blots' = blots
        /\ DOMAIN request' = DOMAIN request \cup {call[w].req}
        /\ \A x \in DOMAIN request : x # call[w].req => request'[x] = request[x]
    BY <1>9, MoveKeeps DEF PutSaveRequest, Save, Goto, NoBlame, IInv, CallsInv, PutSteps
  <2>2. \A r \in Calls : Deciding(r)' = Deciding(r)
    BY <2>1, CallFields DEF Deciding, CallsKept, PutSteps, IInv
  <2>3. SUFFICES ASSUME NEW r \in Calls, NEW h \in Deciding(r)' PROVE DecidedWell(r, h)'
    BY DEF DecidedInv
  <2>4. h \in Deciding(r) /\ DecidedWell(r, h)
    BY <2>2 DEF DecidedInv
  <2>5. r = call[w].req => w \in Deciding(r)
    BY <2>1 DEF Deciding, PutSteps
  <2>6. h # w => pc'[h] = pc[h]
    BY <2>1, <2>4, CallFields DEF CallsKept, Deciding, IInv
  <2>7. QED
    BY <2>1, <2>2, <2>4, <2>5, <2>6 DEF DecidedWell
<1>10. ASSUME NEW w \in Calls, PostSaveRequest(w) PROVE DecidedInv'
  <2>1. /\ pc[w] = "post_store" /\ pc' = [pc EXCEPT ![w] = "post_notify"]
        /\ call' = call /\ history' = history /\ blots' = blots
        /\ DOMAIN request' = DOMAIN request \cup {w}
        /\ \A x \in DOMAIN request : x # w => request'[x] = request[x]
    BY <1>10 DEF PostSaveRequest, Save, Goto, NoBlame
  <2>2. \A r \in Calls : Deciding(r)' = Deciding(r)
    BY <2>1, CallFields DEF Deciding, PutSteps, IInv, TypeOK
  <2>3. SUFFICES ASSUME NEW r \in Calls, NEW h \in Deciding(r)' PROVE DecidedWell(r, h)'
    BY DEF DecidedInv
  <2>4. h \in Deciding(r) /\ DecidedWell(r, h) /\ h # w /\ h \in Calls
    BY <2>1, <2>2, CallFields DEF DecidedInv, Deciding, PutSteps, IInv
  <2>5. r # w
    BY <2>1, <2>4 DEF Deciding, FiledInv, Filed
  <2>6. QED
    BY <2>1, <2>2, <2>4, <2>5 DEF DecidedWell, IInv, TypeOK
<1>11. ASSUME NEW d \in Calls, DeleteRequest(d) PROVE DecidedInv'
  <2>1. /\ d \in DOMAIN request /\ call' = call /\ pc' = pc /\ history' = history
        /\ DOMAIN request' = DOMAIN request \ {d}
        /\ \A x \in DOMAIN request : x # d => request'[x] = request[x]
        /\ Blame({Account(request[d])}, {"deleted"})
    BY <1>11 DEF DeleteRequest, Delete
  <2>2. \A r \in Calls : Deciding(r)' = Deciding(r)
    BY <2>1 DEF Deciding
  <2>3. SUFFICES ASSUME NEW r \in Calls, NEW h \in Deciding(r)' PROVE DecidedWell(r, h)'
    BY DEF DecidedInv
  <2>4. h \in Deciding(r) /\ DecidedWell(r, h) /\ Account(call[h]) \in Accounts
    BY <2>2, CallFields DEF DecidedInv, Deciding, IInv
  <2>5. /\ blots[Account(call[h])] \subseteq blots'[Account(call[h])]
        /\ r = d => "deleted" \in blots'[Account(call[h])]
    BY <2>1, <2>4, BlameGrows DEF Deciding, IInv, LogsInv
  <2>6. QED
    BY <2>1, <2>2, <2>4, <2>5 DEF DecidedWell
<1>12. QED
  BY <1>1, <1>2, <1>3, <1>5, <1>6, <1>7, <1>8, <1>9, <1>10, <1>11 DEF Next, Post, Put, Adjust

-----------------------------------------------------------------------------
(* Balance rows are never deleted and never change their account.          *)
LEMMA BalancesKept ==
    ASSUME IInv, [Next]_vars
    PROVE  /\ DOMAIN balance \subseteq DOMAIN balance'
           /\ \A b \in DOMAIN balance : Account(balance'[b]) = Account(balance[b])
<1>1. ASSUME NEW h \in DOMAIN row, NEW data, SaveBalance(h, data),
             Account(data) = Account(row[h].data)
      PROVE  /\ DOMAIN balance \subseteq DOMAIN balance'
             /\ \A b \in DOMAIN balance : Account(balance'[b]) = Account(balance[b])
  BY <1>1, SaveBalanceRow DEF IInv, RowsInv
<1>2. ASSUME NEW h \in Calls, PostSaveBalance(h)
      PROVE  SaveBalance(h, Charged(h, 1)) /\ h \in DOMAIN row
  BY <1>2 DEF PostSaveBalance, Goto, IInv, RowsInv
<1>3. ASSUME NEW h \in Calls, PutSaveBalance(h)
      PROVE  /\ SaveBalance(h, IF call[h].status \in Refunds THEN Charged(h, -1) ELSE row[h].data)
             /\ h \in DOMAIN row
  BY <1>3 DEF PutSaveBalance
<1>4. ASSUME NEW h \in Calls, AdjSaveBalance(h)
      PROVE  /\ SaveBalance(h, [row[h].data EXCEPT !.total = @ \cup {h}]) /\ h \in DOMAIN row
             /\ Account([row[h].data EXCEPT !.total = @ \cup {h}]) = Account(row[h].data)
  BY <1>4, CopyFields DEF AdjSaveBalance, Goto, IInv, RowsInv, Account, BalanceRow
<1>5. \A h \in DOMAIN row : h \in DOMAIN call
  BY DEF IInv, RowsInv
<1>6. CASE \E h \in Calls : PostSaveBalance(h)
  BY <1>6, <1>1, <1>2, <1>5, ChargedAccount DEF IInv
<1>7. CASE \E h \in Calls : PutSaveBalance(h)
  BY <1>7, <1>1, <1>3, <1>5, ChargedAccount DEF IInv
<1>8. CASE \E h \in Calls : AdjSaveBalance(h)
  BY <1>8, <1>1, <1>4
<1>9. CASE \E e \in Employees, c \in Categories : OpenBalance(e, c)
  BY <1>9 DEF OpenBalance, Save
<1>10. CASE balance' = balance
  BY <1>10
<1>11. QED
  BY <1>6, <1>7, <1>8, <1>9, <1>10 DEF Next, vars, tables, Post, Put, Adjust, Categorise,
     PostReadEmployee, PostReadBalance, PostSaveHistory, PostSaveRequest, PostUnknownEmployee,
     PostNotify, PutReadRequest, PutReadBalance, PutSaveHistory, PutNoBalance, PutSaveRequest,
     PutNotify, AdjReadBalance, AdjSaveHistory, Abort, DeleteRequest, ChangeEmployeeStatus,
     SaveCategories, DeleteCategory

(* What disturbs an account disturbs it for good.                          *)
LEMMA DisturbedGrows ==
    ASSUME IInv, [Next]_vars
    PROVE  Disturbed \subseteq Disturbed'
<1>1. ASSUME NEW a, Shared(a) PROVE Shared(a)'
  BY <1>1, BalancesKept DEF Shared
<1>2. ASSUME NEW a \in Accounts PROVE blots[a] \subseteq blots'[a]
  BY BlotsGrow
<1>3. QED
  BY <1>1, <1>2 DEF Disturbed

(* At most one charge or refund happens in a step.                         *)
LEMMA OneCharge ==
    ASSUME IInv, NEW h \in Calls, PostSaveBalance(h), NEW r \in Calls, NEW a
    PROVE  /\ Charges(r, a) <=> r = h /\ a = Account(call[h])
           /\ ~Refunded(r, a)
<1>1. pc[h] = "post_charge" /\ \A x \in Calls : x # h => pc'[x] = pc[x]
  BY DEF PostSaveBalance, Goto, IInv, TypeOK
<1>2. \A g \in Calls : PutSaveBalance(g) => pc[g] = "put_balance" /\ pc'[g] = "put_store"
  BY DEF PutSaveBalance, Goto, IInv, TypeOK
<1>3. PostSaveBalance(r) => pc'[r] # pc[r]
  BY DEF PostSaveBalance, Goto, IInv, TypeOK
<1>4. QED
  BY <1>1, <1>2, <1>3 DEF Charges, Refunded

LEMMA OneRefund ==
    ASSUME IInv, NEW h \in Calls, PutSaveBalance(h), NEW r \in Calls, NEW a
    PROVE  /\ Refunded(r, a) <=> /\ call[h].status \in Refunds /\ call[h].req = r
                                 /\ a = Account(call[h])
           /\ ~Charges(r, a)
<1>1. pc[h] = "put_balance" /\ \A x \in Calls : x # h => pc'[x] = pc[x]
  BY DEF PutSaveBalance, Goto, IInv, TypeOK
<1>2. \A g \in Calls : PutSaveBalance(g) => pc'[g] # pc[g]
  BY DEF PutSaveBalance, Goto, IInv, TypeOK
<1>3. PostSaveBalance(r) => pc[r] = "post_charge" /\ pc'[r] # pc[r]
  BY DEF PostSaveBalance, Goto, IInv, TypeOK
<1>4. QED
  BY <1>1, <1>2, <1>3 DEF Charges, Refunded

(* used moves by the charges and the refunds, in the unit of the category, *)
(* and by nothing else.                                                    *)
Moved(r, a, u) ==
    IF u # unit[a[2]] THEN 0
    ELSE IF Charges(r, a) THEN 1
    ELSE IF Refunded(r, a) THEN -1
    ELSE 0

LEMMA OnlyRow ==
    ASSUME IInv, [Next]_vars, NEW b \in DOMAIN balance, NEW h \in DOMAIN row, h \in DOMAIN call,
           Account(balance[b]) \notin Disturbed', row[h].id # b
    PROVE  Account(balance[b]) # Account(call[h])
<1>1. Account(balance[row[h].id]) = Account(call[h]) /\ row[h].id \in DOMAIN balance
  BY DEF IInv, RowsInv
<1>2. Account(balance[b]) \notin Disturbed /\ Account(balance[b]) \in Accounts
  BY DisturbedGrows, BalanceFields DEF IInv, Account, Accounts
<1>3. QED
  BY <1>1, <1>2 DEF Disturbed, Shared

LEMMA UsedStep ==
    ASSUME IInv, BooksInv, [Next]_vars, NEW b \in DOMAIN balance,
           Account(balance[b]) \notin Disturbed', NEW r \in Calls, NEW u \in Units
    PROVE  balance'[b].used[r][u] = balance[b].used[r][u] + Moved(r, Account(balance[b]), u)
<1> DEFINE a == Account(balance[b])
<1>1. a \in Accounts /\ blots'[a] = {} /\ blots[a] = {} /\ balance[b].used[r][u] \in Int
  <2>1. a \in Accounts /\ balance[b] \in BalanceRow
    BY BalanceFields DEF IInv, Account, Accounts
  <2>2. balance[b].used[r][u] \in Int
    BY <2>1 DEF BalanceRow
  <2>3. QED
    BY <2>1, <2>2, BlotsGrow DEF Disturbed
<1>2. ASSUME NEW h \in Calls, PostSaveBalance(h)
      PROVE  balance'[b].used[r][u] = balance[b].used[r][u] + Moved(r, a, u)
  <2>1. /\ h \in DOMAIN row /\ h \in DOMAIN call /\ call[h].req = h
        /\ SaveBalance(h, Charged(h, 1)) /\ Account(Charged(h, 1)) = Account(row[h].data)
    BY <1>2, ChargedAccount DEF PostSaveBalance, Goto, IInv, RowsInv, CallsInv, PostSteps
  <2>2. CASE row[h].id = b
    <3>1. a = Account(call[h])
      BY <2>1, <2>2 DEF IInv, RowsInv
    <3>2. /\ balance'[b] = Charged(h, 1) /\ balance[b] = row[h].data
      BY <1>1, <2>1, <2>2, <3>1, CleanSave
    <3>3. row[h].unit = unit[a[2]]
      BY <1>1, <2>1, <3>1 DEF BooksInv, UnitsInv
    <3>4. Moved(r, a, u) = IF r = h /\ u = row[h].unit THEN 1 ELSE 0
      BY <1>2, <3>1, <3>3, OneCharge DEF Moved
    <3>5. QED
      BY <2>1, <3>2, <3>4, ChargedValue DEF IInv
  <2>3. CASE row[h].id # b
    <3>1. a # Account(call[h])
      BY <2>1, <2>3, OnlyRow
    <3>2. balance'[b] = balance[b]
      BY <2>1, <2>3 DEF SaveBalance, Save
    <3>3. Moved(r, a, u) = 0
      BY <1>2, <3>1, OneCharge DEF Moved
    <3>4. QED
      BY <1>1, <3>2, <3>3
  <2>4. QED
    BY <2>2, <2>3
<1>3. ASSUME NEW h \in Calls, PutSaveBalance(h)
      PROVE  balance'[b].used[r][u] = balance[b].used[r][u] + Moved(r, a, u)
  <2> DEFINE data == IF call[h].status \in Refunds THEN Charged(h, -1) ELSE row[h].data
  <2>1. /\ h \in DOMAIN row /\ h \in DOMAIN call
        /\ SaveBalance(h, data) /\ Account(data) = Account(row[h].data)
    BY <1>3, ChargedAccount DEF PutSaveBalance, IInv, RowsInv
  <2>2. CASE row[h].id = b
    <3>1. a = Account(call[h])
      BY <2>1, <2>2 DEF IInv, RowsInv
    <3>2. balance'[b] = data /\ balance[b] = row[h].data
      BY <1>1, <2>1, <2>2, <3>1, CleanSave
    <3>3. row[h].unit = unit[a[2]]
      BY <1>1, <2>1, <3>1 DEF BooksInv, UnitsInv
    <3>4. Moved(r, a, u) = IF call[h].status \in Refunds /\ r = call[h].req /\ u = row[h].unit
                           THEN -1 ELSE 0
      BY <1>3, <3>1, <3>3, OneRefund DEF Moved
    <3>5. QED
      BY <1>1, <2>1, <3>2, <3>4, ChargedValue DEF IInv
  <2>3. CASE row[h].id # b
    <3>1. a # Account(call[h])
      BY <2>1, <2>3, OnlyRow
    <3>2. balance'[b] = balance[b]
      BY <2>1, <2>3 DEF SaveBalance, Save
    <3>3. Moved(r, a, u) = 0
      BY <1>3, <3>1, OneRefund DEF Moved
    <3>4. QED
      BY <1>1, <3>2, <3>3
  <2>4. QED
    BY <2>2, <2>3
<1>4. CASE \A h \in Calls : ~PostSaveBalance(h) /\ ~PutSaveBalance(h)
  <2>1. Moved(r, a, u) = 0
    BY <1>4 DEF Moved, Charges, Refunded
  <2>2. ASSUME NEW h \in Calls, AdjSaveBalance(h) PROVE balance'[b].used = balance[b].used
    <3> DEFINE data == [row[h].data EXCEPT !.total = @ \cup {h}]
    <3>1. /\ h \in DOMAIN row /\ h \in DOMAIN call /\ SaveBalance(h, data)
          /\ Account(data) = Account(row[h].data) /\ data.used = row[h].data.used
      BY <2>2, CopyFields DEF AdjSaveBalance, Goto, IInv, RowsInv, Account, BalanceRow
    <3>2. CASE row[h].id = b
      <4>1. a = Account(call[h])
        BY <3>1, <3>2 DEF IInv, RowsInv
      <4>2. balance'[b] = data /\ balance[b] = row[h].data
        BY <1>1, <3>1, <3>2, <4>1, CleanSave
      <4>3. QED
        BY <3>1, <4>2
    <3>3. CASE row[h].id # b
      BY <3>1, <3>3 DEF SaveBalance, Save
    <3>4. QED
      BY <3>2, <3>3
  <2>3. CASE \E e \in Employees, c \in Categories : OpenBalance(e, c)
    BY <1>1, <2>1, <2>3 DEF OpenBalance, Save
  <2>4. CASE balance' = balance
    BY <1>1, <2>1, <2>4
  <2>5. \/ balance' = balance
        \/ \E h \in Calls : AdjSaveBalance(h)
        \/ \E e \in Employees, c \in Categories : OpenBalance(e, c)
    BY <1>4 DEF Next, vars, tables, Post, Put, Adjust, Categorise,
       PostReadEmployee, PostReadBalance, PostSaveHistory, PostSaveRequest, PostUnknownEmployee,
       PostNotify, PutReadRequest, PutReadBalance, PutSaveHistory, PutNoBalance, PutSaveRequest,
       PutNotify, AdjReadBalance, AdjSaveHistory, Abort, DeleteRequest, ChangeEmployeeStatus,
       SaveCategories, DeleteCategory
  <2>6. QED
    BY <1>1, <2>1, <2>2, <2>3, <2>4, <2>5
<1>5. QED
  BY <1>2, <1>3, <1>4

(* A request that is outstanding on an account has a copy of a row there.  *)
LEMMA OutstandingRow ==
    ASSUME IInv, BooksInv, NEW r \in Calls, NEW a, Outstanding(r, a)
    PROVE  \E b \in DOMAIN balance : Account(balance[b]) = a
<1>1. r \in DOMAIN row
  BY DEF Outstanding, Filing, BooksInv, FiledInv
<1>2. r \in DOMAIN call /\ row[r].id \in DOMAIN balance
      /\ Account(balance[row[r].id]) = Account(call[r])
  BY <1>1 DEF IInv, RowsInv
<1>3. Account(call[r]) = a
  BY DEF Outstanding, IInv, LogsInv
<1>4. QED
  BY <1>2, <1>3

(* The balance row a step inserts opens with nothing charged.              *)
LEMMA OpenedRow ==
    ASSUME IInv, BooksInv, [Next]_vars, NEW b \in DOMAIN balance' \ DOMAIN balance
    PROVE  /\ \A r \in Calls, u \in Units : balance'[b].used[r][u] = 0
           /\ request' = request /\ history' = history /\ call' = call /\ pc' = pc
           /\ \A x \in DOMAIN balance : balance'[x] = balance[x]
<1>1. ASSUME NEW h \in DOMAIN row, NEW data, SaveBalance(h, data)
      PROVE  DOMAIN balance' = DOMAIN balance
  BY <1>1 DEF SaveBalance, Save, IInv, RowsInv
<1>2. ASSUME NEW h \in Calls, PostSaveBalance(h) \/ PutSaveBalance(h) \/ AdjSaveBalance(h)
      PROVE  h \in DOMAIN row /\ \E data : SaveBalance(h, data)
  BY <1>2 DEF PostSaveBalance, PutSaveBalance, AdjSaveBalance, Goto, IInv, RowsInv
<1>3. \E e \in Employees, c \in Categories : OpenBalance(e, c)
  BY <1>1, <1>2 DEF Next, vars, tables, Post, Put, Adjust, Categorise,
     PostReadEmployee, PostReadBalance, PostSaveHistory, PostSaveRequest, PostUnknownEmployee,
     PostNotify, PutReadRequest, PutReadBalance, PutSaveHistory, PutNoBalance, PutSaveRequest,
     PutNotify, AdjReadBalance, AdjSaveHistory, Abort, DeleteRequest, ChangeEmployeeStatus,
     SaveCategories, DeleteCategory
<1>4. QED
  BY <1>3 DEF OpenBalance, Save, Fresh

(* One step keeps the books of every account it does not disturb.          *)
LEMMA BooksStep ==
    ASSUME IInv, BooksInv, BooksBalance, [Next]_vars
    PROVE  BooksBalance'
<1> SUFFICES ASSUME NEW b \in DOMAIN balance', NEW a, a = Account(balance'[b]),
                    a \notin Disturbed', NEW r \in Calls, NEW u \in Units
             PROVE  balance'[b].used[r][u] =
                        IF u = unit'[balance'[b].cat] /\ Outstanding(r, a)' THEN 1 ELSE 0
  BY DEF BooksBalance, Outstanding, Filing
<1>1. CASE b \in DOMAIN balance
  <2>1. a = Account(balance[b]) /\ a[2] = balance[b].cat /\ a[2] = balance'[b].cat
    BY <1>1, BalancesKept DEF Account
  <2>2. a \in Accounts /\ a \notin Disturbed
    <3>1. Account(balance[b]) \in Accounts
      BY <1>1, BalanceFields DEF IInv, Account, Accounts
    <3>2. QED
      BY <2>1, <3>1, DisturbedGrows
  <2>3. blots'[a] = {}
    BY <2>2 DEF Disturbed
  <2>4. unit'[a[2]] = unit[a[2]]
    BY <2>2, <2>3, UnitKept
  <2>5. balance[b].used[r][u] = IF u = unit[a[2]] /\ Outstanding(r, a) THEN 1 ELSE 0
    BY <1>1, <2>1, <2>2 DEF BooksBalance
  <2>6. balance'[b].used[r][u] = balance[b].used[r][u] + Moved(r, a, u)
    BY <1>1, <2>1, UsedStep
  <2>7. CASE Charges(r, a)
    BY <2>1, <2>2, <2>4, <2>5, <2>6, <2>7, ChargeStands DEF Moved
  <2>8. CASE Refunded(r, a) /\ ~Charges(r, a)
    BY <2>1, <2>2, <2>3, <2>4, <2>5, <2>6, <2>8, RefundStands DEF Moved
  <2>9. CASE ~Refunded(r, a) /\ ~Charges(r, a)
    <3>1. Outstanding(r, a)' <=> Outstanding(r, a)
      BY <2>2, <2>3, <2>9, Stands DEF Kept
    <3>2. QED
      BY <2>1, <2>4, <2>5, <2>6, <2>9, <3>1 DEF Moved
  <2>10. QED
    BY <2>7, <2>8, <2>9
<1>2. CASE b \notin DOMAIN balance
  <2>1. /\ balance'[b].used[r][u] = 0
        /\ request' = request /\ call' = call /\ pc' = pc
        /\ \A x \in DOMAIN balance : balance'[x] = balance[x]
    BY <1>2, OpenedRow
  <2>2. Outstanding(r, a)' <=> Outstanding(r, a)
    BY <2>1, StandKept DEF Kept, Filing, RefundSaved
  <2>3. ASSUME Outstanding(r, a) PROVE FALSE
    <3>1. PICK d \in DOMAIN balance : Account(balance[d]) = a
      BY <2>3, OutstandingRow
    <3>2. d \in DOMAIN balance' /\ Account(balance'[d]) = a /\ d # b
      BY <1>2, <3>1, BalancesKept
    <3>3. a \in Accounts
      BY <3>1, BalanceFields DEF IInv, Account, Accounts
    <3>4. QED
      BY <3>2, <3>3 DEF Disturbed, Shared
  <2>4. QED
    BY <2>1, <2>2, <2>3
<1>3. QED
  BY <1>1, <1>2

LEMMA InitBooks == Init => BooksInv /\ BooksBalance
  BY DEF Init, BooksInv, FiledInv, UnitsInv, DecidedInv, Deciding, BooksBalance, NoRows, IsTable

(* The books invariant is inductive, given the one of LeaveRequestsProofs. *)
THEOREM BooksInductive == Spec => [](IInv /\ BooksInv /\ BooksBalance)
<1>1. IInv /\ BooksInv /\ BooksBalance /\ [Next]_vars => (IInv /\ BooksInv /\ BooksBalance)'
  BY TypeStep, CallsStep, RowsStep, LogsStep, TotalsStep, FiledStep, UnitsStep, DecidedStep,
     BooksStep DEF IInv, BooksInv
<1>2. QED
  BY InitIInv, InitBooks, <1>1, PTL DEF Spec

(* However many calls interleave, throw and stop half-way: used is what    *)
(* the outstanding requests of the account add up to, unless one of the    *)
(* causes in blots, or a second balance row, has disturbed the account.    *)
THEOREM BooksAlwaysBalance == Spec => []BooksBalance
  BY BooksInductive, PTL

-----------------------------------------------------------------------------
(* The history of request r is explained.                                  *)
Shows(r) ==
    \/ history[r].action = request[r].status
    \/ \E h \in Deciding(r) : pc[h] \in {"put_balance", "put_store"}
    \/ blots[Account(request[r])] \cap {"abandoned", "redecided"} # {}

(* It stays so when neither the request nor its history is written and no  *)
(* decision leaves its two saves.                                          *)
LEMMA ShowsKept ==
    ASSUME IInv, [Next]_vars, NEW r \in DOMAIN request, Shows(r), r \in DOMAIN request',
           request'[r] = request[r], history'[r] = history[r],
           DOMAIN call \subseteq DOMAIN call', \A x \in DOMAIN call : call'[x] = call[x],
           \A x \in DOMAIN call : pc[x] \in {"put_balance", "put_store"} /\ call[x].req = r =>
                                      pc'[x] \in {"put_balance", "put_store"}
    PROVE  Shows(r)'
<1>1. Account(request[r]) \in Accounts
  BY RequestFields DEF IInv
<1>2. blots[Account(request[r])] \subseteq blots'[Account(request[r])]
  BY <1>1, BlotsGrow
<1>3. \A h \in Deciding(r) : pc[h] \in {"put_balance", "put_store"} =>
          h \in Deciding(r)' /\ pc'[h] \in {"put_balance", "put_store"}
  BY DEF Deciding, PutSteps
<1>4. QED
  BY <1>2, <1>3 DEF Shows

LEMMA HistoryStep ==
    ASSUME IInv, BooksInv, HistoryAgrees, [Next]_vars
    PROVE  HistoryAgrees'
<1> SUFFICES ASSUME NEW r \in DOMAIN request' PROVE Shows(r)'
  BY DEF HistoryAgrees, Shows
<1>1. r \in DOMAIN request => Shows(r)
  BY DEF HistoryAgrees, Shows
<1>2. ASSUME NEW h \in Calls, PostReadEmployee(h) \/ PutReadRequest(h) \/ AdjReadBalance(h)
      PROVE  Shows(r)'
  <2>1. /\ request' = request /\ history' = history /\ h \notin DOMAIN call
        /\ \A x \in Calls : x # h => pc'[x] = pc[x]
        /\ \E c : call' = Save(call, h, c)
    BY <1>2 DEF PostReadEmployee, PutReadRequest, AdjReadBalance, Goto, tables, IInv, CallsInv, TypeOK
  <2>2. DOMAIN call \subseteq DOMAIN call' /\ \A x \in DOMAIN call : call'[x] = call[x]
    BY <2>1 DEF Save
  <2>3. QED
    BY <1>1, <2>1, <2>2, ShowsKept, CallFields DEF IInv
<1>3. ASSUME NEW h \in Calls, h \in DOMAIN call, Goto(h, pc[h], pc'[h]), call' = call,
             request' = request, history' = history,
             pc[h] \in {"put_balance", "put_store"} => pc'[h] \in {"put_balance", "put_store"}
      PROVE  Shows(r)'
  <2>1. \A x \in Calls : x # h => pc'[x] = pc[x]
    BY <1>3 DEF Goto, IInv, TypeOK
  <2>2. QED
    BY <1>1, <1>3, <2>1, ShowsKept, CallFields DEF IInv
<1>4. ASSUME NEW h \in Calls,
             \/ PostReadBalance(h) \/ PostSaveBalance(h) \/ PostUnknownEmployee(h) \/ PostNotify(h)
             \/ PutReadBalance(h) \/ PutSaveBalance(h) \/ PutNotify(h) \/ AdjSaveBalance(h)
      PROVE  Shows(r)'
  <2>1. /\ h \in DOMAIN call /\ Goto(h, pc[h], pc'[h]) /\ call' = call
        /\ request' = request /\ history' = history
        /\ pc[h] \in {"put_balance", "put_store"} => pc'[h] \in {"put_balance", "put_store"}
    BY <1>4 DEF PostReadBalance, PostSaveBalance, PostUnknownEmployee, PostNotify, PutReadBalance,
       PutSaveBalance, PutNotify, AdjSaveBalance, Goto, tables, IInv, CallsInv, TypeOK
  <2>2. QED
    BY <1>3, <2>1
<1>5. ASSUME NEW h \in Calls, PutNoBalance(h) \/ Abort(h) PROVE Shows(r)'
  <2>1. /\ h \in DOMAIN call /\ Goto(h, pc[h], pc'[h]) /\ call' = call
        /\ request' = request /\ history' = history
    BY <1>5 DEF PutNoBalance, Abort, Goto, tables, IInv, CallsInv, TypeOK, InFlight, PostSteps,
       PutSteps, AdjSteps
  <2>2. CASE pc[h] \notin {"put_balance", "put_store"}
    BY <1>3, <2>1, <2>2
  <2>3. CASE pc[h] \in {"put_balance", "put_store"} /\ call[h].req = r
    <3>1. "abandoned" \in blots'[Account(call[h])]
      BY <1>5, <2>1, <2>3, BlameGrows, CallFields DEF PutNoBalance, Abort, IInv
    <3>2. Account(request[r]) = Account(call[h])
      BY <2>1, <2>3 DEF IInv, LogsInv, CallsInv, PutSteps
    <3>3. QED
      BY <2>1, <3>1, <3>2 DEF Shows
  <2>4. CASE call[h].req # r
    <3>1. \A x \in Calls : x # h => pc'[x] = pc[x]
      BY <2>1 DEF Goto, IInv, TypeOK
    <3>2. QED
      BY <1>1, <2>1, <2>4, <3>1, ShowsKept, CallFields DEF IInv
  <2>5. QED
    BY <2>2, <2>3, <2>4
<1>6. ASSUME NEW h \in Calls, PostSaveHistory(h) \/ AdjSaveHistory(h) PROVE Shows(r)'
  <2>1. /\ h \in DOMAIN call /\ pc[h] \in {"post_log", "adj_log"} /\ call' = call
        /\ request' = request /\ \A x \in Calls : x # h => pc'[x] = pc[x]
        /\ \A x \in DOMAIN history : x # h => history'[x] = history[x]
    BY <1>6 DEF PostSaveHistory, AdjSaveHistory, SaveHistory, Save, Goto, IInv, CallsInv, TypeOK
  <2>2. r # h /\ r \in DOMAIN history
    BY <2>1 DEF BooksInv, FiledInv, Filed, IInv, LogsInv
  <2>3. QED
    BY <1>1, <2>1, <2>2, ShowsKept, CallFields DEF IInv
<1>7. ASSUME NEW h \in Calls, PutSaveHistory(h) PROVE Shows(r)'
  <2>1. /\ h \in DOMAIN call /\ call[h].op = "put" /\ pc[h] = "put_log" /\ pc'[h] = "put_balance"
        /\ call' = call /\ request' = request /\ \A x \in Calls : x # h => pc'[x] = pc[x]
        /\ \A x \in DOMAIN history : x # call[h].req => history'[x] = history[x]
    BY <1>7 DEF PutSaveHistory, SaveHistory, Save, Goto, IInv, CallsInv, TypeOK, PutSteps
  <2>2. CASE r = call[h].req
    BY <2>1, <2>2 DEF Shows, Deciding, PutSteps
  <2>3. CASE r # call[h].req
    BY <1>1, <2>1, <2>3, ShowsKept, CallFields DEF IInv, LogsInv
  <2>4. QED
    BY <2>2, <2>3
<1>8. ASSUME NEW h \in Calls, PostSaveRequest(h) PROVE Shows(r)'
  <2>1. /\ h \in DOMAIN call /\ pc[h] = "post_store" /\ call' = call /\ history' = history
        /\ \A x \in Calls : x # h => pc'[x] = pc[x]
        /\ request'[h].status = call[h].status
        /\ \A x \in DOMAIN request : x # h => request'[x] = request[x]
        /\ DOMAIN request' = DOMAIN request \cup {h}
    BY <1>8 DEF PostSaveRequest, Save, Goto, IInv, CallsInv, TypeOK
  <2>2. CASE r = h
    BY <2>1, <2>2 DEF Shows, BooksInv, FiledInv
  <2>3. CASE r # h
    BY <1>1, <2>1, <2>3, ShowsKept, CallFields DEF IInv
  <2>4. QED
    BY <2>2, <2>3
<1>9. ASSUME NEW h \in Calls, PutSaveRequest(h) PROVE Shows(r)'
  <2> DEFINE q == call[h].req
  <2>1. /\ h \in DOMAIN call /\ call[h].op = "put" /\ pc[h] = "put_store" /\ call' = call
        /\ history' = history /\ blots' = blots /\ \A x \in Calls : x # h => pc'[x] = pc[x]
        /\ request'[q].status = call[h].status /\ Account(request'[q]) = Account(call[h])
        /\ \A x \in DOMAIN request : x # q => request'[x] = request[x]
        /\ DOMAIN request' = DOMAIN request \cup {q}
    BY <1>9 DEF PutSaveRequest, Save, Goto, NoBlame, Account, IInv, CallsInv, TypeOK, PutSteps
  <2>2. CASE r = q
    <3>1. h \in Deciding(q) /\ q \in Calls
      BY <2>1, CallFields DEF Deciding, PutSteps, IInv
    <3>2. "redecided" \in blots[Account(call[h])] \/ history[q].action = call[h].status
      BY <2>1, <3>1 DEF BooksInv, DecidedInv, DecidedWell
    <3>3. QED
      BY <2>1, <2>2, <3>2 DEF Shows
  <2>3. CASE r # q
    BY <1>1, <2>1, <2>3, ShowsKept, CallFields DEF IInv
  <2>4. QED
    BY <2>2, <2>3
<1>10. ASSUME NEW d \in Calls, DeleteRequest(d) PROVE Shows(r)'
  BY <1>1, <1>10, ShowsKept DEF DeleteRequest, Delete
<1>11. CASE Categorise \/ UNCHANGED vars \/ \E e \in Employees : ChangeEmployeeStatus(e)
  <2>1. request' = request /\ history' = history /\ call' = call /\ pc' = pc
    BY <1>11 DEF Categorise, OpenBalance, SaveCategories, DeleteCategory, ChangeEmployeeStatus,
       vars, tables
  <2>2. QED
    BY <1>1, <2>1, ShowsKept
<1>12. QED
  BY <1>2, <1>4, <1>5, <1>6, <1>7, <1>8, <1>9, <1>10, <1>11 DEF Next, Post, Put, Adjust

(* The history row of a request shows the status that the request has,     *)
(* whatever interleaves and fails, except between the two saves of a       *)
(* decision, or where a decision was abandoned or made twice.              *)
THEOREM HistoryAlwaysAgrees == Spec => []HistoryAgrees
<1>1. Init => HistoryAgrees
  BY DEF Init, HistoryAgrees, NoRows, IsTable
<1>2. IInv /\ BooksInv /\ HistoryAgrees /\ [Next]_vars => HistoryAgrees'
  BY HistoryStep
<1>3. QED
  BY BooksInductive, <1>1, <1>2, PTL DEF Spec

-----------------------------------------------------------------------------
(* The total of row b, of account a, explains the adjustments in the       *)
(* history.                                                                *)
Explained(b, a) ==
    \A x \in DOMAIN history :
        history[x].action = "manual" /\ Account(history[x]) = a =>
            x \in balance[b].total \/ pc[x] = "adj_save"

Unwatched(a) == Shared(a) \/ blots[a] \cap {"lostUpdate", "abandoned"} # {}

LEMMA UnwatchedGrows ==
    ASSUME IInv, [Next]_vars, NEW a \in Accounts, Unwatched(a)
    PROVE  Unwatched(a)'
  BY BlotsGrow, BalancesKept DEF Unwatched, Shared

LEMMA OnlyWatchedRow ==
    ASSUME IInv, [Next]_vars, NEW b \in DOMAIN balance, NEW a, a = Account(balance[b]),
           NEW h \in DOMAIN row, h \in DOMAIN call, ~Unwatched(a)'
    PROVE  a = Account(call[h]) <=> row[h].id = b
<1>1. Account(balance[row[h].id]) = Account(call[h]) /\ row[h].id \in DOMAIN balance
  BY DEF IInv, RowsInv
<1>2. ~Shared(a)
  BY BalancesKept DEF Unwatched, Shared
<1>3. QED
  BY <1>1, <1>2 DEF Shared

(* A row stays explained when it keeps its total, the history gets no      *)
(* adjustment and none leaves its save.                                    *)
LEMMA ExplainedKept ==
    ASSUME NEW b, NEW a, Explained(b, a), balance[b].total \subseteq balance'[b].total,
           \A x \in DOMAIN history' : history'[x].action = "manual" /\ Account(history'[x]) = a =>
               /\ x \in DOMAIN history /\ history'[x] = history[x]
               /\ pc[x] = "adj_save" => pc'[x] = "adj_save"
    PROVE  Explained(b, a)'
  BY DEF Explained

LEMMA TotalStep ==
    ASSUME IInv, BooksInv, TotalIsExplained, [Next]_vars
    PROVE  TotalIsExplained'
<1> SUFFICES ASSUME NEW b \in DOMAIN balance', NEW a, a = Account(balance'[b]), ~Unwatched(a)'
             PROVE  Explained(b, a)'
  BY DEF TotalIsExplained, Unwatched, Explained, Shared
<1>1. CASE b \notin DOMAIN balance
  <2>1. /\ history' = history /\ call' = call /\ pc' = pc
        /\ \A x \in DOMAIN balance : balance'[x] = balance[x]
    BY <1>1, OpenedRow
  <2>2. ASSUME NEW x \in DOMAIN history, history[x].action = "manual", Account(history[x]) = a
        PROVE  FALSE
    <3>1. x \in DOMAIN call /\ call[x].op = "adjust" /\ Account(call[x]) = a
      BY <2>2 DEF IInv, LogsInv
    <3>2. row[x].id \in DOMAIN balance /\ Account(balance[row[x].id]) = a
      BY <3>1 DEF BooksInv, FiledInv, IInv, RowsInv
    <3>3. row[x].id \in DOMAIN balance' /\ Account(balance'[row[x].id]) = a /\ row[x].id # b
      BY <1>1, <3>2, BalancesKept
    <3>4. QED
      BY <3>3 DEF Unwatched, Shared
  <2>3. QED
    BY <2>1, <2>2 DEF Explained
<1>2. CASE b \in DOMAIN balance
  <2>1. a = Account(balance[b])
    BY <1>2, BalancesKept
  <2>2. a \in Accounts
    <3>1. Account(balance[b]) \in Accounts
      BY <1>2, BalanceFields DEF IInv, Account, Accounts
    <3>2. QED
      BY <2>1, <3>1
  <2>3. Explained(b, a)
    <3>1. ~Unwatched(a)
      BY <2>2, UnwatchedGrows
    <3>2. QED
      BY <1>2, <2>1, <3>1 DEF TotalIsExplained, Unwatched, Explained
  <2>4. "lostUpdate" \notin blots'[a] /\ "abandoned" \notin blots'[a]
    BY DEF Unwatched
  <2>5. ASSUME NEW h \in DOMAIN row, NEW data, SaveBalance(h, data),
               Account(data) = Account(row[h].data), row[h].data.total \subseteq data.total
        PROVE  balance[b].total \subseteq balance'[b].total /\ (row[h].id = b => balance'[b] = data)
    <3>1. h \in DOMAIN call
      BY DEF IInv, RowsInv
    <3>2. CASE row[h].id = b
      <4>1. a = Account(call[h])
        BY <1>2, <2>1, <3>1, <3>2, OnlyWatchedRow
      <4>2. QED
        BY <2>4, <2>5, <3>2, <4>1, CleanSave
    <3>3. CASE row[h].id # b
      BY <1>2, <2>5, <3>3 DEF SaveBalance, Save
    <3>4. QED
      BY <3>2, <3>3
  <2>6. ASSUME NEW h \in Calls, PostSaveBalance(h) \/ PutSaveBalance(h) PROVE Explained(b, a)'
    <3>1. /\ h \in DOMAIN row /\ h \in DOMAIN call /\ history' = history
          /\ \A x \in DOMAIN history : pc[x] = "adj_save" => pc'[x] = "adj_save"
      BY <2>6 DEF PostSaveBalance, PutSaveBalance, Goto, IInv, RowsInv, LogsInv, TypeOK, IsTable
    <3>2. PICK data : /\ SaveBalance(h, data) /\ Account(data) = Account(row[h].data)
                      /\ data.total = row[h].data.total
      BY <2>6, <3>1, ChargedAccount DEF PostSaveBalance, PutSaveBalance, IInv
    <3>3. QED
      BY <2>3, <2>5, <3>1, <3>2, ExplainedKept
  <2>7. ASSUME NEW h \in Calls, AdjSaveBalance(h) PROVE Explained(b, a)'
    <3> DEFINE data == [row[h].data EXCEPT !.total = @ \cup {h}]
    <3>1. /\ h \in DOMAIN row /\ SaveBalance(h, data) /\ history' = history
          /\ Account(data) = Account(row[h].data)
          /\ data.total = row[h].data.total \cup {h}
      BY <2>7, CopyFields DEF AdjSaveBalance, Goto, IInv, RowsInv, Account, BalanceRow
    <3>2. \A x \in Calls : x # h => pc'[x] = pc[x]
      BY <2>7 DEF AdjSaveBalance, Goto, IInv, TypeOK
    <3> HIDE DEF data
    <3>3. /\ balance[b].total \subseteq balance'[b].total
          /\ row[h].id = b => balance'[b] = data
      BY <2>5, <3>1
    <3>4. ASSUME NEW x \in DOMAIN history, history[x].action = "manual", Account(history[x]) = a
          PROVE  x \in balance'[b].total \/ pc'[x] = "adj_save"
      <4>1. CASE x = h
        <5>1. h \in DOMAIN call /\ a = Account(call[h])
          BY <3>4, <4>1 DEF IInv, LogsInv
        <5>2. row[h].id = b
          BY <1>2, <2>1, <3>1, <5>1, OnlyWatchedRow
        <5>3. QED
          BY <3>1, <3>3, <4>1, <5>2
      <4>2. CASE x # h
        BY <2>3, <3>2, <3>3, <3>4, <4>2 DEF Explained, IInv, TypeOK, IsTable
      <4>3. QED
        BY <4>1, <4>2
    <3>5. QED
      BY <3>1, <3>4 DEF Explained
  <2>8. ASSUME NEW h \in Calls, Abort(h), pc[h] = "adj_save" PROVE Explained(b, a)'
    <3>1. /\ balance' = balance /\ history' = history
          /\ \A x \in Calls : x # h => pc'[x] = pc[x]
      BY <2>8 DEF Abort, tables, IInv, TypeOK
    <3>2. h \in DOMAIN history => Account(history[h]) # a
      BY <2>2, <2>4, <2>8, BlameGrows DEF Abort, IInv, LogsInv
    <3>3. QED
      BY <2>3, <3>1, <3>2, ExplainedKept DEF IInv, TypeOK, IsTable
  <2>9. ASSUME NEW h \in Calls, PostSaveHistory(h) \/ PutSaveHistory(h) PROVE Explained(b, a)'
    <3>1. /\ balance' = balance /\ h \in DOMAIN call /\ pc[h] # "adj_save"
          /\ \A x \in Calls : x # h => pc'[x] = pc[x]
          /\ call[h].op # "adjust" /\ call[h].status # "manual"
          /\ \E id : SaveHistory(h, id, call[h].status)
      BY <2>9 DEF PostSaveHistory, PutSaveHistory, Goto, IInv, TypeOK, CallsInv, PostSteps, PutSteps
    <3>2. PICK id : SaveHistory(h, id, call[h].status)
      BY <3>1
    <3>3. /\ DOMAIN history' = DOMAIN history \cup {id} /\ history'[id].action # "manual"
          /\ \A x \in DOMAIN history : x # id => history'[x] = history[x]
      BY <3>1, <3>2 DEF SaveHistory, Save
    <3>4. QED
      BY <2>3, <3>1, <3>3, ExplainedKept DEF IInv, TypeOK, IsTable
  <2>10. ASSUME NEW h \in Calls, AdjSaveHistory(h) PROVE Explained(b, a)'
    <3>1. /\ balance' = balance /\ pc'[h] = "adj_save"
          /\ \A x \in Calls : x # h => pc'[x] = pc[x]
          /\ DOMAIN history' = DOMAIN history \cup {h}
          /\ \A x \in DOMAIN history : x # h => history'[x] = history[x]
      BY <2>10 DEF AdjSaveHistory, SaveHistory, Save, Goto, IInv, TypeOK
    <3>2. QED
      BY <2>3, <3>1 DEF Explained, IInv, TypeOK, IsTable
  <2> DEFINE Silent == \/ \E h \in Calls :
                            \/ PostReadEmployee(h) \/ PostReadBalance(h) \/ PostSaveRequest(h)
                            \/ PostUnknownEmployee(h) \/ PostNotify(h) \/ PutReadRequest(h)
                            \/ PutReadBalance(h) \/ PutNoBalance(h) \/ PutSaveRequest(h)
                            \/ PutNotify(h) \/ AdjReadBalance(h)
                            \/ Abort(h) /\ pc[h] # "adj_save"
                       \/ \E d \in Calls : DeleteRequest(d)
                       \/ Categorise \/ UNCHANGED vars
                       \/ \E e \in Employees : ChangeEmployeeStatus(e)
  <2>11. CASE Silent
    <3>1. history' = history /\ balance'[b] = balance[b]
      BY <1>2, <2>11 DEF PostReadEmployee, PostReadBalance, PostSaveRequest,
         PostUnknownEmployee, PostNotify, PutReadRequest, PutReadBalance, PutNoBalance,
         PutSaveRequest, PutNotify, AdjReadBalance, Abort, DeleteRequest, Categorise, OpenBalance,
         Save, SaveCategories, DeleteCategory, ChangeEmployeeStatus, vars, tables
    <3>2. \A x \in Calls : pc[x] = "adj_save" => pc'[x] = "adj_save"
      BY <2>11 DEF PostReadEmployee, PostReadBalance, PostSaveRequest,
         PostUnknownEmployee, PostNotify, PutReadRequest, PutReadBalance, PutNoBalance,
         PutSaveRequest, PutNotify, AdjReadBalance, Abort, DeleteRequest, Categorise, OpenBalance,
         SaveCategories, DeleteCategory, ChangeEmployeeStatus, vars, Goto, IInv, TypeOK
    <3>3. QED
      BY <2>3, <3>1, <3>2, ExplainedKept DEF IInv, TypeOK, IsTable
  <2>12. \/ Silent
         \/ \E h \in Calls : \/ PostSaveBalance(h) \/ PutSaveBalance(h) \/ AdjSaveBalance(h)
                             \/ Abort(h) /\ pc[h] = "adj_save"
                             \/ PostSaveHistory(h) \/ PutSaveHistory(h) \/ AdjSaveHistory(h)
    <3>1. CASE \E h \in Calls : Post(h)
      BY <3>1 DEF Post
    <3>2. CASE \E h \in Calls : Put(h)
      BY <3>2 DEF Put
    <3>3. CASE \E h \in Calls : Adjust(h) \/ Abort(h)
      BY <3>3 DEF Adjust
    <3>4. CASE \E d \in Calls : DeleteRequest(d)
      BY <3>4
    <3>5. CASE Categorise
      BY <3>5
    <3>6. CASE \E e \in Employees : ChangeEmployeeStatus(e)
      BY <3>6
    <3>7. CASE UNCHANGED vars
      BY <3>7
    <3> HIDE DEF Silent
    <3>8. QED
      BY <3>1, <3>2, <3>3, <3>4, <3>5, <3>6, <3>7 DEF Next
  <2> HIDE DEF Silent
  <2>13. QED
    BY <2>6, <2>7, <2>8, <2>9, <2>10, <2>11, <2>12
<1>3. QED
  BY <1>1, <1>2

(* Every adjustment the history shows is in the total, or about to be,     *)
(* unless a save of the balance was undone, a handler stopped half-way or  *)
(* the account has two balance rows: nothing else can lose one.            *)
THEOREM TotalAlwaysExplained == Spec => []TotalIsExplained
<1>1. Init => TotalIsExplained
  BY DEF Init, TotalIsExplained, NoRows, IsTable
<1>2. IInv /\ BooksInv /\ TotalIsExplained /\ [Next]_vars => TotalIsExplained'
  BY TotalStep
<1>3. QED
  BY BooksInductive, <1>1, <1>2, PTL DEF Spec

-----------------------------------------------------------------------------
(* The phase LeaveLedger sees: how a request stands on an account.         *)
PhasesStand ==
    \A a \in Accounts, r \in Calls :
        Phase(a, r) = IF a \in Disturbed THEN "none"
                      ELSE IF Outstanding(r, a) THEN "charged"
                      ELSE IF Released(r, a) THEN "released"
                      ELSE "none"

LEMMA PhaseStands == IInv /\ BooksInv /\ BooksBalance => PhasesStand
<1> SUFFICES ASSUME IInv, BooksInv, BooksBalance, NEW a \in Accounts, NEW r \in Calls,
                    a \notin Disturbed
             PROVE  Phase(a, r) = IF Outstanding(r, a) THEN "charged"
                                  ELSE IF Released(r, a) THEN "released" ELSE "none"
  BY DEF PhasesStand, Phase
<1>1. \A b \in DOMAIN balance : Account(balance[b]) = a => balance[b].cat = a[2]
  BY DEF Account
<1>2. unit[a[2]] \in Units
  BY DEF IInv, TypeOK, Accounts
<1>3. \A b \in DOMAIN balance : Account(balance[b]) = a =>
          balance[b].used[r][unit[a[2]]] = IF Outstanding(r, a) THEN 1 ELSE 0
  BY <1>1, <1>2 DEF BooksBalance
<1>4. Outstanding(r, a) => \E b \in DOMAIN balance : Account(balance[b]) = a
  BY OutstandingRow
<1>5. Outstanding(r, a) <=> \E b \in DOMAIN balance : /\ Account(balance[b]) = a
                                                     /\ balance[b].used[r][unit[a[2]]] = 1
  BY <1>3, <1>4
<1>6. QED
  BY <1>5 DEF Phase, Released

(* A step that charges or refunds an account it leaves undisturbed         *)
(* disturbs no account.                                                    *)
LEMMA DisturbedSame ==
    ASSUME IInv, [Next]_vars, NEW a \in Accounts, a \notin Disturbed',
           NEW h \in DOMAIN row, NEW data, SaveBalance(h, data),
           Account(data) = Account(row[h].data), a = Account(call[h])
    PROVE  Disturbed' = Disturbed
<1>1. "lostUpdate" \notin blots'[Account(call[h])]
  BY DEF Disturbed
<1>2. /\ balance[row[h].id] = row[h].data /\ DOMAIN balance' = DOMAIN balance
      /\ \A b \in DOMAIN balance : Account(balance'[b]) = Account(balance[b])
  BY <1>1, CleanSave
<1>3. blots' = blots
  BY <1>2 DEF SaveBalance, Blame, IInv, TypeOK
<1>4. \A x : Shared(x)' <=> Shared(x)
  BY <1>2 DEF Shared
<1>5. QED
  BY <1>3, <1>4 DEF Disturbed, Accounts

LEMMA ChargeDisturbs ==
    ASSUME IInv, [Next]_vars, NEW a \in Accounts, a \notin Disturbed', NEW r \in Calls,
           Charges(r, a) \/ Refunded(r, a)
    PROVE  Disturbed' = Disturbed
<1>1. ASSUME NEW h \in Calls, PostSaveBalance(h), a = Account(call[h]) PROVE Disturbed' = Disturbed
  <2>1. /\ h \in DOMAIN row /\ h \in DOMAIN call /\ SaveBalance(h, Charged(h, 1))
        /\ Account(Charged(h, 1)) = Account(row[h].data)
    BY <1>1, ChargedAccount DEF PostSaveBalance, Goto, IInv, RowsInv
  <2>2. QED
    BY <1>1, <2>1, DisturbedSame
<1>2. ASSUME NEW h \in Calls, PutSaveBalance(h), call[h].status \in Refunds, a = Account(call[h])
      PROVE  Disturbed' = Disturbed
  <2>1. /\ h \in DOMAIN row /\ h \in DOMAIN call /\ SaveBalance(h, Charged(h, -1))
        /\ Account(Charged(h, -1)) = Account(row[h].data)
    BY <1>2, ChargedAccount DEF PutSaveBalance, IInv, RowsInv
  <2>2. QED
    BY <1>2, <2>1, DisturbedSame
<1>3. QED
  BY <1>1, <1>2 DEF Charges, Refunded

(* Only one request moves on one account.                                  *)
LEMMA OneMoves ==
    ASSUME IInv, NEW q \in Calls, NEW a, NEW r \in Calls, NEW b,
           Charges(q, a) \/ Refunded(q, a), Charges(r, b) \/ Refunded(r, b)
    PROVE  q = r /\ a = b
<1>1. CASE \E h \in Calls : PostSaveBalance(h)
  BY <1>1, OneCharge
<1>2. CASE \E h \in Calls : PutSaveBalance(h)
  BY <1>2, OneRefund
<1>3. QED
  BY <1>1, <1>2 DEF Charges, Refunded

(* How the phase of a request moves on an account left undisturbed.        *)
LEMMA PhaseStep ==
    ASSUME IInv, BooksInv, PhasesStand, PhasesStand', [Next]_vars,
           NEW a \in Accounts, a \notin Disturbed', NEW r \in Calls
    PROVE  /\ Charges(r, a) => Phase(a, r) = "none" /\ Phase(a, r)' = "charged"
           /\ Refunded(r, a) /\ ~Charges(r, a) =>
                  Phase(a, r) = "charged" /\ Phase(a, r)' = "released"
           /\ ~Refunded(r, a) /\ ~Charges(r, a) => Phase(a, r)' = Phase(a, r)
<1>1. a \notin Disturbed /\ blots'[a] = {}
  BY DisturbedGrows DEF Disturbed
<1>2. Phase(a, r) = IF Outstanding(r, a) THEN "charged"
                    ELSE IF Released(r, a) THEN "released" ELSE "none"
  BY <1>1 DEF PhasesStand
<1>3. Phase(a, r)' = IF Outstanding(r, a)' THEN "charged"
                     ELSE IF Released(r, a)' THEN "released" ELSE "none"
  BY DEF PhasesStand, Accounts
<1>4. CASE Charges(r, a)
  BY <1>2, <1>3, <1>4, ChargeStands
<1>5. CASE Refunded(r, a) /\ ~Charges(r, a)
  BY <1>1, <1>2, <1>3, <1>5, RefundStands
<1>6. CASE ~Refunded(r, a) /\ ~Charges(r, a)
  BY <1>1, <1>2, <1>3, <1>6, Stands DEF Kept
<1>7. QED
  BY <1>4, <1>5, <1>6

LEMMA LedgerMoves ==
    ASSUME IInv, BooksInv, PhasesStand, PhasesStand', [Next]_vars,
           NEW a \in Accounts, a \notin Disturbed', NEW r \in Calls,
           Charges(r, a) \/ Refunded(r, a)
    PROVE  Ledger!Next
<1>1. Disturbed' = Disturbed
  BY ChargeDisturbs
<1>2. ASSUME NEW b \in Accounts, NEW q \in Calls, <<b, q>> # <<a, r>>
      PROVE  Phase(b, q)' = Phase(b, q)
  <2>1. CASE b \in Disturbed
    BY <1>1, <2>1 DEF PhasesStand, Accounts
  <2>2. CASE b \notin Disturbed
    BY <1>1, <1>2, <2>2, OneMoves, PhaseStep
  <2>3. QED
    BY <2>1, <2>2
<1>3. ASSUME NEW from, NEW to, Phase(a, r) = from, Phase(a, r)' = to
      PROVE  Ledger!Move(a, r, from, to)
  <2>1. phases' = [phases EXCEPT ![a][r] = to]
    BY <1>2, <1>3 DEF phases, Accounts
  <2>2. phases[a][r] = from
    BY <1>3 DEF phases
  <2>3. QED
    BY <1>1, <2>1, <2>2 DEF Ledger!Move
<1>4. CASE Charges(r, a)
  <2>1. Ledger!Charge(a, r)
    BY <1>3, <1>4, PhaseStep DEF Ledger!Charge
  <2>2. QED
    BY <2>1 DEF Ledger!Next
<1>5. CASE Refunded(r, a) /\ ~Charges(r, a)
  <2>1. Ledger!Release(a, r)
    BY <1>3, <1>5, PhaseStep DEF Ledger!Release
  <2>2. QED
    BY <2>1 DEF Ledger!Next
<1>6. QED
  BY <1>4, <1>5

(* Any other step changes no phase, except of accounts it disturbs.        *)
LEMMA LedgerStays ==
    ASSUME IInv, BooksInv, PhasesStand, PhasesStand', [Next]_vars,
           \A a \in Accounts, r \in Calls :
               a \notin Disturbed' => ~Charges(r, a) /\ ~Refunded(r, a)
    PROVE  Ledger!Next
<1>1. Disturbed \subseteq Disturbed' /\ Disturbed' \subseteq Accounts
  BY DisturbedGrows DEF Disturbed, Accounts
<1>2. \A a \in Accounts, r \in Calls :
          Phase(a, r)' = IF a \in Disturbed' THEN "none" ELSE Phase(a, r)
  <2>1. SUFFICES ASSUME NEW a \in Accounts, NEW r \in Calls
                 PROVE  Phase(a, r)' = IF a \in Disturbed' THEN "none" ELSE Phase(a, r)
    OBVIOUS
  <2>2. CASE a \in Disturbed'
    BY <2>2 DEF PhasesStand, Accounts
  <2>3. CASE a \notin Disturbed'
    BY <2>3, PhaseStep
  <2>4. QED
    BY <2>2, <2>3
<1>3. phases' = [a \in Accounts |-> IF a \in Disturbed' THEN Ledger!Untouched ELSE phases[a]]
  BY <1>2 DEF phases, Ledger!Untouched, Accounts
<1>4. Disturbed' = Disturbed \cup Disturbed'
  BY <1>1
<1>5. Ledger!Void(Disturbed')
  BY <1>3, <1>4 DEF Ledger!Void
<1>6. QED
  BY <1>1, <1>5 DEF Ledger!Next

(* LeaveRequests implements LeaveLedger: on an account that nothing        *)
(* disturbs, however the calls interleave and wherever they stop, a        *)
(* request is charged at most once, refunded at most once and after its    *)
(* charge, and never charged again.                                        *)
THEOREM ImplementsLedger == Spec => ChargedOnceRefundedOnce
<1>1. Init => Ledger!Init
  BY DEF Init, Ledger!Init, Ledger!Untouched, phases, Phase, Disturbed, Shared, NoRows, IsTable,
     Refunding, Deciding
<1>2. PhasesStand /\ PhasesStand' /\ IInv /\ BooksInv /\ [Next]_vars => Ledger!Next
  BY LedgerMoves, LedgerStays
<1>3. IInv /\ BooksInv /\ BooksBalance => PhasesStand
  BY PhaseStands
<1>4. Ledger!Spec <=> Ledger!Init /\ [][Ledger!Next]_<<Disturbed, phases>>
  BY DEF Ledger!Spec
<1>5. QED
  BY BooksInductive, <1>1, <1>2, <1>3, <1>4, PTL DEF Spec, ChargedOnceRefundedOnce
=============================================================================
