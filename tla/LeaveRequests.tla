---------------------------- MODULE LeaveRequests ----------------------------
(***************************************************************************)
(* Leave requests and the balances they are charged to, as the handlers of *)
(* LeaveManagementService change them.  Every await of a handler is a step *)
(* of its own, between which the other handlers in flight run; nothing in  *)
(* the service opens a transaction.  A handler keeps the rows it has read  *)
(* in row[h] and writes them back whole.                                   *)
(*                                                                         *)
(* A call h is one HTTP request.  The uuid of the request row or of the    *)
(* history row that a call inserts is the call itself: a call inserts at   *)
(* most one of each.                                                       *)
(*                                                                         *)
(* used and total are decimal strings that are only added to, so each is   *)
(* kept as the sum it stands for: used[r][u] is how often the amount of    *)
(* request r, in unit u, has been charged, and total is the set of manual  *)
(* adjustments that have been added to the opening amount.                 *)
(***************************************************************************)
EXTENDS Integers, Rows

CONSTANTS
    Employees,
    Categories,
    Balances,    \* ids of balance rows; bounds how many are ever inserted
    Calls        \* HTTP calls; bounds how many are ever made

VARIABLES
    active,      \* employees whose row exists with status != 'Non Active'
    category,    \* ids stored in hrm_leave_categories
    unit,        \* the timeUnit column of a category
    balance,     \* hrm_leave_balances
    request,     \* hrm_leave_requests
    history,     \* hrm_leave_history
    notified,    \* requests whose approvers have a 'leaveRequest' notification
    pc,          \* where each call is in its handler
    call,        \* what each call asks for
    row,         \* the balance row each call has read
    blots        \* history variable: what has disturbed the books of an account

tables == <<balance, request, history, notified>>
vars   == <<active, category, unit, tables, pc, call, row, blots>>

Units    == {"DAYS", "HOURS"}
Refunds  == {"denied", "withdrawn"}
Statuses == {"pending", "approved"} \cup Refunds
Accounts == Employees \X Categories
Cause    == {"lostUpdate", "abandoned", "redecided", "deleted", "unitEdited"}

BalanceRow == [emp: Employees, cat: Categories,
               used: [Calls -> [Units -> Int]], total: SUBSET Calls]
RequestRow == [emp: Employees, cat: Categories, status: Statuses]
HistoryRow == [emp: Employees, cat: Categories, action: Statuses \cup {"manual"}]

PostSteps == {"post_read", "post_charge", "post_log", "post_store", "post_notify"}
PutSteps  == {"put_read", "put_log", "put_balance", "put_store", "put_notify"}
AdjSteps  == {"adj_log", "adj_save"}
InFlight  == PostSteps \cup PutSteps \cup AdjSteps
Steps     == InFlight \cup {"idle", "done", "failed"}

Ops  == {"post", "put", "adjust"}
Call == [op: Ops, emp: Employees, cat: Categories, req: Calls,
         status: Statuses \cup {"manual"}, known: BOOLEAN]
Copy == [id: Balances, data: BalanceRow, unit: Units]

Asks(op, e, c, r, s, known) ==
    [op |-> op, emp |-> e, cat |-> c, req |-> r, status |-> s, known |-> known]

Fresh(e, c) == [emp |-> e, cat |-> c, total |-> {},
                used |-> [r \in Calls |-> [u \in Units |-> 0]]]

Goto(h, from, to) == pc[h] = from /\ pc' = [pc EXCEPT ![h] = to]
Account(k)        == <<k.emp, k.cat>>
Blame(as, causes) == blots' = [a \in Accounts |->
                                 IF a \in as THEN blots[a] \cup causes ELSE blots[a]]
NoBlame           == blots' = blots

Init ==
    /\ active \in SUBSET Employees
    /\ category = {}
    /\ unit \in [Categories -> Units]
    /\ balance = NoRows
    /\ request = NoRows
    /\ history = NoRows
    /\ notified = {}
    /\ pc = [h \in Calls |-> "idle"]
    /\ call = NoRows
    /\ row = NoRows
    /\ blots = [a \in Accounts |-> {}]

(* SELECT b.* FROM hrm_leave_balances b JOIN hrm_leave_categories p ON ... *)
(* takes any row [0] of those that match.                                  *)
Joined(e, c) == {b \in DOMAIN balance :
                    balance[b].emp = e /\ balance[b].cat = c /\ c \in category}

ReadBalance(h, rows) ==
    \E b \in rows : row' = Save(row, h, [id |-> b, data |-> balance[b],
                                         unit |-> unit[call[h].cat]])

(* The copy of the balance with the amount of the call's request added n   *)
(* times to used.                                                          *)
Add(used, r, u, n) == [used EXCEPT ![r][u] = @ + n]

Charged(h, n) ==
    [row[h].data EXCEPT !.used = Add(@, call[h].req, row[h].unit, n)]

(* Saving the copy undoes any save made since the copy was read.           *)
SaveBalance(h, data) ==
    /\ balance' = Save(balance, row[h].id, data)
    /\ Blame({Account(call[h])},
             IF balance[row[h].id] # row[h].data THEN {"lostUpdate"} ELSE {})

SaveHistory(h, id, action) ==
    history' = Save(history, id, [emp |-> call[h].emp, cat |-> call[h].cat,
                                  action |-> action])
-----------------------------------------------------------------------------
(* Slips that a change to the handlers could make.  None is a disjunct of  *)
(* Next; each stands in for the action it is named after, to show that the *)
(* properties notice it.                                                   *)

(* The request is linked to a history row that is never saved. *)
PostSaveHistory_NotSaved(h) ==
    /\ Goto(h, "post_log", "post_store")
    /\ NoBlame /\ UNCHANGED <<active, category, unit, tables, call, row>>

(* A decision gets a history row of its own, as a POST does. *)
PutSaveHistory_NewRow(h) ==
    /\ Goto(h, "put_log", "put_balance")
    /\ SaveHistory(h, h, call[h].status)
    /\ NoBlame
    /\ UNCHANGED <<active, category, unit, balance, request, notified, call, row>>

(* The test of the status is lost: an approval refunds as well. *)
PutSaveBalance_AlwaysRefunds(h) ==
    /\ h \in DOMAIN row
    /\ Goto(h, "put_balance", "put_store")
    /\ SaveBalance(h, Charged(h, -1))
    /\ UNCHANGED <<active, category, unit, request, history, notified, call, row>>

(* An approval charges the balance that the POST has charged already. *)
PutSaveBalance_ChargesApproval(h) ==
    /\ h \in DOMAIN row
    /\ Goto(h, "put_balance", "put_store")
    /\ SaveBalance(h, Charged(h, IF call[h].status \in Refunds THEN -1 ELSE 1))
    /\ UNCHANGED <<active, category, unit, request, history, notified, call, row>>

(* The adjustment replaces the total instead of being added to it. *)
AdjSaveBalance_Replaces(h) ==
    /\ Goto(h, "adj_save", "done")
    /\ SaveBalance(h, [row[h].data EXCEPT !.total = {h}])
    /\ UNCHANGED <<active, category, unit, request, history, notified, call, row>>
-----------------------------------------------------------------------------
(* POST leaves/requests: postLeaveRequest *)

PostReadEmployee(h) ==
    /\ Goto(h, "idle", "post_read")
    /\ \E e \in Employees, c \in Categories, s \in {"pending", "approved"} :
         call' = Save(call, h, Asks("post", e, c, h, s, e \in active))
    /\ NoBlame /\ UNCHANGED <<active, category, unit, tables, row>>

PostReadBalance(h) ==
    /\ pc[h] = "post_read"
    /\ LET rows == Joined(call[h].emp, call[h].cat) IN
       \/ /\ rows # {}
          /\ Goto(h, "post_read", "post_charge")
          /\ ReadBalance(h, rows)
       \/ /\ rows = {}                \* leaveBalance is undefined: TypeError
          /\ Goto(h, "post_read", "failed")
          /\ UNCHANGED row
    /\ NoBlame /\ UNCHANGED <<active, category, unit, tables, call>>

PostSaveBalance(h) ==
    /\ Goto(h, "post_charge", "post_log")
    /\ SaveBalance(h, Charged(h, 1))
    /\ UNCHANGED <<active, category, unit, request, history, notified, call, row>>

PostSaveHistory(h) ==
    /\ Goto(h, "post_log", "post_store")
    /\ SaveHistory(h, h, call[h].status)
    /\ NoBlame
    /\ UNCHANGED <<active, category, unit, balance, request, notified, call, row>>

PostSaveRequest(h) ==
    /\ Goto(h, "post_store", "post_notify")
    /\ call[h].known
    /\ request' = Save(request, h, [emp |-> call[h].emp, cat |-> call[h].cat,
                                    status |-> call[h].status])
    /\ NoBlame
    /\ UNCHANGED <<active, category, unit, balance, history, notified, call, row>>

(* employee.companyId on an undefined employee: TypeError *)
PostUnknownEmployee(h) ==
    /\ Goto(h, "post_store", "failed")
    /\ ~call[h].known
    /\ Blame({Account(call[h])}, {"abandoned"})
    /\ UNCHANGED <<active, category, unit, tables, call, row>>

(* The emails to the approvers come last, and preparing one may throw. *)
PostNotify(h) ==
    /\ \E end \in {"done", "failed"} : Goto(h, "post_notify", end)
    /\ notified' = notified \cup {h}
    /\ NoBlame
    /\ UNCHANGED <<active, category, unit, balance, request, history, call, row>>
-----------------------------------------------------------------------------
(* PUT leaves/requests: putLeaveRequest.  A call for an id that is not     *)
(* stored throws at leaveRequest[0] and changes nothing.                   *)

Deciding(r) == {h \in DOMAIN call : call[h].op = "put" /\ call[h].req = r
                                    /\ pc[h] \in PutSteps}

PutReadRequest(h) ==
    /\ Goto(h, "idle", "put_read")
    /\ \E r \in DOMAIN request, s \in {"approved"} \cup Refunds :
         /\ call' = Save(call, h, Asks("put", request[r].emp, request[r].cat,
                                       r, s, TRUE))
         /\ Blame({Account(request[r])},
                  IF request[r].status \in Refunds \/ Deciding(r) # {}
                  THEN {"redecided"} ELSE {})
    /\ UNCHANGED <<active, category, unit, tables, row>>

PutReadBalance(h) ==
    /\ pc[h] = "put_read"
    /\ LET rows == Joined(call[h].emp, call[h].cat) IN
       \/ /\ rows # {}
          /\ Goto(h, "put_read", "put_log")
          /\ ReadBalance(h, rows)
       \/ /\ rows = {} /\ call[h].status \notin Refunds
          /\ Goto(h, "put_read", "put_log")
          /\ UNCHANGED row
       \/ /\ rows = {} /\ call[h].status \in Refunds   \* TypeError at .used
          /\ Goto(h, "put_read", "failed")
          /\ UNCHANGED row
    /\ NoBlame /\ UNCHANGED <<active, category, unit, tables, call>>

PutSaveHistory(h) ==
    /\ Goto(h, "put_log", "put_balance")
    /\ SaveHistory(h, call[h].req, call[h].status)
    /\ NoBlame
    /\ UNCHANGED <<active, category, unit, balance, request, notified, call, row>>

PutSaveBalance(h) ==
    /\ h \in DOMAIN row
    /\ Goto(h, "put_balance", "put_store")
    /\ SaveBalance(h, IF call[h].status \in Refunds THEN Charged(h, -1)
                                                    ELSE row[h].data)
    /\ UNCHANGED <<active, category, unit, request, history, notified, call, row>>

(* delete leaveBalance.timeUnit on an undefined balance: TypeError *)
PutNoBalance(h) ==
    /\ h \notin DOMAIN row
    /\ Goto(h, "put_balance", "failed")
    /\ Blame({Account(call[h])}, {"abandoned"})
    /\ UNCHANGED <<active, category, unit, tables, call, row>>

PutSaveRequest(h) ==
    /\ Goto(h, "put_store", "put_notify")
    /\ request' = Save(request, call[h].req,
                       [emp |-> call[h].emp, cat |-> call[h].cat,
                        status |-> call[h].status])
    /\ NoBlame
    /\ UNCHANGED <<active, category, unit, balance, history, notified, call, row>>

(* The 'alert' to the requester carries no reference to the request. *)
PutNotify(h) ==
    /\ Goto(h, "put_notify", "done")
    /\ NoBlame /\ UNCHANGED <<active, category, unit, tables, call, row>>
-----------------------------------------------------------------------------
(* PUT leaves/balances: putLeaveBalance reads the balance without joining  *)
(* its category.  Without a row it throws and changes nothing.             *)

AdjReadBalance(h) ==
    /\ Goto(h, "idle", "adj_log")
    /\ \E b \in DOMAIN balance :
         /\ call' = Save(call, h, Asks("adjust", balance[b].emp, balance[b].cat,
                                       h, "manual", TRUE))
         /\ row' = Save(row, h, [id |-> b, data |-> balance[b],
                                 unit |-> unit[balance[b].cat]])
    /\ NoBlame /\ UNCHANGED <<active, category, unit, tables>>

AdjSaveHistory(h) ==
    /\ Goto(h, "adj_log", "adj_save")
    /\ SaveHistory(h, h, "manual")
    /\ NoBlame
    /\ UNCHANGED <<active, category, unit, balance, request, notified, call, row>>

AdjSaveBalance(h) ==
    /\ Goto(h, "adj_save", "done")
    /\ SaveBalance(h, [row[h].data EXCEPT !.total = @ \cup {h}])
    /\ UNCHANGED <<active, category, unit, request, history, notified, call, row>>
-----------------------------------------------------------------------------
(* Any await may throw and the process may stop: the handler is left where *)
(* it is, its catch clause logs, and what it saved stays.                  *)
Abort(h) ==
    /\ pc[h] \in InFlight
    /\ pc' = [pc EXCEPT ![h] = "failed"]
    /\ Blame({Account(call[h])},
             IF pc[h] \in {"post_log", "post_store", "put_balance", "put_store",
                           "adj_save"} THEN {"abandoned"} ELSE {})
    /\ UNCHANGED <<active, category, unit, tables, call, row>>

(* DELETE request/:id: deleteRequestById *)
DeleteRequest(r) ==
    /\ r \in DOMAIN request
    /\ request' = Delete(request, r)
    /\ Blame({Account(request[r])}, {"deleted"})
    /\ UNCHANGED <<active, category, unit, balance, history, notified, pc, call, row>>

(* The single statements through which the handlers of LeaveCategories,    *)
(* which has their control, reach the tables of this module.               *)
OpenBalance(e, c) ==
    /\ \E b \in Balances \ DOMAIN balance :
         balance' = Save(balance, b, Fresh(e, c))
    /\ UNCHANGED <<active, category, unit, request, history, notified, pc, call, row>>
    /\ NoBlame

(* A hire saves all the categories it has read by one statement. *)
SaveCategories(timeUnit) ==
    /\ category' = category \cup DOMAIN timeUnit
    /\ unit' = [c \in Categories |->
                    IF c \in DOMAIN timeUnit THEN timeUnit[c] ELSE unit[c]]
    /\ Blame(Employees \X {c \in DOMAIN timeUnit : timeUnit[c] # unit[c]},
             {"unitEdited"})
    /\ UNCHANGED <<active, tables, pc, call, row>>

DeleteCategory(c) ==
    /\ category' = category \ {c}
    /\ UNCHANGED <<active, unit, tables, pc, call, row>> /\ NoBlame

ChangeEmployeeStatus(e) ==
    /\ active' = IF e \in active THEN active \ {e} ELSE active \cup {e}
    /\ UNCHANGED <<category, unit, tables, pc, call, row>> /\ NoBlame
-----------------------------------------------------------------------------
Post(h) ==
    \/ PostReadEmployee(h) \/ PostReadBalance(h) \/ PostSaveBalance(h)
    \/ PostSaveHistory(h) \/ PostSaveRequest(h) \/ PostUnknownEmployee(h)
    \/ PostNotify(h)

Put(h) ==
    \/ PutReadRequest(h) \/ PutReadBalance(h) \/ PutSaveHistory(h)
    \/ PutSaveBalance(h) \/ PutNoBalance(h) \/ PutSaveRequest(h) \/ PutNotify(h)

Adjust(h) == AdjReadBalance(h) \/ AdjSaveHistory(h) \/ AdjSaveBalance(h)

Categorise ==
    \/ \E e \in Employees, c \in Categories : OpenBalance(e, c)
    \/ \E cs \in SUBSET Categories : \E timeUnit \in [cs -> Units] :
         SaveCategories(timeUnit)
    \/ \E c \in Categories : DeleteCategory(c)

Next ==
    \/ \E h \in Calls : Post(h) \/ Put(h) \/ Adjust(h) \/ Abort(h)
    \/ \E r \in Calls : DeleteRequest(r)
    \/ \E e \in Employees : ChangeEmployeeStatus(e)
    \/ Categorise

Spec == Init /\ [][Next]_vars
-----------------------------------------------------------------------------
TypeOK ==
    /\ active \subseteq Employees
    /\ category \subseteq Categories
    /\ unit \in [Categories -> Units]
    /\ IsTable(balance, Balances, BalanceRow)
    /\ IsTable(request, Calls, RequestRow)
    /\ IsTable(history, Calls, HistoryRow)
    /\ notified \subseteq Calls
    /\ pc \in [Calls -> Steps]
    /\ IsTable(call, Calls, Call)
    /\ IsTable(row, Calls, Copy)
    /\ blots \in [Accounts -> SUBSET Cause]

(* Whatever interleaves and whatever fails, a stored request has a history *)
(* row, and the row speaks of the same employee and category: historyId    *)
(* never dangles.  (postLeaveRequest saves the history first.)             *)
RequestsAreLogged ==
    \A r \in DOMAIN request :
        /\ r \in DOMAIN history
        /\ Account(history[r]) = Account(request[r])
        /\ history[r].action # "manual"

(* Whatever interleaves and whatever fails, every adjustment that is part  *)
(* of a total has its 'Manual' history row, on the same account.           *)
AdjustmentsAreLogged ==
    \A b \in DOMAIN balance : \A x \in balance[b].total :
        /\ x \in DOMAIN history
        /\ history[x].action = "manual"
        /\ Account(history[x]) = Account(balance[b])

(* The history of an account is complete: whatever interleaves and fails,  *)
(* what is stored in the requests and totals has its row there.            *)
HistoryIsThere == RequestsAreLogged /\ AdjustmentsAreLogged

Filing(r) == r \in DOMAIN call /\ call[r].op = "post"
             /\ pc[r] \in {"post_log", "post_store"}

Refunding(r) == \E h \in Deciding(r) : pc[h] = "put_store" /\ call[h].status \in Refunds

(* Whether request r has an amount to contribute to used: from the save of *)
(* the charge until the save of the refund.                                *)
Outstanding(r, a) ==
    \/ Filing(r) /\ Account(call[r]) = a
    \/ /\ r \in DOMAIN request /\ Account(request[r]) = a
       /\ request[r].status \notin Refunds
       /\ ~Refunding(r)

(* Two balance rows: the handlers charge either. *)
Shared(a) == \E b, d \in DOMAIN balance :
                b # d /\ Account(balance[b]) = a /\ Account(balance[d]) = a

(* Accounts of whose books nothing is promised. *)
Disturbed == {a \in Accounts : blots[a] # {} \/ Shared(a)}

(* used is the sum of the account's outstanding requests in the category's *)
(* unit, unless the books of the account were disturbed in one of the ways *)
(* blots names or the account has two balance rows.  There is no further   *)
(* way for used to drift, whatever interleaves.                            *)
BooksBalance ==
    \A b \in DOMAIN balance :
        LET a == Account(balance[b]) IN
        a \notin Disturbed =>
            \A r \in Calls, u \in Units :
                balance[b].used[r][u] =
                    IF u = unit[balance[b].cat] /\ Outstanding(r, a) THEN 1 ELSE 0

(* total holds every adjustment the history shows for the account, except  *)
(* one whose handler is about to save it, unless a save was undone or a    *)
(* handler abandoned, or the account has two balance rows.                 *)
TotalIsExplained ==
    \A b \in DOMAIN balance :
        LET a == Account(balance[b]) IN
        \/ Shared(a) \/ blots[a] \cap {"lostUpdate", "abandoned"} # {}
        \/ \A x \in DOMAIN history :
              history[x].action = "manual" /\ Account(history[x]) = a =>
                  x \in balance[b].total \/ pc[x] = "adj_save"

(* The history row of a request shows the status the request has, except   *)
(* while a decision is between its two saves, unless a decision was        *)
(* abandoned or made twice.                                                *)
HistoryAgrees ==
    \A r \in DOMAIN request :
        \/ history[r].action = request[r].status
        \/ \E h \in Deciding(r) : pc[h] \in {"put_balance", "put_store"}
        \/ blots[Account(request[r])] \cap {"abandoned", "redecided"} # {}

(* What LeaveLedger would call the phase of request r on account a.        *)
Phase(a, r) ==
    IF a \in Disturbed THEN "none"
    ELSE IF \E b \in DOMAIN balance : /\ Account(balance[b]) = a
                                      /\ balance[b].used[r][unit[a[2]]] = 1
    THEN "charged"
    ELSE IF /\ r \in DOMAIN request /\ Account(request[r]) = a
            /\ request[r].status \in Refunds \/ Refunding(r)
    THEN "released"
    ELSE "none"

phases == [a \in Accounts |-> [r \in Calls |-> Phase(a, r)]]

Ledger == INSTANCE LeaveLedger WITH
    Requests <- Calls,
    void     <- Disturbed,
    phase    <- phases

(* On an account that nothing has disturbed, every request is charged at   *)
(* most once and refunded at most once, the refund never precedes the      *)
(* charge, and a refunded request is never charged again.                  *)
ChargedOnceRefundedOnce == Ledger!Spec
-----------------------------------------------------------------------------
(* The inductive strengthening of the safety properties.  CallsInv ties a  *)
(* call to its place in the handler, RowsInv a copied balance row to the   *)
(* row it came from, LogsInv the history to the calls that wrote it.       *)

CallsInv ==
    /\ \A h \in Calls : pc[h] = "idle" <=> h \notin DOMAIN call
    /\ \A h \in DOMAIN call :
         /\ pc[h] \in PostSteps => call[h].op = "post"
         /\ pc[h] \in PutSteps => call[h].op = "put"
         /\ pc[h] \in AdjSteps => call[h].op = "adjust"
         /\ call[h].op # "put" => call[h].req = h
         /\ call[h].op # "adjust" => call[h].status # "manual"

RowsInv ==
    /\ \A h \in Calls :
         pc[h] \in {"post_charge", "adj_log", "adj_save"} => h \in DOMAIN row
    /\ \A h \in DOMAIN row :
         /\ h \in DOMAIN call
         /\ row[h].id \in DOMAIN balance
         /\ Account(row[h].data) = Account(call[h])
         /\ Account(balance[row[h].id]) = Account(call[h])

LogsInv ==
    /\ \A r \in DOMAIN history :
         /\ r \in DOMAIN call
         /\ Account(history[r]) = Account(call[r])
         /\ history[r].action = "manual" <=> call[r].op = "adjust"
         /\ call[r].op # "put"
    /\ \A r \in DOMAIN request :
         /\ r \in DOMAIN history
         /\ Account(request[r]) = Account(history[r])
         /\ call[r].op = "post"
    /\ \A h \in DOMAIN call :
         /\ call[h].op = "put" =>
              /\ call[h].req \in DOMAIN history
              /\ Account(history[call[h].req]) = Account(call[h])
              /\ call[call[h].req].op = "post"
         /\ pc[h] \in {"post_store", "post_notify", "adj_save"} =>
              h \in DOMAIN history

AdjustmentLogged(x, d) ==
    /\ x \in DOMAIN history
    /\ history[x].action = "manual"
    /\ Account(history[x]) = Account(d)

TotalsInv ==
    /\ \A b \in DOMAIN balance : \A x \in balance[b].total :
         AdjustmentLogged(x, balance[b])
    /\ \A h \in DOMAIN row : \A x \in row[h].data.total :
         AdjustmentLogged(x, row[h].data)

IInv == TypeOK /\ CallsInv /\ RowsInv /\ LogsInv /\ TotalsInv

(* The further strengthening for the books.  FiledInv: a request is stored *)
(* and decided only after its balance was charged.  UnitsInv: a copied     *)
(* balance row is counted in the unit of its category.  DecidedInv: who    *)
(* decides a request decides it alone, finds it stored and not refunded,   *)
(* and has its decision in the history before it is saved.                 *)
Filed == {"post_notify", "done", "failed"}

FiledInv ==
    /\ \A r \in DOMAIN request : pc[r] \in Filed /\ r \in DOMAIN row
    /\ \A h \in DOMAIN call :
         /\ call[h].op = "put" => pc[call[h].req] \in Filed /\ call[h].req \in DOMAIN row
         /\ call[h].op = "adjust" => h \in DOMAIN row
         /\ pc[h] \in {"post_log", "post_store"} => h \in DOMAIN row
         /\ pc[h] = "post_store" => history[h].action = call[h].status
         /\ call[h].op = "post" => call[h].status \notin Refunds

UnitsInv ==
    \A h \in DOMAIN row :
        LET a == Account(call[h]) IN
        "unitEdited" \in blots[a] \/ row[h].unit = unit[a[2]]

DecidedWell(r, h) ==
    LET causes == blots[Account(call[h])] IN
    /\ "redecided" \in causes \/ \A g \in Deciding(r) : g = h
    /\ "redecided" \in causes
         \/ (pc[h] \in {"put_balance", "put_store"} => history[r].action = call[h].status)
    /\ causes \cap {"redecided", "deleted"} # {} \/ pc[h] = "put_notify"
         \/ (r \in DOMAIN request /\ request[r].status \notin Refunds)

DecidedInv == \A r \in Calls : \A h \in Deciding(r) : DecidedWell(r, h)

BooksInv == FiledInv /\ UnitsInv /\ DecidedInv
=============================================================================
