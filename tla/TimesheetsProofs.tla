--------------------------- MODULE TimesheetsProofs ---------------------------
(***************************************************************************)
(* Proofs about Timesheets, for every number of entries and calls.         *)
(***************************************************************************)
EXTENDS Timesheets, TLAPS

-----------------------------------------------------------------------------
(* The entry rows of a request are a table of entry rows. *)
LEMMA RowsAreTables ==
    ASSUME NEW f
    PROVE  f \in EntryRows <=> IsTable(f, Entries, EntryRow)
<1>1. f \in EntryRows => IsTable(f, Entries, EntryRow)
  BY DEF EntryRows, IsTable
<1>2. IsTable(f, Entries, EntryRow) => f \in EntryRows
  BY DEF EntryRows, IsTable
<1>3. QED
  BY <1>1, <1>2

(* Marking the rows of a request changes flags only: those the status      *)
(* speaks of.                                                              *)
LEMMA MarkedRows ==
    ASSUME NEW rows \in EntryRows, NEW s \in Statuses
    PROVE  /\ Mark(rows, s) \in EntryRows
           /\ DOMAIN Mark(rows, s) = DOMAIN rows
           /\ s = "denied" => Mark(rows, s) = rows
           /\ \A n \in DOMAIN rows :
                ~ rows[n].approved /\ (rows[n].requested \/ s = "pending")
                  => Told(Mark(rows, s)[n], s)
<1>1. IsTable(rows, Entries, EntryRow)
  BY RowsAreTables
<1>2. DOMAIN Mark(rows, s) = DOMAIN rows
  BY DEF Mark
<1>3. ASSUME NEW n \in DOMAIN rows
      PROVE  /\ Mark(rows, s)[n] \in EntryRow
             /\ s = "denied" => Mark(rows, s)[n] = rows[n]
             /\ ~ rows[n].approved /\ (rows[n].requested \/ s = "pending")
                  => Told(Mark(rows, s)[n], s)
  <2>1. rows[n] \in EntryRow
    BY <1>1 DEF IsTable
  <2>2. CASE s = "pending"
    BY <2>1, <2>2 DEF Mark, EntryRow, Told
  <2>3. CASE s = "approved"
    BY <2>1, <2>3 DEF Mark, EntryRow, Told
  <2>4. CASE s = "withdrawn"
    BY <2>1, <2>4 DEF Mark, EntryRow, Told
  <2>5. CASE s = "denied"
    BY <2>1, <2>5 DEF Mark, EntryRow, Told
  <2>6. QED
    BY <2>2, <2>3, <2>4, <2>5 DEF Statuses
<1>4. Mark(rows, s) \in [DOMAIN rows -> EntryRow]
  BY <1>3 DEF Mark
<1>5. Mark(rows, s) \in EntryRows
  BY <1>1, <1>2, <1>4, RowsAreTables DEF IsTable
<1>6. s = "denied" => Mark(rows, s) = rows
  BY <1>1, <1>3 DEF Mark, IsTable
<1>7. QED
  BY <1>2, <1>3, <1>5, <1>6

(* The fields of a call and of what it has read have their types. *)
LEMMA CallFields ==
    ASSUME TypeOK, NEW h \in DOMAIN call
    PROVE  /\ h \in Calls
           /\ call[h] \in Call
           /\ call[h].op \in Ops
           /\ call[h].req \in Calls
           /\ call[h].on \subseteq Entries
  BY DEF TypeOK, IsTable, Call

LEMMA CopyFields ==
    ASSUME TypeOK, NEW h \in DOMAIN copy
    PROVE  /\ copy[h] \in RequestRow
           /\ copy[h].status \in Statuses
           /\ copy[h].rows \in EntryRows
           /\ DOMAIN copy[h].rows \subseteq Entries
           /\ \A n \in DOMAIN copy[h].rows : copy[h].rows[n] \in EntryRow
<1>1. copy[h] \in RequestRow
  BY DEF TypeOK, IsTable
<1>2. copy[h].rows \in EntryRows
  BY <1>1 DEF RequestRow
<1>3. QED
  BY <1>1, <1>2, RowsAreTables DEF RequestRow, IsTable

LEMMA RequestFields ==
    ASSUME TypeOK, NEW r \in DOMAIN request
    PROVE  /\ r \in Calls
           /\ request[r] \in RequestRow
           /\ request[r].status \in Statuses
           /\ request[r].rows \in EntryRows
           /\ DOMAIN request[r].rows \subseteq Entries
           /\ \A n \in DOMAIN request[r].rows : request[r].rows[n] \in EntryRow
<1>1. r \in Calls /\ request[r] \in RequestRow
  BY DEF TypeOK, IsTable
<1>2. request[r].rows \in EntryRows
  BY <1>1 DEF RequestRow
<1>3. QED
  BY <1>1, <1>2, RowsAreTables DEF RequestRow, IsTable

(* What has come between an entry and its copies is not forgotten. *)
LEMMA BlameType ==
    ASSUME TypeOK, NEW ns, NEW cause \in Cause, Blame(ns, cause)
    PROVE  /\ blots' \in [Entries -> SUBSET Cause]
           /\ \A n \in Entries : blots[n] \subseteq blots'[n]
           /\ \A n \in Entries : n \in ns => cause \in blots'[n]
           /\ \A n \in Entries : n \notin ns => blots'[n] = blots[n]
  BY DEF TypeOK, Blame

(* Saving one entry leaves the others as they were. *)
LEMMA SavedEntry ==
    ASSUME TypeOK, NEW h \in DOMAIN copy, NEW n \in DOMAIN copy[h].rows, SaveEntry(h, n)
    PROVE  /\ IsTable(entry', Entries, EntryRow)
           /\ DOMAIN entry' = DOMAIN entry \cup {n}
           /\ entry'[n] = copy[h].rows[n]
           /\ \A m \in DOMAIN entry : m # n => entry'[m] = entry[m]
<1>1. copy[h].rows[n] \in EntryRow /\ n \in Entries
  BY CopyFields
<1>2. entry' = Save(entry, n, copy[h].rows[n])
  BY DEF SaveEntry
<1>3. IsTable(entry, Entries, EntryRow)
  BY DEF TypeOK
<1>4. IsTable(entry', Entries, EntryRow)
  BY <1>1, <1>2, <1>3 DEF Save, IsTable
<1>5. /\ DOMAIN entry' = DOMAIN entry \cup {n}
      /\ entry'[n] = copy[h].rows[n]
      /\ \A m \in DOMAIN entry : m # n => entry'[m] = entry[m]
  BY <1>2 DEF Save
<1>6. QED
  BY <1>4, <1>5

(* A step of a call that has been made moves that call alone. *)
LEMMA Moved ==
    ASSUME TypeOK, NEW h \in Calls, NEW from, NEW to \in Steps, Goto(h, from, to)
    PROVE  /\ pc[h] = from /\ pc'[h] = to
           /\ pc' \in [Calls -> Steps]
           /\ \A g \in Calls : g # h => pc'[g] = pc[g]
  BY DEF TypeOK, Goto

-----------------------------------------------------------------------------
(* Initially *)
LEMMA InitInv == Init => IInv
<1> SUFFICES ASSUME Init PROVE IInv
  OBVIOUS
<1>1. /\ DOMAIN request = {} /\ DOMAIN call = {} /\ DOMAIN copy = {} /\ DOMAIN todo = {}
  BY DEF Init, NoRows, IsTable
<1>2. IsTable(entry, Entries, EntryRow)
  <2>1. PICK ns \in SUBSET Entries : \E d \in [ns -> Data] :
          entry = [n \in ns |-> [data |-> d[n], requested |-> FALSE, approved |-> FALSE]]
    BY DEF Init
  <2>2. QED
    BY <2>1 DEF IsTable, EntryRow
<1>3. TypeOK
  BY <1>2 DEF Init, TypeOK, Steps, NoRows, IsTable
<1>4. CallsInv
  BY <1>1 DEF Init, CallsInv
<1>5. RaceInv /\ SoleInv /\ SnapInv /\ FlagsInv
  BY <1>1 DEF RaceInv, SoleInv, SnapInv, FlagsInv, Active, Lists
<1>6. QED
  BY <1>3, <1>4, <1>5 DEF IInv
-----------------------------------------------------------------------------
(* What a step of one call leaves alone: the other calls. *)
Others(h) ==
    /\ DOMAIN call' \ {h} = DOMAIN call \ {h}
    /\ DOMAIN copy' \ {h} = DOMAIN copy \ {h}
    /\ DOMAIN todo' \ {h} = DOMAIN todo \ {h}
    /\ \A g \in DOMAIN call : g # h => call'[g] = call[g]
    /\ \A g \in DOMAIN copy : g # h => copy'[g] = copy[g]
    /\ \A g \in DOMAIN todo : g # h => todo'[g] = todo[g]
    /\ \A g \in Calls : g # h => pc'[g] = pc[g]

LEMMA OthersStay ==
    ASSUME TypeOK, CallsInv, NEW h, Others(h)
    PROVE  /\ \A g \in Calls : g # h => /\ Active(g)' <=> Active(g)
                                        /\ Active(g) => Held(g)' = Held(g)
           /\ \A r, g \in Calls : g # h => (g \in On(r)' <=> g \in On(r))
           /\ \A g \in Calls, n \in Entries :
                g # h /\ Active(g) => (Changed(g, n)' <=> Changed(g, n))
<1>1. \A g \in DOMAIN call : g \in Calls
  BY CallFields
<1>2. ASSUME NEW g \in Calls, g # h
      PROVE  /\ Active(g)' <=> Active(g)
             /\ Active(g) => Held(g)' = Held(g)
             /\ \A r \in Calls : g \in On(r)' <=> g \in On(r)
             /\ \A n \in Entries : Active(g) => (Changed(g, n)' <=> Changed(g, n))
  <2>1. pc'[g] = pc[g] /\ (g \in DOMAIN call' <=> g \in DOMAIN call)
        /\ (g \in DOMAIN copy' <=> g \in DOMAIN copy)
    BY <1>2 DEF Others
  <2>2. Active(g)' <=> Active(g)
    BY <2>1 DEF Active
  <2>3. ASSUME g \in DOMAIN call PROVE call'[g] = call[g]
    BY <1>2, <2>3 DEF Others
  <2>4. Active(g) => Held(g)' = Held(g)
    BY <1>2, <2>1, <2>3 DEF Others, Held, Active
  <2>5. \A r \in Calls : g \in On(r)' <=> g \in On(r)
    BY <2>1, <2>3 DEF On
  <2>6. \A n \in Entries : Active(g) => (Changed(g, n)' <=> Changed(g, n))
    <3>1. ASSUME g \in DOMAIN call, pc[g] \in DecideSteps PROVE todo'[g] = todo[g]
      BY <1>2, <3>1 DEF CallsInv, Placed, Others
    <3>2. QED
      BY <2>1, <2>3, <3>1 DEF Changed, Active
  <2>7. QED
    BY <2>2, <2>4, <2>5, <2>6
<1>3. QED
  BY <1>2

-----------------------------------------------------------------------------
(* The start of a call, and what it has read. *)
LEMMA Begun ==
    ASSUME IInv, NEW h \in Calls, NEW to \in InFlight, Goto(h, "idle", to),
           NEW c \in Call, call' = Save(call, h, c)
    PROVE  /\ h \notin DOMAIN call /\ h \notin DOMAIN copy /\ h \notin DOMAIN request
           /\ DOMAIN call' = DOMAIN call \cup {h}
           /\ call'[h] = c
           /\ \A g \in DOMAIN call : g # h /\ call'[g] = call[g]
           /\ IsTable(call', Calls, Call)
           /\ pc[h] = "idle" /\ pc'[h] = to
           /\ pc' \in [Calls -> Steps]
           /\ \A g \in Calls : g # h => pc'[g] = pc[g]
<1>1. /\ pc[h] = "idle" /\ pc'[h] = to
      /\ pc' \in [Calls -> Steps]
      /\ \A g \in Calls : g # h => pc'[g] = pc[g]
  BY Moved DEF IInv, Steps
<1>2. h \notin DOMAIN call /\ h \notin DOMAIN copy /\ h \notin DOMAIN request
  BY <1>1 DEF IInv, CallsInv
<1>3. IsTable(call', Calls, Call)
  BY DEF IInv, TypeOK, Save, IsTable
<1>4. QED
  BY <1>1, <1>2, <1>3 DEF Save

LEMMA CopyKept ==
    ASSUME TypeOK, NEW h \in Calls, NEW k \in RequestRow, copy' = Save(copy, h, k)
    PROVE  /\ IsTable(copy', Calls, RequestRow)
           /\ DOMAIN copy' = DOMAIN copy \cup {h}
           /\ copy'[h] = k
           /\ \A g \in DOMAIN copy : g # h => copy'[g] = copy[g]
<1>1. IsTable(copy', Calls, RequestRow)
  BY DEF TypeOK, Save, IsTable
<1>2. QED
  BY <1>1 DEF Save

LEMMA TodoKept ==
    ASSUME TypeOK, NEW h \in Calls, NEW k \in SUBSET Entries, todo' = Save(todo, h, k)
    PROVE  /\ IsTable(todo', Calls, SUBSET Entries)
           /\ DOMAIN todo' = DOMAIN todo \cup {h}
           /\ todo'[h] = k
           /\ \A g \in DOMAIN todo : g # h => todo'[g] = todo[g]
<1>1. IsTable(todo', Calls, SUBSET Entries)
  BY DEF TypeOK, Save, IsTable
<1>2. QED
  BY <1>1 DEF Save

(* A request to be stored. *)
LEMMA Stored ==
    ASSUME TypeOK, NEW r \in Calls, NEW k \in RequestRow, request' = Save(request, r, k)
    PROVE  /\ IsTable(request', Calls, RequestRow)
           /\ DOMAIN request' = DOMAIN request \cup {r}
           /\ request'[r] = k
           /\ \A q \in DOMAIN request : q # r => request'[q] = request[q]
<1>1. IsTable(request', Calls, RequestRow)
  BY DEF TypeOK, Save, IsTable
<1>2. QED
  BY <1>1 DEF Save

LEMMA Domains ==
    ASSUME IInv
    PROVE  /\ DOMAIN call \subseteq Calls
           /\ DOMAIN copy \subseteq DOMAIN call
           /\ DOMAIN request \subseteq DOMAIN call
  BY DEF IInv, TypeOK, IsTable, CallsInv

(* A call stays in its place when the other calls it names do.             *)
LEMMA PlacedStays ==
    ASSUME IInv, NEW h \in Calls, Others(h), NEW g \in DOMAIN call, g # h,
           call[g].op \in {"decide", "edit", "drop"} /\ call[g].req = h =>
               h \in DOMAIN call' /\ call'[h].op = "file" /\ pc'[h] \in Filed
    PROVE  Placed(g)'
<1>1. /\ g \in Calls /\ g \in DOMAIN call' /\ call'[g] = call[g] /\ pc'[g] = pc[g]
      /\ g \in DOMAIN copy' <=> g \in DOMAIN copy
      /\ g \in DOMAIN copy => copy'[g] = copy[g]
      /\ g \in DOMAIN todo' <=> g \in DOMAIN todo
      /\ g \in DOMAIN todo => todo'[g] = todo[g]
  BY Domains DEF Others
<1>2. Placed(g) /\ call[g].req \in Calls
  BY CallFields DEF IInv, CallsInv
<1>3. call[g].op \in {"decide", "edit", "drop"} =>
          /\ call[g].req \in DOMAIN call' /\ call'[call[g].req].op = "file"
          /\ pc'[call[g].req] \in Filed
  BY <1>2 DEF Placed, Others
<1>4. call[g].op \in Ops
  BY CallFields DEF IInv
<1>5. /\ pc[g] \in {"file_store", "decide_store"} => g \in DOMAIN todo
      /\ call[g].op \in {"file", "decide", "put"} \/ pc[g] = "edit_read" => g \in DOMAIN copy
  BY <1>2, <1>4 DEF Placed, FileSteps, DecideSteps, EditSteps, Ops
<1>6. QED
  BY <1>1, <1>2, <1>3, <1>4, <1>5 DEF Placed

(* What is copied: the rows of a request, and the rows of a call that has  *)
(* yet to save; and, but for a race, the entry a call has deleted.         *)
LEMMA WhatIsCopied ==
    ASSUME IInv, NEW n \in Entries, n \notin Copied
    PROVE  /\ \A r : ~ Lists(r, n)
           /\ \A g \in Calls : Active(g) /\ n \in Held(g) =>
                /\ g \notin DOMAIN copy \/ n \notin DOMAIN copy[g].rows
                /\ "raced" \in blots[n]
<1>1. \A r : ~ Lists(r, n)
  BY DEF Copied, Lists
<1>2. ASSUME NEW g \in Calls, Active(g), n \in Held(g)
      PROVE  /\ g \notin DOMAIN copy \/ n \notin DOMAIN copy[g].rows
             /\ "raced" \in blots[n]
  <2>1. g \notin DOMAIN copy \/ n \notin DOMAIN copy[g].rows
    <3> SUFFICES ASSUME g \in DOMAIN copy, n \in DOMAIN copy[g].rows PROVE n \in Copied
      OBVIOUS
    <3>1. g \in {x \in DOMAIN copy : pc[x] \in InFlight \ Telling}
      BY <1>2 DEF Active
    <3>2. DOMAIN copy[g].rows \in {DOMAIN copy[x].rows :
                    x \in {y \in DOMAIN copy : pc[y] \in InFlight \ Telling}}
      BY <3>1
    <3>3. QED
      BY <3>2 DEF Copied
  <2>2. n \in call[g].on /\ g \in DOMAIN call
    BY <1>2, <2>1 DEF Held, Active
  <2>3. call[g].op = "drop"
    BY <2>1, <2>2 DEF IInv, CallsInv, Placed
  <2>4. QED
    BY <1>1, <1>2, <2>1, <2>3 DEF IInv, RaceInv, Through
<1>3. QED
  BY <1>1, <1>2
LEMMA HeldEntries ==
    TypeOK => \A x : Active(x) => Held(x) \subseteq Entries
  BY CallFields, CopyFields DEF Active, Held

LEMMA ListedEntries ==
    TypeOK => \A r, n : Lists(r, n) => n \in Entries /\ r \in Calls
  BY RequestFields DEF Lists

-----------------------------------------------------------------------------
(* What a step of h has to show for each part of the invariant; the rest   *)
(* of the part is about the other calls and stays.                         *)
Growing == \A n \in Entries : blots[n] \subseteq blots'[n]

LEMMA RaceStays ==
    ASSUME IInv, NEW h, Others(h), Growing, CallsInv', TypeOK',
           \A r \in DOMAIN request', n \in Entries : Lists(r, n)' =>
               \/ "raced" \in blots'[n]
               \/ On(r)' \subseteq {h}
               \/ Lists(r, n) /\ On(r)' \subseteq On(r),
           \A r \in DOMAIN request, n \in Entries : Lists(r, n) =>
               \/ "raced" \in blots'[n]
               \/ /\ r \in DOMAIN request' /\ request'[r] = request[r]
                  /\ On(r)' \subseteq On(r)
               \/ \A g \in On(r) : g = h,
           Active(h)' /\ (call[h].op \in Through)' =>
               \A n \in Entries : n \in Held(h)' =>
                  \/ "raced" \in blots'[n]
                  \/ /\ Lists(call[h].req, n)' /\ Follows(h, n)'
                     /\ \A g \in On(call[h].req)' : g = h
    PROVE  RaceInv'
<1>1. (\A r, n : Lists(r, n) => n \in Entries /\ r \in Calls)'
  BY ListedEntries, PTL
<1>2. ASSUME NEW r \in DOMAIN request', NEW n \in DOMAIN request'[r].rows
      PROVE  "raced" \in blots'[n] \/ \A x, y \in On(r)' : x = y
  <2>1. n \in Entries /\ Lists(r, n)'
    BY <1>1, <1>2 DEF Lists
  <2>2. CASE Lists(r, n) /\ On(r)' \subseteq On(r)
    BY <2>1, <2>2 DEF Growing, IInv, RaceInv, Lists
  <2>3. QED
    BY <2>1, <2>2
<1>3. ASSUME NEW g \in Calls, g # h, Active(g)', (call[g].op \in Through)',
             NEW n \in Held(g)', "raced" \notin blots'[n]
      PROVE  /\ Lists(call[g].req, n)' /\ Follows(g, n)'
             /\ \A x \in On(call[g].req)' : x = g
  <2>1. g \in DOMAIN call /\ Active(g) /\ n \in Held(g) /\ call[g].op \in Ops /\ n \in Entries
    BY <1>3, OthersStay, CallFields, CopyFields DEF IInv, Active, Held
  <2>2. /\ call'[g] = call[g] /\ pc'[g] = pc[g]
        /\ g \in DOMAIN copy => copy'[g] = copy[g]
    BY <1>3, <2>1 DEF Others
  <2>3. /\ Lists(call[g].req, n) /\ Follows(g, n)
        /\ \A x \in On(call[g].req) : x = g
    BY <1>3, <2>1, <2>2 DEF IInv, RaceInv, Growing
  <2>4. PICK q \in DOMAIN request : q = call[g].req /\ Lists(q, n) /\ g \in On(q)
    BY <2>1, <2>3 DEF On, Active, Lists
  <2>5. /\ q \in DOMAIN request' /\ request'[q] = request[q]
        /\ On(q)' \subseteq On(q)
    BY <1>3, <2>1, <2>4
  <2>9. \A x \in On(q)' : x = g
    BY <2>3, <2>4, <2>5
  <2>6. pc[g] \in EditSteps \cup {"drop_store"} => g \in DOMAIN copy
    BY <2>1 DEF IInv, CallsInv, Placed
  <2>7. Follows(g, n)'
    BY <2>2, <2>3, <2>4, <2>5, <2>6 DEF Follows, EditSteps
  <2>8. Lists(call[g].req, n)' /\ \A x \in On(call[g].req)' : x = g
    BY <2>2, <2>4, <2>5, <2>9 DEF Lists, On
  <2>10. QED
    BY <2>7, <2>8
<1>4. (\A x : Active(x) => Held(x) \subseteq Entries)'
  BY HeldEntries, PTL
<1>5. ASSUME NEW x \in Calls, (Active(x) /\ call[x].op \in Through)', NEW n \in Held(x)'
      PROVE  ("raced" \in blots[n] \/ /\ Lists(call[x].req, n) /\ Follows(x, n)
                                      /\ \A g \in On(call[x].req) : g = x)'
  <2>1. CASE x = h
    BY <1>4, <1>5, <2>1
  <2>2. CASE x # h
    BY <1>3, <1>5, <2>2
  <2>3. QED
    BY <2>1, <2>2
<1>6. QED
  BY <1>2, <1>5 DEF RaceInv

LEMMA SoleStays ==
    ASSUME IInv, NEW h, Others(h), Growing, TypeOK',
           \A r \in Calls, n \in Entries : Lists(r, n)' =>
               \/ Lists(r, n)
               \/ Active(h) /\ ~ Active(h)' /\ n \in Held(h) /\ call[h].req = r,
           Active(h)' =>
               \A n \in Entries : n \in Held(h)' /\ Clean(n)' =>
                  \/ Active(h) /\ n \in Held(h) /\ call'[h].req = call[h].req
                  \/ /\ Lists(call'[h].req, n)
                     /\ \A g \in On(call'[h].req) : g = h
                  \/ n \notin Copied
    PROVE  SoleInv'
<1>1. (\A r, n : Lists(r, n) => n \in Entries /\ r \in Calls)'
  BY ListedEntries, PTL
<1> SUFFICES ASSUME NEW n \in Entries, Clean(n)'
             PROVE  (/\ \A r, q \in DOMAIN request : Lists(r, n) /\ Lists(q, n) => r = q
                     /\ \A x \in Calls : Active(x) /\ n \in Held(x) =>
                          /\ \A g \in Calls : Active(g) /\ n \in Held(g) => g = x
                          /\ \A q \in DOMAIN request : Lists(q, n) => q = call[x].req)'
  BY DEF SoleInv
<1>2. Clean(n)
  BY DEF Clean, Growing
<1>3. /\ \A r, q \in DOMAIN request : Lists(r, n) /\ Lists(q, n) => r = q
      /\ \A x \in Calls : Active(x) /\ n \in Held(x) =>
           /\ \A g \in Calls : Active(g) /\ n \in Held(g) => g = x
           /\ \A q \in DOMAIN request : Lists(q, n) => q = call[x].req
  BY <1>2 DEF IInv, SoleInv
<1>4. \A x \in Calls : x # h /\ Active(x)' /\ n \in Held(x)' =>
          Active(x) /\ n \in Held(x) /\ call'[x].req = call[x].req
  <2>1. \A x \in Calls : x # h /\ Active(x) => call'[x] = call[x]
    BY DEF Active, Others
  <2>2. QED
    BY <2>1, OthersStay DEF IInv
<1>11. Active(h) => h \in Calls
  BY Domains DEF Active
<1>5. ASSUME Active(h)', n \in Held(h)'
      PROVE  /\ \A g \in Calls : Active(g) /\ n \in Held(g) => g = h
             /\ \A q \in Calls : Lists(q, n) => q = call'[h].req
  <2>1. CASE Active(h) /\ n \in Held(h) /\ call'[h].req = call[h].req
    BY <1>3, <1>11, <2>1 DEF Lists
  <2>2. CASE /\ Lists(call'[h].req, n)
             /\ \A g \in On(call'[h].req) : g = h
    <3>1. ASSUME NEW g \in Calls, Active(g), n \in Held(g) PROVE g = h
      <4>1. call[g].req = call'[h].req
        BY <1>3, <2>2, <3>1 DEF Lists
      <4>2. g \in On(call'[h].req)
        BY <3>1, <4>1 DEF On, Active
      <4>3. QED
        BY <2>2, <4>2
    <3>2. QED
      BY <1>3, <2>2, <3>1 DEF Lists
  <2>3. CASE n \notin Copied
    BY <1>2, <2>3, WhatIsCopied DEF Clean
  <2>4. QED
    BY <1>5, <2>1, <2>2, <2>3
<1>6. \A r \in Calls : Lists(r, n)' =>
           \/ Lists(r, n)
           \/ Active(h) /\ ~ Active(h)' /\ n \in Held(h) /\ call[h].req = r
  OBVIOUS
<1>7. \A r, q \in Calls : Lists(r, n)' /\ Lists(q, n)' => r = q
  BY <1>3, <1>6, <1>11 DEF Lists
<1>8. \A x, g \in Calls : Active(x)' /\ n \in Held(x)' /\ Active(g)' /\ n \in Held(g)' => g = x
  BY <1>3, <1>4, <1>5
<1>9. \A x, q \in Calls : Active(x)' /\ n \in Held(x)' /\ Lists(q, n)' => q = call'[x].req
  <2> SUFFICES ASSUME NEW x \in Calls, NEW q \in Calls, Active(x)', n \in Held(x)', Lists(q, n)'
               PROVE  q = call'[x].req
    OBVIOUS
  <2>1. CASE x = h
    BY <1>5, <1>6, <2>1
  <2>2. CASE x # h
    BY <1>3, <1>4, <1>6, <1>11, <2>2 DEF Lists
  <2>3. QED
    BY <2>1, <2>2
<1>10. QED
  BY <1>1, <1>7, <1>8, <1>9 DEF Lists

SameEntry(n) ==
    /\ n \in DOMAIN entry' <=> n \in DOMAIN entry
    /\ n \in DOMAIN entry => entry'[n] = entry[n]

LEMMA SnapStays ==
    ASSUME IInv, NEW h, Others(h), Growing, TypeOK',
           \A n \in Entries : Clean(n)' =>
               \/ SameEntry(n)
               \/ \A g \in Calls : Active(g) /\ n \in Held(g) => g = h,
           \A r \in Calls, n \in Entries : Lists(r, n)' /\ Clean(n)' =>
               \/ n \in DOMAIN entry' /\ entry'[n] = request'[r].rows[n]
               \/ h \in On(r)' /\ Changed(h, n)'
               \/ /\ SameEntry(n)
                  /\ Lists(r, n) /\ request'[r].rows[n] = request[r].rows[n]
                  /\ ~ (h \in On(r) /\ Changed(h, n)),
           Active(h)' =>
               \A n \in Entries : n \in Held(h)' /\ Clean(n)' =>
                  (call[h].op # "drop" =>
                     /\ n \in DOMAIN entry
                     /\ \/ call[h].op = "file" /\ n \notin todo[h]
                        \/ call[h].op \in {"decide", "edit"} /\ Changed(h, n)
                        => entry[n] = copy[h].rows[n])'
    PROVE  SnapInv'
<1>1. (\A r, n : Lists(r, n) => n \in Entries /\ r \in Calls)'
  BY ListedEntries, PTL
<1> SUFFICES ASSUME NEW n \in Entries, Clean(n)'
             PROVE  (/\ \A r \in DOMAIN request : Lists(r, n) =>
                          \/ n \in DOMAIN entry /\ entry[n] = request[r].rows[n]
                          \/ \E x \in On(r) : Changed(x, n)
                     /\ \A x \in Calls : Active(x) /\ n \in Held(x) /\ call[x].op # "drop" =>
                          /\ n \in DOMAIN entry
                          /\ \/ call[x].op = "file" /\ n \notin todo[x]
                             \/ call[x].op \in {"decide", "edit"} /\ Changed(x, n)
                             => entry[n] = copy[x].rows[n])'
  BY DEF SnapInv
<1>2. Clean(n)
  BY DEF Clean, Growing
<1>3. /\ \A r \in DOMAIN request : Lists(r, n) =>
           \/ n \in DOMAIN entry /\ entry[n] = request[r].rows[n]
           \/ \E x \in On(r) : Changed(x, n)
      /\ \A x \in Calls : Active(x) /\ n \in Held(x) /\ call[x].op # "drop" =>
           /\ n \in DOMAIN entry
           /\ \/ call[x].op = "file" /\ n \notin todo[x]
              \/ call[x].op \in {"decide", "edit"} /\ Changed(x, n)
              => entry[n] = copy[x].rows[n]
  BY <1>2 DEF IInv, SnapInv
<1>4. ASSUME NEW r \in Calls, Lists(r, n)'
      PROVE  (\/ n \in DOMAIN entry /\ entry[n] = request[r].rows[n]
              \/ \E x \in On(r) : Changed(x, n))'
  <2>1. CASE n \in DOMAIN entry' /\ entry'[n] = request'[r].rows[n]
    BY <2>1
  <2>2. CASE h \in On(r)' /\ Changed(h, n)'
    BY <2>2
  <2>3. CASE /\ SameEntry(n)
             /\ Lists(r, n) /\ request'[r].rows[n] = request[r].rows[n]
             /\ ~ (h \in On(r) /\ Changed(h, n))
    <3>1. CASE n \in DOMAIN entry /\ entry[n] = request[r].rows[n]
      BY <2>3, <3>1 DEF SameEntry
    <3>2. CASE \E x \in On(r) : Changed(x, n)
      <4>1. PICK x \in On(r) : Changed(x, n)
        BY <3>2
      <4>2. x \in Calls /\ x # h /\ Active(x)
        BY <2>3, <4>1, Domains DEF On, Active
      <4>3. x \in On(r)' /\ Changed(x, n)'
        BY <4>1, <4>2, OthersStay DEF IInv
      <4>4. QED
        BY <4>3
    <3>3. QED
      BY <1>3, <2>3, <3>1, <3>2 DEF Lists
  <2>4. QED
    BY <1>4, <2>1, <2>2, <2>3
<1>5. ASSUME NEW x \in Calls, (Active(x) /\ n \in Held(x) /\ call[x].op # "drop")'
      PROVE  (/\ n \in DOMAIN entry
              /\ \/ call[x].op = "file" /\ n \notin todo[x]
                 \/ call[x].op \in {"decide", "edit"} /\ Changed(x, n)
                 => entry[n] = copy[x].rows[n])'
  <2>1. CASE x = h
    BY <1>5, <2>1
  <2>2. CASE x # h
    <3>1. Active(x) /\ n \in Held(x) /\ (Changed(x, n)' <=> Changed(x, n))
      BY <1>5, <2>2, OthersStay DEF IInv
    <3>2. call'[x] = call[x] /\ call[x].op # "drop" /\ Placed(x)
      BY <1>5, <2>2, <3>1 DEF Others, Active, IInv, CallsInv
    <3>3. /\ x \in DOMAIN copy /\ copy'[x] = copy[x]
          /\ call[x].op = "file" => todo'[x] = todo[x]
      BY <2>2, <3>2 DEF Placed, Others
    <3>4. SameEntry(n)
      BY <2>2, <3>1
    <3>5. QED
      BY <1>3, <3>1, <3>2, <3>3, <3>4 DEF SameEntry
  <2>3. QED
    BY <2>1, <2>2
<1>6. QED
  BY <1>1, <1>4, <1>5 DEF Lists

LEMMA FlagsStay ==
    ASSUME IInv, NEW h, Others(h), Growing, TypeOK',
           \A r \in Calls, n \in Entries :
               Lists(r, n)' /\ blots'[n] \cap {"resubmitted", "redecided", "raced"} = {} =>
                  \/ /\ Lists(r, n) /\ request'[r].rows[n] = request[r].rows[n]
                     /\ request'[r].status = request[r].status
                  \/ Told(request'[r].rows[n], request'[r].status),
           (Active(h) /\ call[h].op \in {"file", "decide"})' =>
               \A n \in Entries :
                  n \in Held(h)' /\ blots'[n] \cap {"resubmitted", "redecided", "raced"} = {} =>
                     Told(copy'[h].rows[n], copy'[h].status)
    PROVE  FlagsInv'
<1>1. (\A r, n : Lists(r, n) => n \in Entries /\ r \in Calls)'
  BY ListedEntries, PTL
<1> SUFFICES ASSUME NEW n \in Entries, blots'[n] \cap {"resubmitted", "redecided", "raced"} = {}
             PROVE  (/\ \A r \in DOMAIN request : Lists(r, n) =>
                          Told(request[r].rows[n], request[r].status)
                     /\ \A x \in Calls : Active(x) /\ call[x].op \in {"file", "decide"} /\ n \in Held(x) =>
                          Told(copy[x].rows[n], copy[x].status))'
  BY DEF FlagsInv
<1>2. blots[n] \cap {"resubmitted", "redecided", "raced"} = {}
  BY DEF Growing
<1>3. /\ \A r \in DOMAIN request : Lists(r, n) => Told(request[r].rows[n], request[r].status)
      /\ \A x \in Calls : Active(x) /\ call[x].op \in {"file", "decide"} /\ n \in Held(x) =>
           Told(copy[x].rows[n], copy[x].status)
  BY <1>2 DEF IInv, FlagsInv
<1>4. \A r \in Calls : Lists(r, n)' => Told(request'[r].rows[n], request'[r].status)
  BY <1>3 DEF Lists
<1>5. ASSUME NEW x \in Calls, (Active(x) /\ call[x].op \in {"file", "decide"} /\ n \in Held(x))'
      PROVE  Told(copy'[x].rows[n], copy'[x].status)
  <2>1. CASE x = h
    BY <1>5, <2>1
  <2>2. CASE x # h
    <3>1. Active(x) /\ n \in Held(x)
      BY <1>5, <2>2, OthersStay DEF IInv
    <3>2. call'[x] = call[x] /\ Placed(x)
      BY <1>5, <2>2, <3>1 DEF Others, Active, IInv, CallsInv
    <3>3. x \in DOMAIN copy /\ copy'[x] = copy[x]
      BY <1>5, <2>2, <3>2 DEF Placed, Others
    <3>4. QED
      BY <1>3, <1>5, <3>1, <3>2, <3>3
  <2>3. QED
    BY <2>1, <2>2
<1>6. QED
  BY <1>1, <1>4, <1>5 DEF Lists, Told
-----------------------------------------------------------------------------
(* Filing *)

LEMMA FileReadInv == ASSUME IInv, NEW h \in Calls, FileRead(h) PROVE IInv'
<1>1. PICK ns \in (SUBSET DOMAIN entry) \ {{}} :
         /\ call' = Save(call, h, Asks("file", h, ns, "pending"))
         /\ copy' = Save(copy, h, [status |-> "pending",
                                   rows |-> Mark([n \in ns |-> entry[n]], "pending")])
         /\ todo' = Save(todo, h, ns)
         /\ Blame(ns \cap (Copied \cup {n \in ns : entry[n].approved}), "resubmitted")
  BY DEF FileRead
<1>2. Goto(h, "idle", "file_mark") /\ UNCHANGED <<entry, request>>
  BY DEF FileRead
<1>3. ns \subseteq Entries /\ [n \in ns |-> entry[n]] \in EntryRows
  BY RowsAreTables DEF IInv, TypeOK, IsTable
<1> DEFINE rows == Mark([n \in ns |-> entry[n]], "pending")
<1>4. /\ rows \in EntryRows /\ DOMAIN rows = ns
      /\ \A n \in ns : ~ entry[n].approved => Told(rows[n], "pending")
  BY <1>3, MarkedRows DEF Statuses
<1>saves. copy' = Save(copy, h, [status |-> "pending", rows |-> rows])
  BY <1>1
<1> HIDE DEF rows
<1>5. PICK c \in Call : /\ call' = Save(call, h, c)
                        /\ c.op = "file" /\ c.req = h /\ c.on = ns
  BY <1>1, <1>3 DEF Asks, Call, Ops, Statuses
<1>6. PICK k \in RequestRow : copy' = Save(copy, h, k) /\ k.status = "pending" /\ k.rows = rows
  BY <1>4, <1>saves DEF RequestRow, Statuses
<1>7. /\ h \notin DOMAIN call /\ h \notin DOMAIN copy /\ h \notin DOMAIN request
      /\ DOMAIN call' = DOMAIN call \cup {h}
      /\ call'[h] = c
      /\ \A g \in DOMAIN call : g # h /\ call'[g] = call[g]
      /\ IsTable(call', Calls, Call)
      /\ pc[h] = "idle" /\ pc'[h] = "file_mark"
      /\ pc' \in [Calls -> Steps]
      /\ \A g \in Calls : g # h => pc'[g] = pc[g]
  BY <1>2, <1>5, Begun DEF InFlight, FileSteps
<1>8. /\ IsTable(copy', Calls, RequestRow)
      /\ DOMAIN copy' = DOMAIN copy \cup {h}
      /\ copy'[h] = k
      /\ \A g \in DOMAIN copy : g # h => copy'[g] = copy[g]
  BY <1>6, CopyKept DEF IInv
<1>9. /\ IsTable(todo', Calls, SUBSET Entries)
      /\ DOMAIN todo' = DOMAIN todo \cup {h}
      /\ todo'[h] = ns
      /\ \A g \in DOMAIN todo : g # h => todo'[g] = todo[g]
  BY <1>1, <1>3, TodoKept DEF IInv
<1>10. /\ blots' \in [Entries -> SUBSET Cause]
       /\ \A n \in Entries : blots[n] \subseteq blots'[n]
       /\ \A n \in ns : n \in Copied \/ entry[n].approved => "resubmitted" \in blots'[n]
  BY <1>1, <1>3, BlameType DEF IInv, Cause
<1>11. Others(h)
  BY <1>7, <1>8, <1>9 DEF Others
<1>12. TypeOK'
  BY <1>2, <1>7, <1>8, <1>9, <1>10 DEF IInv, TypeOK
<1>13. CallsInv'
  <2>1. Placed(h)'
    BY <1>4, <1>5, <1>6, <1>7, <1>8, <1>9
       DEF Placed, FileSteps, DecideSteps, EditSteps, DropSteps
  <2>2. \A g \in DOMAIN call : Placed(g)'
    BY <1>7, <1>11, PlacedStays DEF IInv, CallsInv, Placed
  <2>3. QED
    BY <1>2, <1>7, <1>8, <2>1, <2>2, Domains DEF IInv, CallsInv
<1>14. RaceInv'
  <2>1. \A r \in DOMAIN request : On(r)' = On(r)
    BY <1>5, <1>7, Domains DEF On
  <2>2. \A r, n : Lists(r, n)' <=> Lists(r, n)
    BY <1>2 DEF Lists
  <2>3. (call[h].op \notin Through)'
    BY <1>5, <1>7 DEF Through
  <2>4. Growing
    BY <1>10 DEF Growing
  <2>5. QED
    BY <1>2, <1>11, <1>12, <1>13, <2>1, <2>2, <2>3, <2>4, RaceStays DEF Lists
<1>a. Held(h)' = ns /\ Growing
  BY <1>4, <1>5, <1>6, <1>7, <1>8, <1>10 DEF Held, Growing
<1>b. \A n \in ns : Clean(n)' => n \notin Copied
  BY <1>10 DEF Clean
<1>c. \A r, n : Lists(r, n)' <=> Lists(r, n)
  BY <1>2 DEF Lists
<1>15. SoleInv'
  BY <1>11, <1>12, <1>a, <1>b, <1>c, SoleStays
<1>16. SnapInv'
  <2>1. \A r : h \notin On(r)
    BY <1>7 DEF On
  <2>2. \A n \in ns : n \in DOMAIN entry' /\ n \in todo'[h]
    BY <1>2, <1>9
  <2>3. \A n : ~ Changed(h, n)'
    BY <1>7 DEF Changed, DecideSteps, DropSteps
  <2>4. QED
    BY <1>2, <1>5, <1>7, <1>11, <1>12, <1>a, <1>c, <2>1, <2>2, <2>3, SnapStays DEF SameEntry
<1>17. FlagsInv'
  BY <1>2, <1>4, <1>6, <1>8, <1>10, <1>11, <1>12, <1>a, <1>c, FlagsStay
<1>18. QED
  BY <1>12, <1>13, <1>14, <1>15, <1>16, <1>17 DEF IInv

-----------------------------------------------------------------------------
(* A further step of a call *)
LEMMA Continued ==
    ASSUME IInv, NEW h \in Calls, NEW from \in InFlight, NEW to \in Steps \ {"idle"},
           Goto(h, from, to), from = "file_notify" => to \in Filed,
           UNCHANGED call,
           copy' = copy \/ \E k \in RequestRow : copy' = Save(copy, h, k),
           todo' = todo \/ \E k \in SUBSET Entries : todo' = Save(todo, h, k)
    PROVE  /\ h \in DOMAIN call /\ Placed(h) /\ pc[h] = from /\ pc'[h] = to
           /\ call[h].op \in Ops /\ call[h].req \in Calls /\ call[h].on \subseteq Entries
           /\ pc' \in [Calls -> Steps]
           /\ IsTable(copy', Calls, RequestRow) /\ IsTable(todo', Calls, SUBSET Entries)
           /\ Others(h)
           /\ Placed(h)' /\ (\A r \in DOMAIN request' :
                  \/ r \in DOMAIN request
                  \/ r \in DOMAIN call /\ call[r].op = "file" /\ pc'[r] \in Filed)
              => CallsInv'
<1>1. /\ pc[h] = from /\ pc'[h] = to
      /\ pc' \in [Calls -> Steps]
      /\ \A g \in Calls : g # h => pc'[g] = pc[g]
  BY Moved DEF IInv
<1>2. h \in DOMAIN call /\ Placed(h)
  BY <1>1 DEF IInv, CallsInv, InFlight, FileSteps, DecideSteps, EditSteps, DropSteps
<1>3. call[h].op \in Ops /\ call[h].req \in Calls /\ call[h].on \subseteq Entries
  BY <1>2, CallFields DEF IInv
<1>4. /\ IsTable(copy', Calls, RequestRow)
      /\ DOMAIN copy' \ {h} = DOMAIN copy \ {h}
      /\ DOMAIN copy' \subseteq DOMAIN copy \cup {h}
      /\ \A g \in DOMAIN copy : g # h => copy'[g] = copy[g]
  <2>1. CASE copy' = copy
    BY <2>1 DEF IInv, TypeOK
  <2>2. CASE \E k \in RequestRow : copy' = Save(copy, h, k)
    BY <2>2, CopyKept DEF IInv
  <2>3. QED
    BY <2>1, <2>2
<1>5. /\ IsTable(todo', Calls, SUBSET Entries)
      /\ DOMAIN todo' \ {h} = DOMAIN todo \ {h}
      /\ \A g \in DOMAIN todo : g # h => todo'[g] = todo[g]
  <2>1. CASE todo' = todo
    BY <2>1 DEF IInv, TypeOK
  <2>2. CASE \E k \in SUBSET Entries : todo' = Save(todo, h, k)
    BY <2>2, TodoKept DEF IInv
  <2>3. QED
    BY <2>1, <2>2
<1>6. Others(h)
  BY <1>1, <1>4, <1>5 DEF Others
<1>7. pc[h] \in Filed => pc'[h] \in Filed
  BY <1>1 DEF Filed, InFlight, FileSteps, DecideSteps, EditSteps, DropSteps
<1>8. \A g \in DOMAIN call : g # h => Placed(g)'
  <2> SUFFICES ASSUME NEW g \in DOMAIN call, g # h PROVE Placed(g)'
    OBVIOUS
  <2>1. Placed(g)
    BY DEF IInv, CallsInv
  <2>2. QED
    BY <1>2, <1>6, <1>7, <2>1, PlacedStays DEF Placed
<1>9. ASSUME Placed(h)', \A r \in DOMAIN request' :
                  \/ r \in DOMAIN request
                  \/ r \in DOMAIN call /\ call[r].op = "file" /\ pc'[r] \in Filed
      PROVE  CallsInv'
  <2>1. \A r \in DOMAIN request' : r \in DOMAIN call /\ call[r].op = "file" /\ pc'[r] \in Filed
    BY <1>1, <1>7, <1>9, Domains DEF IInv, CallsInv
  <2>2. \A g \in Calls : pc'[g] = "idle" <=> g \notin DOMAIN call
    BY <1>1, <1>2 DEF IInv, CallsInv
  <2>3. QED
    BY <1>2, <1>4, <1>8, <1>9, <2>1, <2>2, Domains DEF CallsInv
<1>10. QED
  BY <1>1, <1>2, <1>3, <1>4, <1>5, <1>6, <1>9

(* A call that ends without saving anything more. *)
LEMMA EndInv ==
    ASSUME IInv, NEW h \in Calls, NEW from \in InFlight, NEW to \in {"done", "failed"},
           Goto(h, from, to), UNCHANGED <<entry, request, call, copy, todo>>,
           blots' \in [Entries -> SUBSET Cause], Growing,
           \A n \in Entries : Clean(n)' /\ h \in On(call[h].req) /\ Lists(call[h].req, n) =>
               ~ Changed(h, n)
    PROVE  IInv'
<1>1. /\ h \in DOMAIN call /\ Placed(h) /\ pc[h] = from /\ pc'[h] = to
      /\ call[h].op \in Ops /\ call[h].req \in Calls /\ call[h].on \subseteq Entries
      /\ pc' \in [Calls -> Steps]
      /\ IsTable(copy', Calls, RequestRow) /\ IsTable(todo', Calls, SUBSET Entries)
      /\ Others(h)
      /\ Placed(h)' /\ (\A r \in DOMAIN request' :
             \/ r \in DOMAIN request
             \/ r \in DOMAIN call /\ call[r].op = "file" /\ pc'[r] \in Filed)
         => CallsInv'
  BY Continued DEF Steps, Filed
<1>2. TypeOK'
  BY <1>1 DEF IInv, TypeOK
<1>3. Placed(h)'
  <2>1. call[h].op \in {"decide", "edit", "drop"} => pc'[call[h].req] \in Filed
    BY <1>1 DEF Placed, Others, Filed
  <2>2. /\ pc'[h] \notin FileSteps \cup DecideSteps \cup EditSteps \cup DropSteps
        /\ pc'[h] \notin {"put_save", "drop_store", "edit_read", "file_store", "decide_store"}
    BY <1>1 DEF FileSteps, DecideSteps, EditSteps, DropSteps
  <2>3. QED
    BY <1>1, <2>1, <2>2 DEF Placed
<1>4. CallsInv'
  BY <1>1, <1>3
<1>5. ~ Active(h)' /\ \A r : h \notin On(r)'
  BY <1>1 DEF Active, On, InFlight, FileSteps, DecideSteps, EditSteps, DropSteps
<1>6. \A r \in Calls : On(r)' \subseteq On(r)
  <2>1. \A r : \A g \in On(r)' : g \in Calls
    BY Domains DEF On
  <2>2. QED
    BY <1>1, <1>5, <2>1, OthersStay DEF IInv
<1>7. \A r, n : Lists(r, n)' <=> Lists(r, n)
  BY DEF Lists
<1>8. RaceInv'
  <2>1. \A r \in DOMAIN request', n \in Entries : Lists(r, n)' =>
            Lists(r, n) /\ On(r)' \subseteq On(r)
    BY <1>6, <1>7, RequestFields DEF IInv, Lists
  <2>2. \A r \in DOMAIN request, n \in Entries : Lists(r, n) =>
            /\ r \in DOMAIN request' /\ request'[r] = request[r]
            /\ On(r)' \subseteq On(r)
    BY <1>6, RequestFields DEF IInv
  <2>3. QED
    BY <1>1, <1>2, <1>4, <1>5, <2>1, <2>2, RaceStays
<1>9. SoleInv'
  BY <1>1, <1>2, <1>5, <1>7, SoleStays
<1>10. SnapInv'
  <2>1. \A r : h \in On(r) => r = call[h].req
    BY DEF On
  <2>2. QED
    BY <1>1, <1>2, <1>5, <1>7, <2>1, SnapStays DEF SameEntry
<1>11. FlagsInv'
  BY <1>1, <1>2, <1>5, <1>7, FlagsStay
<1>12. QED
  BY <1>2, <1>4, <1>8, <1>9, <1>10, <1>11 DEF IInv

LEMMA NotifyInv ==
    ASSUME IInv, NEW h \in Calls, FileNotify(h) \/ EditNotify(h) PROVE IInv'
<1>1. PICK from \in {"file_notify", "edit_notify"} : Goto(h, from, "done")
  BY DEF FileNotify, EditNotify
<1>2. UNCHANGED <<entry, request, call, copy, todo, blots>>
  BY DEF FileNotify, EditNotify
<1>3. from \in InFlight
  BY DEF InFlight, FileSteps, EditSteps
<1>4. \A n : ~ Changed(h, n)
  BY <1>1, Moved DEF Changed, DecideSteps, DropSteps, Goto
<1>5. blots' \in [Entries -> SUBSET Cause] /\ Growing
  BY <1>2 DEF Growing, IInv, TypeOK
<1>6. QED
  BY <1>1, <1>2, <1>3, <1>4, <1>5, EndInv

(* The TypeError of a request that is gone. *)
LEMMA GoneInv ==
    ASSUME IInv, NEW h \in Calls, NEW from \in InFlight, Goto(h, from, "failed"),
           call[h].req \notin DOMAIN request,
           UNCHANGED <<entry, request, call, copy, todo, blots>>
    PROVE  IInv'
<1>1. blots' \in [Entries -> SUBSET Cause] /\ Growing
  BY DEF Growing, IInv, TypeOK
<1>2. QED
  BY <1>1, EndInv DEF Lists

LEMMA AbortInv ==
    ASSUME IInv, NEW h \in Calls, Abort(h) PROVE IInv'
<1>1. PICK from \in InFlight : Goto(h, from, "failed")
  BY DEF Abort, Goto
<1>2. UNCHANGED <<entry, request, call, copy, todo>> /\ Blame(call[h].on, "abandoned")
  BY DEF Abort
<1>3. /\ blots' \in [Entries -> SUBSET Cause] /\ Growing
      /\ \A n \in Entries : n \in call[h].on => ~ Clean(n)'
  BY <1>2, BlameType DEF Growing, IInv, Clean, Cause
<1>4. \A n \in Entries : Clean(n)' => ~ Changed(h, n)
  BY <1>3 DEF Changed
<1>5. QED
  BY <1>1, <1>2, <1>3, <1>4, EndInv

LEMMA LoopEndsInv ==
    ASSUME IInv, NEW h \in Calls, LoopEnds(h) PROVE IInv'
<1>1. PICK from \in {"file_mark", "decide_mark"}, to \in {"file_store", "decide_store"} :
          /\ Goto(h, from, to)
          /\ from = "file_mark" <=> to = "file_store"
  BY DEF LoopEnds
<1>2. UNCHANGED <<entry, request, call, copy, todo, blots>> /\ todo[h] = {}
  BY DEF LoopEnds
<1>3. from \in InFlight /\ to \in Steps \ {"idle"} /\ from # "file_notify"
  BY DEF InFlight, Steps, FileSteps, DecideSteps
<1>4. /\ h \in DOMAIN call /\ Placed(h) /\ pc[h] = from /\ pc'[h] = to
      /\ call[h].op \in Ops /\ call[h].req \in Calls /\ call[h].on \subseteq Entries
      /\ pc' \in [Calls -> Steps]
      /\ Others(h)
      /\ Placed(h)' /\ (\A r \in DOMAIN request' :
             \/ r \in DOMAIN request
             \/ r \in DOMAIN call /\ call[r].op = "file" /\ pc'[r] \in Filed)
         => CallsInv'
  BY <1>1, <1>2, <1>3, Continued
<1>5. TypeOK'
  BY <1>2, <1>4 DEF IInv, TypeOK
<1>6. Placed(h)'
  <2>1. call[h].op \in {"decide", "edit", "drop"} => pc'[call[h].req] \in Filed
    BY <1>1, <1>4 DEF Placed, Others, Filed, FileSteps, DecideSteps
  <2>2. QED
    BY <1>1, <1>2, <1>4, <2>1 DEF Placed, FileSteps, DecideSteps, EditSteps, DropSteps
<1>7. CallsInv'
  BY <1>2, <1>4, <1>6
<1>8. Active(h) /\ Active(h)' /\ Held(h)' = Held(h) /\ call'[h] = call[h] /\ copy'[h] = copy[h]
  BY <1>1, <1>2, <1>4 DEF Active, Held, InFlight, FileSteps, DecideSteps, Telling
<1>9. /\ \A n : Changed(h, n)' <=> Changed(h, n)
      /\ \A n : Follows(h, n)'
  BY <1>1, <1>2, <1>4 DEF Changed, Follows, DecideSteps, DropSteps
<1>10. \A r \in Calls : On(r)' = On(r)
  BY <1>2, <1>4, <1>8, Domains DEF On, Active, Others
<1>11. \A r, n : Lists(r, n)' <=> Lists(r, n)
  BY <1>2 DEF Lists
<1>12. Growing
  BY <1>2 DEF Growing
<1>13. RaceInv'
  <2>1. ASSUME call[h].op \in Through, NEW n \in Held(h)
        PROVE  \/ "raced" \in blots'[n]
               \/ Lists(call[h].req, n) /\ \A g \in On(call[h].req) : g = h
    BY <1>2, <1>8, <2>1 DEF IInv, RaceInv
  <2>2. \A r \in DOMAIN request', n \in Entries : Lists(r, n)' =>
            Lists(r, n) /\ On(r)' \subseteq On(r)
    BY <1>2, <1>10, <1>11, RequestFields DEF IInv
  <2>3. \A r \in DOMAIN request, n \in Entries : Lists(r, n) =>
            /\ r \in DOMAIN request' /\ request'[r] = request[r]
            /\ On(r)' \subseteq On(r)
    BY <1>2, <1>10, RequestFields DEF IInv
  <2>4. On(call[h].req)' = On(call[h].req) /\ \A n : Lists(call[h].req, n)' <=> Lists(call[h].req, n)
    BY <1>2, <1>4, <1>10, <1>11 DEF On, Lists
  <2>5. QED
    BY <1>4, <1>5, <1>7, <1>8, <1>9, <1>12, <2>1, <2>2, <2>3, <2>4, RaceStays
<1>14. SoleInv'
  BY <1>4, <1>5, <1>8, <1>11, <1>12, SoleStays
<1>15. SnapInv'
  <2>1. \A n \in Entries : n \in Held(h) /\ Clean(n) =>
           (call[h].op # "drop" =>
              /\ n \in DOMAIN entry
              /\ \/ call[h].op = "file" /\ n \notin todo[h]
                 \/ call[h].op \in {"decide", "edit"} /\ Changed(h, n)
                 => entry[n] = copy[h].rows[n])
    BY <1>8 DEF IInv, SnapInv
  <2>2. \A n \in Entries : Clean(n)' <=> Clean(n)
    BY <1>2 DEF Clean
  <2>3. QED
    BY <1>2, <1>4, <1>5, <1>8, <1>9, <1>10, <1>11, <1>12, <2>1, <2>2, SnapStays DEF SameEntry
<1>16. FlagsInv'
  <2>1. call[h].op \in {"file", "decide"} => \A n \in Entries :
            n \in Held(h) /\ blots[n] \cap {"resubmitted", "redecided", "raced"} = {} =>
               Told(copy[h].rows[n], copy[h].status)
    BY <1>8 DEF IInv, FlagsInv
  <2>2. QED
    BY <1>2, <1>4, <1>5, <1>8, <1>11, <1>12, <2>1, FlagsStay
<1>17. QED
  BY <1>5, <1>7, <1>13, <1>14, <1>15, <1>16 DEF IInv

(* Storing the request a call has a copy of. *)
LEMMA StoreInv ==
    ASSUME IInv, NEW h \in Calls,
           NEW from \in {"file_store", "decide_store", "edit_store", "drop_store"},
           NEW to \in {"file_notify", "done", "edit_notify"},
           Goto(h, from, to), from = "file_store" <=> to = "file_notify",
           to = "edit_notify" => from = "edit_store",
           request' = Save(request, call[h].req, copy[h]),
           UNCHANGED <<entry, call, copy, todo, blots>>
    PROVE  IInv'
<1>1. from \in InFlight /\ to \in Steps \ {"idle"} /\ from # "file_notify"
  BY DEF InFlight, Steps, FileSteps, DecideSteps, EditSteps, DropSteps
<1>2. /\ h \in DOMAIN call /\ Placed(h) /\ pc[h] = from /\ pc'[h] = to
      /\ call[h].op \in Ops /\ call[h].req \in Calls /\ call[h].on \subseteq Entries
      /\ pc' \in [Calls -> Steps]
      /\ Others(h)
      /\ Placed(h)' /\ (\A r \in DOMAIN request' :
             \/ r \in DOMAIN request
             \/ r \in DOMAIN call /\ call[r].op = "file" /\ pc'[r] \in Filed)
         => CallsInv'
  BY <1>1, Continued
<1>3. h \in DOMAIN copy
  BY <1>2 DEF Placed, FileSteps, DecideSteps, EditSteps, DropSteps
<1>4. /\ copy[h] \in RequestRow
      /\ \A n \in DOMAIN copy[h].rows : n \in Entries
  BY <1>3, CopyFields DEF IInv
<1> DEFINE q == call[h].req
<1>5. /\ IsTable(request', Calls, RequestRow)
      /\ DOMAIN request' = DOMAIN request \cup {q}
      /\ request'[q] = copy[h]
      /\ \A r \in DOMAIN request : r # q => request'[r] = request[r]
  BY <1>2, <1>4, Stored DEF IInv
<1>6. TypeOK'
  BY <1>2, <1>5 DEF IInv, TypeOK
<1>7. q \in DOMAIN call /\ call[q].op = "file" /\ pc'[q] \in Filed
  <2>1. CASE from = "file_store"
    BY <1>2, <2>1 DEF Placed, FileSteps, Filed
  <2>2. CASE from # "file_store"
    <3>1. call[h].op \in {"decide", "edit", "drop"}
      BY <1>2, <2>2 DEF Placed, DecideSteps, EditSteps, DropSteps
    <3>2. q \in DOMAIN call /\ call[q].op = "file" /\ pc[q] \in Filed
      BY <1>2, <3>1 DEF Placed
    <3>3. QED
      BY <1>2, <3>1, <3>2 DEF Others
  <2>3. QED
    BY <2>1, <2>2
<1>8. Placed(h)'
  <2>1. call[h].op \in {"decide", "edit", "drop"} => pc'[q] \in Filed
    BY <1>7
  <2>2. QED
    BY <1>2, <1>7, <2>1 DEF Placed, FileSteps, DecideSteps, EditSteps, DropSteps
<1>9. CallsInv'
  BY <1>2, <1>5, <1>7, <1>8
<1>10. /\ Active(h) /\ ~ Active(h)' /\ DOMAIN copy[h].rows \subseteq Held(h)
       /\ h \in On(q) /\ \A r : h \notin On(r)'
  BY <1>2, <1>3 DEF Active, On, Held, InFlight, Telling, FileSteps, DecideSteps, EditSteps, DropSteps
<1>11. \A r \in Calls : On(r)' \subseteq On(r) \ {h}
  <2>1. \A r : \A g \in On(r)' : g \in Calls
    BY Domains DEF On
  <2>2. QED
    BY <1>2, <1>10, <2>1, OthersStay DEF IInv
<1>12. \A r, n : Lists(r, n)' <=> IF r = q THEN n \in DOMAIN copy[h].rows ELSE Lists(r, n)
  BY <1>5 DEF Lists
<1>13. Growing /\ \A n : Clean(n)' <=> Clean(n)
  BY DEF Growing, Clean
<1>14. ASSUME NEW n \in DOMAIN copy[h].rows, "raced" \notin blots[n], from # "file_store"
       PROVE  /\ Lists(q, n) /\ Follows(h, n)
              /\ \A g \in On(q) : g = h
  <2>1. call[h].op \in Through /\ n \in Held(h)
    BY <1>2, <1>10, <1>14 DEF Placed, DecideSteps, EditSteps, DropSteps, Through
  <2>2. QED
    BY <1>10, <1>14, <2>1 DEF IInv, RaceInv
<1>15. RaceInv'
  <2>1. from = "file_store" => On(q)' = {}
    <3> SUFFICES ASSUME from = "file_store", NEW g \in On(q)' PROVE FALSE
      OBVIOUS
    <3>1. q = h /\ pc[h] \notin Filed
      BY <1>2 DEF Placed, FileSteps, Filed
    <3>2. g \in On(h) /\ g # h
      BY <1>2, <1>11, <3>1
    <3>3. g \in DOMAIN call /\ call[g].req = h /\ Placed(g) /\ call[g].op \in Ops
      BY <3>2, CallFields DEF On, IInv, CallsInv
    <3>4. QED
      BY <3>1, <3>2, <3>3 DEF Placed, Ops
  <2>2. \A r \in DOMAIN request', n \in Entries : Lists(r, n)' =>
            \/ "raced" \in blots'[n]
            \/ On(r)' \subseteq {h}
            \/ Lists(r, n) /\ On(r)' \subseteq On(r)
    <3> SUFFICES ASSUME NEW r \in DOMAIN request', NEW n \in Entries, Lists(r, n)',
                        "raced" \notin blots'[n]
                 PROVE  On(r)' \subseteq {h} \/ (Lists(r, n) /\ On(r)' \subseteq On(r))
      OBVIOUS
    <3>1. r \in Calls
      BY <1>2, <1>5, RequestFields DEF IInv
    <3>2. CASE r = q
      <4>1. n \in DOMAIN copy[h].rows
        BY <1>12, <3>2
      <4>2. QED
        BY <1>11, <1>14, <2>1, <3>1, <3>2, <4>1
    <3>3. CASE r # q
      BY <1>11, <1>12, <3>1, <3>3
    <3>4. QED
      BY <3>2, <3>3
  <2>3. \A r \in DOMAIN request, n \in Entries : Lists(r, n) =>
            \/ "raced" \in blots'[n]
            \/ /\ r \in DOMAIN request' /\ request'[r] = request[r]
               /\ On(r)' \subseteq On(r)
            \/ \A g \in On(r) : g = h
    <3> SUFFICES ASSUME NEW r \in DOMAIN request, NEW n \in Entries, Lists(r, n),
                        "raced" \notin blots[n], r = q
                 PROVE  \A g \in On(r) : g = h
      BY <1>5, <1>11, RequestFields DEF IInv
    <3>1. QED
      BY <1>10 DEF IInv, RaceInv, Lists
  <2>4. QED
    BY <1>2, <1>6, <1>9, <1>10, <1>13, <2>2, <2>3, RaceStays
<1>16. SoleInv'
  BY <1>2, <1>6, <1>10, <1>12, <1>13, SoleStays
<1>17. SnapInv'
  <2>1. ASSUME NEW r \in Calls, NEW n \in Entries, Lists(r, n)', Clean(n)'
        PROVE  \/ n \in DOMAIN entry /\ entry[n] = request'[r].rows[n]
               \/ /\ Lists(r, n) /\ request'[r].rows[n] = request[r].rows[n]
                  /\ ~ (h \in On(r) /\ Changed(h, n))
    <3>1. CASE r # q
      BY <1>5, <1>12, <2>1, <3>1 DEF Lists, On
    <3>2. CASE r = q
      <4>1. n \in DOMAIN copy[h].rows /\ request'[r].rows = copy[h].rows
        BY <1>5, <1>12, <2>1, <3>2
      <4>2. CASE \/ from \in {"file_store", "decide_store"}
                 \/ from = "edit_store" /\ n \in call[h].on
        <5>1. \/ call[h].op = "file" /\ n \notin todo[h]
              \/ call[h].op \in {"decide", "edit"} /\ Changed(h, n)
          BY <1>2, <4>1, <4>2 DEF Placed, FileSteps, DecideSteps, EditSteps, Changed
        <5>2. n \in Held(h) /\ Clean(n)
          BY <1>10, <1>13, <2>1, <4>1
        <5>3. n \in DOMAIN entry /\ entry[n] = copy[h].rows[n]
          BY <1>10, <5>1, <5>2 DEF IInv, SnapInv
        <5>4. QED
          BY <4>1, <5>3
      <4>3. CASE \/ from = "drop_store"
                 \/ from = "edit_store" /\ n \notin call[h].on
        <5>1. n \notin call[h].on
          BY <1>2, <4>1, <4>3 DEF Placed
        <5>2. Lists(q, n) /\ Follows(h, n)
          BY <1>13, <1>14, <2>1, <4>1, <4>3 DEF Clean
        <5>3. copy[h].rows[n] = request[q].rows[n]
          BY <1>2, <4>3, <5>1, <5>2 DEF Follows
        <5>4. ~ Changed(h, n)
          BY <1>2, <4>3, <5>1 DEF Changed, DecideSteps
        <5>5. QED
          BY <3>2, <4>1, <5>2, <5>3, <5>4
      <4>4. QED
        BY <4>2, <4>3
    <3>3. QED
      BY <3>1, <3>2
  <2>2. QED
    BY <1>2, <1>6, <1>10, <1>13, <2>1, SnapStays DEF SameEntry
<1>18. FlagsInv'
  <2>1. ASSUME NEW r \in Calls, NEW n \in Entries, Lists(r, n)',
               blots'[n] \cap {"resubmitted", "redecided", "raced"} = {}
        PROVE  \/ /\ Lists(r, n) /\ request'[r].rows[n] = request[r].rows[n]
                  /\ request'[r].status = request[r].status
               \/ Told(request'[r].rows[n], request'[r].status)
    <3>1. CASE r # q
      BY <1>5, <1>12, <2>1, <3>1 DEF Lists
    <3>2. CASE r = q
      <4>1. n \in DOMAIN copy[h].rows /\ request'[r] = copy[h] /\ n \in Held(h)
        BY <1>5, <1>10, <1>12, <2>1, <3>2
      <4>2. CASE from \in {"file_store", "decide_store"}
        <5>1. call[h].op \in {"file", "decide"}
          BY <1>2, <4>2 DEF Placed, FileSteps, DecideSteps
        <5>2. Told(copy[h].rows[n], copy[h].status)
          BY <1>10, <2>1, <4>1, <5>1 DEF IInv, FlagsInv
        <5>3. QED
          BY <4>1, <5>2
      <4>3. CASE from \in {"edit_store", "drop_store"}
        <5>1. Lists(q, n) /\ Follows(h, n)
          BY <1>14, <2>1, <4>1, <4>3
        <5>2. Told(request[q].rows[n], request[q].status)
          BY <2>1, <5>1 DEF IInv, FlagsInv, Lists
        <5>3. /\ copy[h].status = request[q].status
              /\ copy[h].rows[n].requested = request[q].rows[n].requested
              /\ copy[h].rows[n].approved = request[q].rows[n].approved
          BY <1>2, <4>1, <4>3, <5>1 DEF Follows, Placed
        <5>4. QED
          BY <4>1, <5>2, <5>3 DEF Told
      <4>4. QED
        BY <4>2, <4>3
    <3>3. QED
      BY <3>1, <3>2
  <2>2. QED
    BY <1>2, <1>6, <1>10, <1>13, <2>1, FlagsStay
<1>19. QED
  BY <1>6, <1>9, <1>15, <1>16, <1>17, <1>18 DEF IInv

(* Saving one entry from its copy. *)
LEMMA SaveStepInv ==
    ASSUME IInv, NEW h \in Calls, NEW m \in call[h].on, SaveEntry(h, m),
           NEW from \in {"file_mark", "decide_mark", "edit_entry", "put_save"},
           NEW to \in {"file_mark", "decide_mark", "edit_store", "done"},
           Goto(h, from, to),
           from \in {"file_mark", "decide_mark"} => to = from,
           from = "edit_entry" => to = "edit_store",
           from = "put_save" => to = "done",
           from \in {"file_mark", "decide_mark"} => todo' = Save(todo, h, todo[h] \ {m}),
           from \in {"edit_entry", "put_save"} => todo' = todo,
           UNCHANGED <<request, call, copy, blots>>
    PROVE  IInv'
<1>1. from \in InFlight /\ to \in Steps \ {"idle"} /\ from # "file_notify"
  BY DEF InFlight, Steps, FileSteps, DecideSteps, EditSteps
<1>2. /\ h \in DOMAIN call /\ Placed(h) /\ pc[h] = from /\ pc'[h] = to
      /\ call[h].op \in Ops /\ call[h].req \in Calls /\ call[h].on \subseteq Entries
      /\ pc' \in [Calls -> Steps]
      /\ IsTable(todo', Calls, SUBSET Entries)
      /\ Others(h)
      /\ Placed(h)' /\ (\A r \in DOMAIN request' :
             \/ r \in DOMAIN request
             \/ r \in DOMAIN call /\ call[r].op = "file" /\ pc'[r] \in Filed)
         => CallsInv'
  <2>1. h \in DOMAIN call /\ Placed(h)
    BY <1>1, Moved DEF IInv, CallsInv, InFlight, FileSteps, DecideSteps, EditSteps, Steps, Goto
  <2>2. pc[h] = from
    BY DEF Goto
  <2>3. from \in {"file_mark", "decide_mark"} => todo[h] \ {m} \in SUBSET Entries
    BY <2>1, <2>2 DEF Placed, FileSteps, DecideSteps, IInv, TypeOK, IsTable
  <2>4. todo' = todo \/ \E k \in SUBSET Entries : todo' = Save(todo, h, k)
    BY <2>3
  <2>5. QED
    BY <1>1, <2>4, Continued
<1>3. h \in DOMAIN copy /\ m \in DOMAIN copy[h].rows
  BY <1>2 DEF Placed, FileSteps, DecideSteps, EditSteps
<1>4. /\ IsTable(entry', Entries, EntryRow)
      /\ DOMAIN entry' = DOMAIN entry \cup {m}
      /\ entry'[m] = copy[h].rows[m]
      /\ \A n \in DOMAIN entry : n # m => entry'[n] = entry[n]
  BY <1>3, SavedEntry DEF IInv
<1>5. TypeOK'
  BY <1>2, <1>4 DEF IInv, TypeOK
<1>6. \/ from \in {"file_mark", "decide_mark"} /\ h \in DOMAIN todo' /\ todo'[h] = todo[h] \ {m}
      \/ from \in {"edit_entry", "put_save"} /\ todo' = todo
  BY DEF Save
<1>7. Placed(h)'
  <2>1. call[h].op \in {"decide", "edit", "drop"} => pc'[call[h].req] \in Filed
    BY <1>1, <1>2 DEF Placed, Others, Filed, FileSteps, DecideSteps, EditSteps
  <2>2. call[h].op \in {"file", "decide"} => h \in DOMAIN todo' /\ todo'[h] \subseteq call[h].on
    BY <1>2, <1>6 DEF Placed
  <2>3. QED
    BY <1>2, <2>1, <2>2 DEF Placed, FileSteps, DecideSteps, EditSteps, DropSteps
<1>8. CallsInv'
  BY <1>2, <1>7
<1>9. /\ Active(h) /\ Held(h)' = Held(h) /\ m \in Held(h)
      /\ call'[h] = call[h] /\ copy'[h] = copy[h]
  BY <1>2 DEF Active, Held, InFlight, FileSteps, DecideSteps, EditSteps, Telling
<1>10. \A r \in Calls : On(r)' \subseteq On(r)
  <2> SUFFICES ASSUME NEW r \in Calls, NEW g \in On(r)' PROVE g \in On(r)
    OBVIOUS
  <2>1. g \in DOMAIN call /\ g \in Calls /\ call[g].req = r
    BY Domains DEF On
  <2>2. CASE g = h
    BY <1>9, <2>1, <2>2 DEF On, Active
  <2>3. CASE g # h
    BY <1>2, <2>1, <2>3, OthersStay DEF IInv
  <2>4. QED
    BY <2>2, <2>3
<1>11. \A r, n : Lists(r, n)' <=> Lists(r, n)
  BY DEF Lists
<1>12. Growing /\ \A n : Clean(n)' <=> Clean(n)
  BY DEF Growing, Clean
<1>13. RaceInv'
  <2>1. ASSUME call[h].op \in Through, NEW n \in Held(h), "raced" \notin blots[n]
        PROVE  /\ Lists(call[h].req, n) /\ Follows(h, n)
               /\ \A g \in On(call[h].req) : g = h
    BY <1>9, <2>1 DEF IInv, RaceInv
  <2>2. \A n : Follows(h, n) => Follows(h, n)'
    BY <1>2 DEF Follows
  <2>3. \A r \in DOMAIN request', n \in Entries : Lists(r, n)' =>
            Lists(r, n) /\ On(r)' \subseteq On(r)
    BY <1>10, <1>11, RequestFields DEF IInv
  <2>4. \A r \in DOMAIN request, n \in Entries : Lists(r, n) =>
            /\ r \in DOMAIN request' /\ request'[r] = request[r]
            /\ On(r)' \subseteq On(r)
    BY <1>10, RequestFields DEF IInv
  <2>5. /\ On(call[h].req)' \subseteq On(call[h].req)
        /\ \A n : Lists(call[h].req, n)' <=> Lists(call[h].req, n)
    <3>1. PICK r \in Calls : r = call[h].req
      BY <1>2
    <3>2. On(r)' \subseteq On(r)
      BY <1>10
    <3>3. QED
      BY <3>1, <3>2 DEF On, Lists
  <2>6. QED
    BY <1>2, <1>5, <1>8, <1>9, <1>12, <2>1, <2>2, <2>3, <2>4, <2>5, RaceStays
<1>14. SoleInv'
  BY <1>2, <1>5, <1>9, <1>11, <1>12, SoleStays
<1>15. SnapInv'
  <2>1. ASSUME Clean(m)
        PROVE  /\ \A g \in Calls : Active(g) /\ m \in Held(g) => g = h
               /\ \A r \in DOMAIN request : Lists(r, m) =>
                      r = call[h].req /\ from \in {"decide_mark", "edit_entry"}
    <3>1. /\ \A g \in Calls : Active(g) /\ m \in Held(g) => g = h
          /\ \A r \in DOMAIN request : Lists(r, m) => r = call[h].req
      BY <1>2, <1>9, <2>1 DEF IInv, SoleInv
    <3>2. from \in {"file_mark", "put_save"} => call[h].req \notin DOMAIN request
      BY <1>2 DEF IInv, CallsInv, Placed, Filed, FileSteps
    <3>3. QED
      BY <3>1, <3>2
  <2>2. \A n \in Entries : n # m => SameEntry(n)
    BY <1>4 DEF SameEntry
  <2>3. \A n \in Entries : Changed(h, n)' <=> Changed(h, n) \/ (n = m /\ from \in {"decide_mark", "edit_entry"})
    BY <1>2, <1>6 DEF Changed, DecideSteps, DropSteps, Placed, EditSteps
  <2>4. \A r, n : h \in On(r) /\ Changed(h, n) => h \in On(r)'
    BY <1>2 DEF On, Changed, InFlight, Telling, DecideSteps, DropSteps
  <2>5. from \in {"decide_mark", "edit_entry"} => h \in On(call[h].req)'
    BY <1>2 DEF On, InFlight, Telling, DecideSteps, EditSteps
  <2>6. ASSUME NEW r \in Calls, NEW n \in Entries, Lists(r, n)', Clean(n)'
        PROVE  \/ n \in DOMAIN entry' /\ entry'[n] = request'[r].rows[n]
               \/ h \in On(r)' /\ Changed(h, n)'
               \/ /\ SameEntry(n)
                  /\ Lists(r, n) /\ request'[r].rows[n] = request[r].rows[n]
                  /\ ~ (h \in On(r) /\ Changed(h, n))
    <3>1. CASE n = m
      <4>1. r = call[h].req /\ from \in {"decide_mark", "edit_entry"}
        BY <1>11, <1>12, <2>1, <2>6, <3>1 DEF Lists
      <4>2. h \in On(r)'
        BY <2>5, <4>1 DEF On
      <4>3. QED
        BY <2>3, <3>1, <4>1, <4>2
    <3>2. CASE n # m
      BY <1>11, <2>2, <2>3, <2>4, <2>6, <3>2
    <3>3. QED
      BY <3>1, <3>2
  <2>7. ASSUME Active(h)', NEW n \in Entries, n \in Held(h)', Clean(n)', (call[h].op # "drop")'
        PROVE  (/\ n \in DOMAIN entry
                /\ \/ call[h].op = "file" /\ n \notin todo[h]
                   \/ call[h].op \in {"decide", "edit"} /\ Changed(h, n)
                   => entry[n] = copy[h].rows[n])'
    <3>1. /\ n \in DOMAIN entry
          /\ \/ call[h].op = "file" /\ n \notin todo[h]
             \/ call[h].op \in {"decide", "edit"} /\ Changed(h, n)
             => entry[n] = copy[h].rows[n]
      BY <1>9, <1>12, <2>7 DEF IInv, SnapInv
    <3>2. CASE n = m
      BY <1>4, <1>9, <3>2
    <3>3. CASE n # m
      <4>1. call[h].op = "file" /\ n \notin todo'[h] => n \notin todo[h]
        BY <1>6, <3>3
      <4>2. Changed(h, n)' => Changed(h, n)
        BY <2>3, <3>3
      <4>3. QED
        BY <1>4, <1>9, <3>1, <3>3, <4>1, <4>2
    <3>4. QED
      BY <3>2, <3>3
  <2>8. QED
    BY <1>2, <1>5, <1>12, <2>1, <2>2, <2>6, <2>7, SnapStays DEF SameEntry
<1>16. FlagsInv'
  <2>1. call[h].op \in {"file", "decide"} => \A n \in Entries :
            n \in Held(h) /\ blots[n] \cap {"resubmitted", "redecided", "raced"} = {} =>
               Told(copy[h].rows[n], copy[h].status)
    BY <1>9 DEF IInv, FlagsInv
  <2>2. QED
    BY <1>2, <1>5, <1>9, <1>11, <1>12, <2>1, FlagsStay
<1>17. QED
  BY <1>5, <1>8, <1>13, <1>14, <1>15, <1>16 DEF IInv

-----------------------------------------------------------------------------
(* The calls on a request *)

(* A clean entry of a request on which no call has anything to save is     *)
(* what the request says; no call has a copy of it.                        *)
LEMMA AtRest ==
    ASSUME IInv, NEW r \in DOMAIN request, On(r) = {},
           NEW n \in DOMAIN request[r].rows, Clean(n)
    PROVE  /\ n \in DOMAIN entry /\ entry[n] = request[r].rows[n]
           /\ \A g \in Calls : ~ (Active(g) /\ n \in Held(g))
           /\ \A q : Lists(q, n) => q = r
<1>1. n \in Entries /\ Lists(r, n)
  BY RequestFields DEF IInv, Lists
<1>2. /\ \A q : Lists(q, n) => q = r
      /\ \A g \in Calls : Active(g) /\ n \in Held(g) => r = call[g].req
  BY <1>1 DEF IInv, SoleInv, Lists
<1>3. n \in DOMAIN entry /\ entry[n] = request[r].rows[n]
  BY <1>1 DEF IInv, SnapInv, Lists
<1>4. ASSUME NEW g \in Calls, Active(g), n \in Held(g) PROVE FALSE
  BY <1>2, <1>4 DEF On, Active
<1>5. QED
  BY <1>2, <1>3, <1>4

LEMMA JoinInv ==
    ASSUME IInv, NEW h \in Calls, h \notin DOMAIN call, NEW r \in DOMAIN request,
           Others(h), TypeOK', CallsInv', Growing, request' = request,
           Active(h)', call'[h].req = r, Held(h)' \subseteq DOMAIN request[r].rows,
           On(r) # {} => \A n \in DOMAIN request[r].rows : "raced" \in blots'[n],
           \A n \in Held(h)' : Follows(h, n)'
    PROVE  RaceInv' /\ SoleInv'
<1>1. /\ r \in Calls /\ \A n \in DOMAIN request[r].rows : n \in Entries
      /\ \A g : h \notin On(g)
  BY RequestFields DEF IInv, On
<1>2. \A q, n : Lists(q, n)' <=> Lists(q, n)
  BY DEF Lists
<1>3. \A q \in Calls : On(q)' \subseteq On(q) \cup {h} /\ (q # r => On(q)' \subseteq On(q))
  <2> SUFFICES ASSUME NEW q \in Calls, NEW g \in On(q)'
               PROVE  g \in On(q) \/ (g = h /\ q = r)
    OBVIOUS
  <2>1. g \in Calls /\ (g = h => q = r)
    BY DEF On, TypeOK, IsTable
  <2>2. CASE g # h
    BY <2>1, <2>2, OthersStay DEF IInv
  <2>3. QED
    BY <2>1, <2>2
<1>4. RaceInv'
  <2>1. ASSUME NEW q \in DOMAIN request, NEW n \in Entries, Lists(q, n)
        PROVE  \/ "raced" \in blots'[n]
               \/ On(q)' \subseteq {h} /\ q = r /\ On(q) = {}
               \/ On(q)' \subseteq On(q) /\ q # r
    <3>1. q \in Calls
      BY RequestFields DEF IInv
    <3>2. CASE q = r
      BY <1>3, <2>1, <3>1, <3>2 DEF Lists
    <3>3. CASE q # r
      BY <1>3, <3>1, <3>3
    <3>4. QED
      BY <3>2, <3>3
  <2>2. ASSUME NEW n \in Held(h)', "raced" \notin blots'[n]
        PROVE  Lists(call[h].req, n)' /\ \A g \in On(call[h].req)' : g = h
    <3>1. On(r) = {} /\ Lists(r, n)
      BY <2>2 DEF Lists
    <3>2. On(r)' \subseteq {h}
      BY <1>1, <1>3, <3>1
    <3>3. QED
      BY <3>1, <3>2 DEF Lists, On
  <2>3. \A q \in DOMAIN request', n \in Entries : Lists(q, n)' =>
            \/ "raced" \in blots'[n]
            \/ On(q)' \subseteq {h}
            \/ Lists(q, n) /\ On(q)' \subseteq On(q)
    BY <1>2, <2>1
  <2>4. \A q \in DOMAIN request, n \in Entries : Lists(q, n) =>
            \/ "raced" \in blots'[n]
            \/ /\ q \in DOMAIN request' /\ request'[q] = request[q]
               /\ On(q)' \subseteq On(q)
            \/ \A g \in On(q) : g = h
    BY <2>1
  <2>5. Active(h)' /\ (call[h].op \in Through)' =>
            \A n \in Entries : n \in Held(h)' =>
               \/ "raced" \in blots'[n]
               \/ /\ Lists(call[h].req, n)' /\ Follows(h, n)'
                  /\ \A g \in On(call[h].req)' : g = h
    BY <2>2
  <2>6. QED
    BY <2>3, <2>4, <2>5, RaceStays
<1>5. SoleInv'
  <2>1. ASSUME NEW n \in Held(h)', Clean(n)'
        PROVE  Lists(call'[h].req, n) /\ \A g \in On(call'[h].req) : g = h
    BY <2>1 DEF Lists, Clean
  <2>2. QED
    BY <1>2, <2>1, SoleStays
<1>6. QED
  BY <1>4, <1>5

(* A call that begins on request r leaves the rest of the request alone.   *)
LEMMA JoinSnap ==
    ASSUME IInv, NEW h \in Calls, h \notin DOMAIN call, NEW r \in DOMAIN request,
           Others(h), TypeOK', Growing, request' = request,
           Active(h)', call'[h].req = r, Held(h)' \subseteq DOMAIN request[r].rows,
           On(r) # {} => \A n \in DOMAIN request[r].rows : "raced" \in blots'[n],
           \A n \in Entries : SameEntry(n) \/ (n \in DOMAIN request[r].rows /\ Changed(h, n)'),
           \A n \in Held(h)' : Clean(n)' /\ On(r) = {} /\ (call[h].op # "drop")' =>
               /\ SameEntry(n)
               /\ (call[h].op # "file")'
               /\ Changed(h, n)' => copy'[h].rows[n] = request[r].rows[n]
    PROVE  SnapInv'
<1>1. \A n \in DOMAIN request[r].rows : Clean(n)' => On(r) = {} /\ Clean(n) /\ n \in Entries
  BY RequestFields DEF Clean, IInv, Growing
<1>2. \A n \in DOMAIN request[r].rows : Clean(n)' =>
          /\ n \in DOMAIN entry /\ entry[n] = request[r].rows[n]
          /\ \A g \in Calls : ~ (Active(g) /\ n \in Held(g))
          /\ \A q : Lists(q, n) => q = r
  BY <1>1, AtRest
<1>3. h \in On(r)' /\ \A q : h \notin On(q)
  BY DEF On, Active
<1>4. ASSUME NEW q \in Calls, NEW n \in Entries, Lists(q, n)', Clean(n)'
      PROVE  \/ h \in On(q)' /\ Changed(h, n)'
             \/ /\ SameEntry(n)
                /\ Lists(q, n) /\ request'[q].rows[n] = request[q].rows[n]
                /\ ~ (h \in On(q) /\ Changed(h, n))
  <2>1. Lists(q, n)
    BY <1>4 DEF Lists
  <2>2. CASE SameEntry(n)
    BY <1>3, <2>1, <2>2
  <2>3. CASE n \in DOMAIN request[r].rows /\ Changed(h, n)'
    <3>1. q = r
      BY <1>2, <1>4, <2>1, <2>3
    <3>2. QED
      BY <1>3, <2>3, <3>1
  <2>4. QED
    BY <2>2, <2>3
<1>5. \A n \in Entries : Clean(n)' =>
          SameEntry(n) \/ \A g \in Calls : Active(g) /\ n \in Held(g) => g = h
  BY <1>2
<1>6. ASSUME NEW n \in Entries, n \in Held(h)', Clean(n)', (call[h].op # "drop")'
      PROVE  (/\ n \in DOMAIN entry
              /\ \/ call[h].op = "file" /\ n \notin todo[h]
                 \/ call[h].op \in {"decide", "edit"} /\ Changed(h, n)
                 => entry[n] = copy[h].rows[n])'
  <2>1. On(r) = {} /\ n \in DOMAIN entry /\ entry[n] = request[r].rows[n]
    BY <1>1, <1>2, <1>6
  <2>2. /\ SameEntry(n)
        /\ (call[h].op # "file")'
        /\ Changed(h, n)' => copy'[h].rows[n] = request[r].rows[n]
    BY <1>6, <2>1
  <2>3. QED
    BY <2>1, <2>2 DEF SameEntry
<1>7. QED
  BY <1>4, <1>5, <1>6, SnapStays

LEMMA DecideReadInv == ASSUME IInv, NEW h \in Calls, DecideRead(h) PROVE IInv'
<1>1. PICK r \in DOMAIN request, s \in Statuses \ {"pending"} :
         /\ call' = Save(call, h, Asks("decide", r, DOMAIN request[r].rows, s))
         /\ copy' = Save(copy, h, [status |-> s, rows |-> Mark(request[r].rows, s)])
         /\ todo' = Save(todo, h, IF s = "denied" THEN {} ELSE DOMAIN request[r].rows)
         /\ blots' = [n \in Entries |-> blots[n] \cup
                        (IF n \in DOMAIN request[r].rows
                         THEN {c \in {"raced"} : On(r) # {}} \cup
                              {c \in {"redecided"} : request[r].status # "pending"}
                         ELSE {})]
  BY DEF DecideRead
<1>2. Goto(h, "idle", "decide_mark") /\ UNCHANGED <<entry, request>>
  BY DEF DecideRead
<1>3. /\ r \in Calls /\ request[r].rows \in EntryRows /\ DOMAIN request[r].rows \subseteq Entries
      /\ request[r].status \in Statuses
  BY RequestFields DEF IInv
<1> DEFINE rows == request[r].rows
           marked == Mark(rows, s)
<1>4. /\ marked \in EntryRows /\ DOMAIN marked = DOMAIN rows
      /\ s = "denied" => marked = rows
      /\ \A n \in DOMAIN rows :
           ~ rows[n].approved /\ rows[n].requested => Told(marked[n], s)
  BY <1>3, MarkedRows
<1>5. copy' = Save(copy, h, [status |-> s, rows |-> marked])
  BY <1>1
<1> HIDE DEF marked
<1>6. PICK c \in Call : /\ call' = Save(call, h, c)
                        /\ c.op = "decide" /\ c.req = r /\ c.on = DOMAIN rows
  BY <1>1, <1>3 DEF Asks, Call, Ops
<1>7. PICK k \in RequestRow : copy' = Save(copy, h, k) /\ k.status = s /\ k.rows = marked
  BY <1>4, <1>5 DEF RequestRow
<1>8. /\ h \notin DOMAIN call /\ h \notin DOMAIN copy /\ h \notin DOMAIN request
      /\ DOMAIN call' = DOMAIN call \cup {h}
      /\ call'[h] = c
      /\ \A g \in DOMAIN call : g # h /\ call'[g] = call[g]
      /\ IsTable(call', Calls, Call)
      /\ pc[h] = "idle" /\ pc'[h] = "decide_mark"
      /\ pc' \in [Calls -> Steps]
      /\ \A g \in Calls : g # h => pc'[g] = pc[g]
  BY <1>2, <1>6, Begun DEF InFlight, DecideSteps
<1>9. /\ IsTable(copy', Calls, RequestRow)
      /\ DOMAIN copy' = DOMAIN copy \cup {h}
      /\ copy'[h] = k
      /\ \A g \in DOMAIN copy : g # h => copy'[g] = copy[g]
  BY <1>7, CopyKept DEF IInv
<1>10. PICK ns \in SUBSET DOMAIN rows :
          todo' = Save(todo, h, ns) /\ (s # "denied" => ns = DOMAIN rows)
  BY <1>1
<1>11. /\ IsTable(todo', Calls, SUBSET Entries)
       /\ DOMAIN todo' = DOMAIN todo \cup {h}
       /\ todo'[h] = ns
       /\ \A g \in DOMAIN todo : g # h => todo'[g] = todo[g]
  BY <1>3, <1>10, TodoKept DEF IInv
<1>12. /\ blots' \in [Entries -> SUBSET Cause] /\ Growing
       /\ On(r) # {} => \A n \in DOMAIN rows : "raced" \in blots'[n]
       /\ request[r].status # "pending" => \A n \in DOMAIN rows : "redecided" \in blots'[n]
  <2>1. ASSUME NEW n \in Entries
        PROVE  /\ blots'[n] \in SUBSET Cause /\ blots[n] \subseteq blots'[n]
               /\ n \in DOMAIN rows /\ On(r) # {} => "raced" \in blots'[n]
               /\ n \in DOMAIN rows /\ request[r].status # "pending" => "redecided" \in blots'[n]
    <3>1. blots'[n] = blots[n] \cup
                        (IF n \in DOMAIN rows
                         THEN {x \in {"raced"} : On(r) # {}} \cup
                              {x \in {"redecided"} : request[r].status # "pending"}
                         ELSE {})
      BY <1>1
    <3>2. blots[n] \in SUBSET Cause
      BY DEF IInv, TypeOK
    <3>3. QED
      BY <3>1, <3>2 DEF Cause
  <2>2. blots' \in [Entries -> SUBSET Cause]
    BY <1>1, <2>1
  <2>3. QED
    BY <1>3, <2>1, <2>2 DEF Growing
<1>13. Others(h)
  BY <1>8, <1>9, <1>11 DEF Others
<1>14. TypeOK'
  BY <1>2, <1>8, <1>9, <1>11, <1>12 DEF IInv, TypeOK
<1>15. r \in DOMAIN call /\ call[r].op = "file" /\ pc[r] \in Filed
  BY DEF IInv, CallsInv
<1>16. CallsInv'
  <2>1. Placed(h)'
    BY <1>3, <1>4, <1>6, <1>7, <1>8, <1>9, <1>10, <1>11, <1>15
       DEF Placed, FileSteps, DecideSteps, EditSteps, DropSteps, Filed
  <2>2. \A g \in DOMAIN call : Placed(g)'
    <3> SUFFICES ASSUME NEW g \in DOMAIN call PROVE Placed(g)'
      OBVIOUS
    <3>1. ~ (call[g].op \in {"decide", "edit", "drop"} /\ call[g].req = h)
      BY <1>8 DEF IInv, CallsInv, Placed
    <3>2. QED
      BY <1>8, <1>13, <3>1, PlacedStays
  <2>3. QED
    BY <1>2, <1>8, <1>9, <2>1, <2>2, Domains DEF IInv, CallsInv
<1>17. /\ Active(h)' /\ Held(h)' = DOMAIN rows /\ call'[h].req = r /\ call'[h].op = "decide"
       /\ \A n : Follows(h, n)'
  BY <1>4, <1>6, <1>7, <1>8, <1>9 DEF Active, Held, InFlight, Telling, DecideSteps, Follows
<1>18. RaceInv' /\ SoleInv'
  BY <1>2, <1>8, <1>12, <1>13, <1>14, <1>16, <1>17, JoinInv
<1>19. SnapInv'
  <2>1. \A n \in Entries : SameEntry(n)
    BY <1>2 DEF SameEntry
  <2>2. \A n \in DOMAIN rows : Changed(h, n)' => copy'[h].rows[n] = rows[n]
    BY <1>4, <1>7, <1>8, <1>9, <1>10, <1>11 DEF Changed, DropSteps
  <2>3. QED
    BY <1>2, <1>3, <1>8, <1>12, <1>13, <1>14, <1>17, <2>1, <2>2, JoinSnap
<1>20. FlagsInv'
  <2>1. ASSUME NEW n \in Entries, n \in Held(h)',
               blots'[n] \cap {"resubmitted", "redecided", "raced"} = {}
        PROVE  Told(copy'[h].rows[n], copy'[h].status)
    <3>1. n \in DOMAIN rows /\ request[r].status = "pending" /\ Lists(r, n)
      BY <1>12, <1>17, <2>1 DEF Lists
    <3>2. blots[n] \cap {"resubmitted", "redecided", "raced"} = {}
      BY <1>12, <2>1 DEF Growing
    <3>3. Told(rows[n], "pending")
      BY <3>1, <3>2 DEF IInv, FlagsInv
    <3>4. ~ rows[n].approved /\ rows[n].requested
      BY <3>3 DEF Told
    <3>5. QED
      BY <1>4, <1>7, <1>9, <3>1, <3>4
  <2>2. \A q, n : Lists(q, n)' <=> Lists(q, n)
    BY <1>2 DEF Lists
  <2>3. QED
    BY <1>2, <1>12, <1>13, <1>14, <2>1, <2>2, FlagsStay
<1>21. QED
  BY <1>14, <1>16, <1>18, <1>19, <1>20 DEF IInv

(* Of an edit and of a deletion, the rows of a request on which another    *)
(* call has something to save are raced.                                   *)
LEMMA RacedRows ==
    ASSUME IInv, NEW r \in DOMAIN request,
           Blame(IF On(r) = {} THEN {} ELSE DOMAIN request[r].rows, "raced")
    PROVE  /\ blots' \in [Entries -> SUBSET Cause] /\ Growing
           /\ On(r) # {} => \A n \in DOMAIN request[r].rows : "raced" \in blots'[n]
<1> DEFINE ns == IF On(r) = {} THEN {} ELSE DOMAIN request[r].rows
<1>1. Blame(ns, "raced") /\ "raced" \in Cause
  BY DEF Cause
<1>2. On(r) # {} => ns = DOMAIN request[r].rows
  OBVIOUS
<1> HIDE DEF ns
<1>3. QED
  BY <1>1, <1>2, BlameType, RequestFields DEF IInv, Growing

LEMMA EditViewInv == ASSUME IInv, NEW h \in Calls, EditView(h) PROVE IInv'
<1>1. PICK r \in DOMAIN request, d \in Data : \E n \in DOMAIN request[r].rows :
         /\ call' = Save(call, h, Asks("edit", r, {n}, "pending"))
         /\ copy' = Save(copy, h, [status |-> "pending", rows |->
                        [m \in {n} |-> [request[r].rows[n] EXCEPT !.data = d]]])
         /\ Blame(IF On(r) = {} THEN {} ELSE DOMAIN request[r].rows, "raced")
  BY DEF EditView
<1>2. PICK m \in DOMAIN request[r].rows :
         /\ call' = Save(call, h, Asks("edit", r, {m}, "pending"))
         /\ copy' = Save(copy, h, [status |-> "pending", rows |->
                        [x \in {m} |-> [request[r].rows[m] EXCEPT !.data = d]]])
         /\ Blame(IF On(r) = {} THEN {} ELSE DOMAIN request[r].rows, "raced")
  BY <1>1
<1>3. Goto(h, "idle", "edit_read") /\ UNCHANGED <<entry, request, todo>>
  BY DEF EditView
<1>4. r \in Calls /\ m \in Entries /\ request[r].rows[m] \in EntryRow
  BY RequestFields DEF IInv
<1> DEFINE edited == [x \in {m} |-> [request[r].rows[m] EXCEPT !.data = d]]
<1>5. /\ edited \in EntryRows /\ DOMAIN edited = {m}
      /\ edited[m].requested = request[r].rows[m].requested
      /\ edited[m].approved = request[r].rows[m].approved
  <2>1. [request[r].rows[m] EXCEPT !.data = d] \in EntryRow
    BY <1>4 DEF EntryRow
  <2>2. edited \in [{m} -> EntryRow]
    BY <2>1
  <2>3. edited \in EntryRows
    BY <1>4, <2>2, RowsAreTables DEF IsTable
  <2>4. QED
    BY <1>4, <2>3 DEF EntryRow
<1>6. copy' = Save(copy, h, [status |-> "pending", rows |-> edited])
  BY <1>2
<1> HIDE DEF edited
<1>7. PICK c \in Call : /\ call' = Save(call, h, c)
                        /\ c.op = "edit" /\ c.req = r /\ c.on = {m}
  BY <1>2, <1>4 DEF Asks, Call, Ops, Statuses
<1>8. PICK k \in RequestRow : copy' = Save(copy, h, k) /\ k.rows = edited
  BY <1>5, <1>6 DEF RequestRow, Statuses
<1>9. /\ h \notin DOMAIN call /\ h \notin DOMAIN copy /\ h \notin DOMAIN request
      /\ DOMAIN call' = DOMAIN call \cup {h}
      /\ call'[h] = c
      /\ \A g \in DOMAIN call : g # h /\ call'[g] = call[g]
      /\ IsTable(call', Calls, Call)
      /\ pc[h] = "idle" /\ pc'[h] = "edit_read"
      /\ pc' \in [Calls -> Steps]
      /\ \A g \in Calls : g # h => pc'[g] = pc[g]
  BY <1>3, <1>7, Begun DEF InFlight, EditSteps
<1>10. /\ IsTable(copy', Calls, RequestRow)
       /\ DOMAIN copy' = DOMAIN copy \cup {h}
       /\ copy'[h] = k
       /\ \A g \in DOMAIN copy : g # h => copy'[g] = copy[g]
  BY <1>8, CopyKept DEF IInv
<1>11. /\ blots' \in [Entries -> SUBSET Cause] /\ Growing
       /\ On(r) # {} => \A n \in DOMAIN request[r].rows : "raced" \in blots'[n]
  BY <1>2, RacedRows
<1>12. Others(h)
  BY <1>3, <1>9, <1>10 DEF Others
<1>13. TypeOK'
  BY <1>3, <1>9, <1>10, <1>11 DEF IInv, TypeOK
<1>14. r \in DOMAIN call /\ call[r].op = "file" /\ pc[r] \in Filed
  BY DEF IInv, CallsInv
<1>15. CallsInv'
  <2>1. Placed(h)'
    BY <1>4, <1>5, <1>7, <1>8, <1>9, <1>10, <1>14
       DEF Placed, FileSteps, DecideSteps, EditSteps, DropSteps, Filed
  <2>2. \A g \in DOMAIN call : Placed(g)'
    <3> SUFFICES ASSUME NEW g \in DOMAIN call PROVE Placed(g)'
      OBVIOUS
    <3>1. ~ (call[g].op \in {"decide", "edit", "drop"} /\ call[g].req = h)
      BY <1>9 DEF IInv, CallsInv, Placed
    <3>2. QED
      BY <1>9, <1>12, <3>1, PlacedStays
  <2>3. QED
    BY <1>3, <1>9, <1>10, <2>1, <2>2, Domains DEF IInv, CallsInv
<1>16. /\ Active(h)' /\ Held(h)' = {m} /\ call'[h].req = r /\ call'[h].op = "edit"
       /\ \A n : ~ Changed(h, n)'
  BY <1>5, <1>7, <1>8, <1>9, <1>10
     DEF Active, Held, InFlight, Telling, EditSteps, DropSteps, DecideSteps, Changed
<1>17. \A n \in Held(h)' : Follows(h, n)'
  BY <1>3, <1>5, <1>8, <1>9, <1>10, <1>16 DEF Follows
<1>18. RaceInv' /\ SoleInv'
  BY <1>3, <1>9, <1>11, <1>12, <1>13, <1>15, <1>16, <1>17, JoinInv
<1>19. SnapInv'
  <2>1. \A n \in Entries : SameEntry(n)
    BY <1>3 DEF SameEntry
  <2>2. QED
    BY <1>3, <1>4, <1>9, <1>11, <1>12, <1>13, <1>16, <2>1, JoinSnap
<1>20. FlagsInv'
  <2>1. \A q, n : Lists(q, n)' <=> Lists(q, n)
    BY <1>3 DEF Lists
  <2>2. QED
    BY <1>3, <1>11, <1>12, <1>13, <1>16, <2>1, FlagsStay
<1>21. QED
  BY <1>13, <1>15, <1>18, <1>19, <1>20 DEF IInv

LEMMA DropEntryInv == ASSUME IInv, NEW h \in Calls, DropEntry(h) PROVE IInv'
<1>1. PICK r \in DOMAIN request : \E n \in DOMAIN request[r].rows :
         /\ entry' = Delete(entry, n)
         /\ call' = Save(call, h, Asks("drop", r, {n}, "pending"))
         /\ Blame(IF On(r) = {} THEN {} ELSE DOMAIN request[r].rows, "raced")
  BY DEF DropEntry
<1>2. PICK m \in DOMAIN request[r].rows :
         /\ entry' = Delete(entry, m)
         /\ call' = Save(call, h, Asks("drop", r, {m}, "pending"))
         /\ Blame(IF On(r) = {} THEN {} ELSE DOMAIN request[r].rows, "raced")
  BY <1>1
<1>3. Goto(h, "idle", "drop_read") /\ UNCHANGED <<request, copy, todo>>
  BY DEF DropEntry
<1>4. r \in Calls /\ m \in Entries
  BY RequestFields DEF IInv
<1>5. PICK c \in Call : /\ call' = Save(call, h, c)
                        /\ c.op = "drop" /\ c.req = r /\ c.on = {m}
  BY <1>2, <1>4 DEF Asks, Call, Ops, Statuses
<1>6. /\ h \notin DOMAIN call /\ h \notin DOMAIN copy /\ h \notin DOMAIN request
      /\ DOMAIN call' = DOMAIN call \cup {h}
      /\ call'[h] = c
      /\ \A g \in DOMAIN call : g # h /\ call'[g] = call[g]
      /\ IsTable(call', Calls, Call)
      /\ pc[h] = "idle" /\ pc'[h] = "drop_read"
      /\ pc' \in [Calls -> Steps]
      /\ \A g \in Calls : g # h => pc'[g] = pc[g]
  BY <1>3, <1>5, Begun DEF InFlight, DropSteps
<1>7. /\ blots' \in [Entries -> SUBSET Cause] /\ Growing
      /\ On(r) # {} => \A n \in DOMAIN request[r].rows : "raced" \in blots'[n]
  BY <1>2, RacedRows
<1>8. Others(h)
  BY <1>3, <1>6 DEF Others
<1>9. /\ IsTable(entry', Entries, EntryRow)
      /\ \A n \in Entries : n # m => SameEntry(n)
  <2>1. IsTable(entry', Entries, EntryRow)
    BY <1>2 DEF IInv, TypeOK, Delete, IsTable
  <2>2. QED
    BY <1>2, <2>1 DEF SameEntry, Delete
<1>10. TypeOK'
  BY <1>3, <1>6, <1>7, <1>9 DEF IInv, TypeOK
<1>11. r \in DOMAIN call /\ call[r].op = "file" /\ pc[r] \in Filed
  BY DEF IInv, CallsInv
<1>12. CallsInv'
  <2>1. Placed(h)'
    BY <1>3, <1>4, <1>5, <1>6, <1>11
       DEF Placed, FileSteps, DecideSteps, EditSteps, DropSteps, Filed
  <2>2. \A g \in DOMAIN call : Placed(g)'
    <3> SUFFICES ASSUME NEW g \in DOMAIN call PROVE Placed(g)'
      OBVIOUS
    <3>1. ~ (call[g].op \in {"decide", "edit", "drop"} /\ call[g].req = h)
      BY <1>6 DEF IInv, CallsInv, Placed
    <3>2. QED
      BY <1>6, <1>8, <3>1, PlacedStays
  <2>3. QED
    BY <1>3, <1>6, <2>1, <2>2, Domains DEF IInv, CallsInv
<1>13. /\ Active(h)' /\ Held(h)' = {m} /\ call'[h].req = r /\ call'[h].op = "drop"
       /\ Changed(h, m)'
  BY <1>3, <1>5, <1>6
     DEF Active, Held, InFlight, Telling, DropSteps, Changed
<1>14. \A n \in Held(h)' : Follows(h, n)'
  BY <1>6 DEF Follows
<1>15. RaceInv' /\ SoleInv'
  BY <1>3, <1>6, <1>7, <1>8, <1>10, <1>12, <1>13, <1>14, JoinInv
<1>16. SnapInv'
  <2>1. \A n \in Entries : SameEntry(n) \/ (n \in DOMAIN request[r].rows /\ Changed(h, n)')
    BY <1>9, <1>13
  <2>2. QED
    BY <1>3, <1>6, <1>7, <1>8, <1>10, <1>13, <2>1, JoinSnap
<1>17. FlagsInv'
  <2>1. \A q, n : Lists(q, n)' <=> Lists(q, n)
    BY <1>3 DEF Lists
  <2>2. QED
    BY <1>3, <1>7, <1>8, <1>10, <1>13, <2>1, FlagsStay
<1>18. QED
  BY <1>10, <1>12, <1>15, <1>16, <1>17 DEF IInv

(* Reading the request that a call is to save. *)
LEMMA RereadInv ==
    ASSUME IInv, NEW h \in Calls, NEW k \in RequestRow,
           NEW from \in {"edit_read", "drop_read"}, NEW to \in {"edit_entry", "drop_store"},
           Goto(h, from, to), from = "edit_read" <=> to = "edit_entry",
           call[h].req \in DOMAIN request, copy' = Save(copy, h, k),
           k.status = request[call[h].req].status,
           from = "edit_read" => /\ call[h].on \subseteq DOMAIN k.rows
                                 /\ \A n \in call[h].on : k.rows[n] = copy[h].rows[n],
           from = "drop_read" => call[h].on \cap DOMAIN k.rows = {},
           \A n \in DOMAIN k.rows \ call[h].on :
               /\ n \in DOMAIN request[call[h].req].rows
               /\ k.rows[n] = request[call[h].req].rows[n],
           UNCHANGED <<entry, request, call, todo, blots>>
    PROVE  IInv'
<1>1. from \in InFlight /\ to \in Steps \ {"idle"} /\ from # "file_notify"
  BY DEF InFlight, Steps, EditSteps, DropSteps
<1>2. /\ h \in DOMAIN call /\ Placed(h) /\ pc[h] = from /\ pc'[h] = to
      /\ call[h].op \in Ops /\ call[h].req \in Calls /\ call[h].on \subseteq Entries
      /\ pc' \in [Calls -> Steps]
      /\ IsTable(copy', Calls, RequestRow)
      /\ Others(h)
      /\ Placed(h)' /\ (\A r \in DOMAIN request' :
             \/ r \in DOMAIN request
             \/ r \in DOMAIN call /\ call[r].op = "file" /\ pc'[r] \in Filed)
         => CallsInv'
  BY <1>1, Continued
<1>3. /\ h \in DOMAIN copy' /\ copy'[h] = k
      /\ call[h].op = IF from = "edit_read" THEN "edit" ELSE "drop"
  BY <1>2 DEF Save, Placed, EditSteps, DropSteps
<1>4. TypeOK'
  BY <1>2 DEF IInv, TypeOK
<1>5. Placed(h)'
  <2>1. pc'[call[h].req] \in Filed
    BY <1>2, <1>3 DEF Placed, Others, Filed
  <2>2. QED
    BY <1>2, <1>3, <2>1 DEF Placed, FileSteps, DecideSteps, EditSteps, DropSteps
<1>6. CallsInv'
  BY <1>2, <1>5
<1> DEFINE q == call[h].req
<1>7. /\ Active(h) /\ Active(h)' /\ h \in On(q) /\ call'[h] = call[h]
      /\ Held(h)' = call[h].on \cup DOMAIN k.rows
      /\ from = "edit_read" => call[h].on \subseteq DOMAIN copy[h].rows
      /\ call[h].on \subseteq Held(h)
  BY <1>2, <1>3 DEF Active, Held, On, InFlight, Telling, EditSteps, DropSteps, Placed
<1>8. \A r \in Calls : On(r)' = On(r)
  BY <1>2, <1>7, Domains DEF On, Active, Others
<1>9. \A r, n : Lists(r, n)' <=> Lists(r, n)
  BY DEF Lists
<1>10. Growing /\ \A n : Clean(n)' <=> Clean(n)
  BY DEF Growing, Clean
<1>11. ASSUME NEW n \in Held(h)', "raced" \notin blots[n]
       PROVE  Lists(q, n) /\ (\A g \in On(q) : g = h) /\ Follows(h, n)'
  <2>1. CASE n \in call[h].on
    <3>1. n \in Held(h) /\ call[h].op \in Through
      BY <1>3, <1>7, <2>1 DEF Through
    <3>2. Lists(q, n) /\ (\A g \in On(q) : g = h) /\ Follows(h, n)
      BY <1>7, <1>11, <3>1 DEF IInv, RaceInv
    <3>3. QED
      BY <1>2, <1>3, <2>1, <3>2 DEF Follows
  <2>2. CASE n \notin call[h].on
    <3>1. n \in DOMAIN request[q].rows /\ k.rows[n] = request[q].rows[n]
      BY <1>7, <2>2
    <3>2. \A g \in On(q) : g = h
      BY <1>7, <1>11, <3>1 DEF IInv, RaceInv
    <3>3. QED
      BY <1>2, <1>3, <2>2, <3>1, <3>2 DEF Follows, Lists
  <2>3. QED
    BY <2>1, <2>2
<1>12. RaceInv'
  <2>1. \A r \in DOMAIN request', n \in Entries : Lists(r, n)' =>
            Lists(r, n) /\ On(r)' \subseteq On(r)
    BY <1>8, <1>9, RequestFields DEF IInv
  <2>2. \A r \in DOMAIN request, n \in Entries : Lists(r, n) =>
            /\ r \in DOMAIN request' /\ request'[r] = request[r]
            /\ On(r)' \subseteq On(r)
    BY <1>8, RequestFields DEF IInv
  <2>3. On(q)' = On(q) /\ \A n : Lists(q, n)' <=> Lists(q, n)
    BY <1>2, <1>8, <1>9 DEF On, Lists
  <2>4. QED
    BY <1>2, <1>4, <1>6, <1>10, <1>11, <2>1, <2>2, <2>3, RaceStays
<1>13. SoleInv'
  <2>1. ASSUME NEW n \in Held(h)', Clean(n)'
        PROVE  Lists(call'[h].req, n) /\ \A g \in On(call'[h].req) : g = h
    BY <1>7, <1>10, <1>11, <2>1 DEF Clean
  <2>2. QED
    BY <1>2, <1>4, <1>9, <1>10, <2>1, SoleStays
<1>14. SnapInv'
  <2>1. \A n \in Entries : SameEntry(n)
    BY DEF SameEntry
  <2>2. \A n : Changed(h, n)' <=> from = "drop_read" /\ n \in call[h].on
    BY <1>2 DEF Changed, DecideSteps, DropSteps
  <2>3. \A n : Changed(h, n) <=> from = "drop_read" /\ n \in call[h].on
    BY <1>2 DEF Changed, DecideSteps, DropSteps
  <2>4. \A r : h \in On(r) => h \in On(r)'
    BY <1>2, <1>7 DEF On, Active
  <2>5. ASSUME NEW n \in Entries, n \in Held(h)', Clean(n)', (call[h].op # "drop")'
        PROVE  n \in DOMAIN entry
    <3>1. Lists(q, n) /\ \A g \in On(q) : g = h
      BY <1>10, <1>11, <2>5 DEF Clean
    <3>2. ~ Changed(h, n)
      BY <1>3, <2>3, <2>5
    <3>3. ~ \E x \in On(q) : Changed(x, n)
      BY <3>1, <3>2
    <3>4. QED
      BY <1>10, <2>5, <3>1, <3>3 DEF IInv, SnapInv, Lists
  <2>6. QED
    BY <1>2, <1>3, <1>4, <1>9, <1>10, <2>1, <2>2, <2>3, <2>4, <2>5, SnapStays
<1>15. FlagsInv'
  BY <1>2, <1>3, <1>4, <1>9, <1>10, FlagsStay
<1>16. QED
  BY <1>4, <1>6, <1>12, <1>13, <1>14, <1>15 DEF IInv

LEMMA EditReadInv == ASSUME IInv, NEW h \in Calls, EditRead(h) PROVE IInv'
<1> DEFINE r == call[h].req
           rows == [m \in DOMAIN request[r].rows \cup call[h].on |->
                       IF m \in call[h].on THEN copy[h].rows[m] ELSE request[r].rows[m]]
<1>1. CASE /\ Goto(h, "edit_read", "edit_entry")
           /\ r \in DOMAIN request
           /\ copy' = Save(copy, h, [status |-> request[r].status, rows |-> rows])
           /\ UNCHANGED <<entry, request, call, todo, blots>>
  <2>1. h \in DOMAIN call /\ Placed(h) /\ pc[h] = "edit_read"
    BY <1>1 DEF Goto, IInv, CallsInv
  <2>2. h \in DOMAIN copy /\ call[h].on \subseteq DOMAIN copy[h].rows
    BY <2>1 DEF Placed, EditSteps
  <2>3. rows \in EntryRows
    <3>1. \A m \in DOMAIN request[r].rows \cup call[h].on : m \in Entries /\ rows[m] \in EntryRow
      BY <1>1, <2>2, RequestFields, CopyFields DEF IInv
    <3>2. rows \in [DOMAIN request[r].rows \cup call[h].on -> EntryRow]
      BY <3>1
    <3>3. QED
      BY <3>1, <3>2, RowsAreTables DEF IsTable
  <2>4. /\ call[h].on \subseteq DOMAIN rows
        /\ \A n \in call[h].on : rows[n] = copy[h].rows[n]
        /\ \A n \in DOMAIN rows \ call[h].on :
              n \in DOMAIN request[r].rows /\ rows[n] = request[r].rows[n]
    OBVIOUS
  <2>5. request[r].status \in Statuses
    BY <1>1, RequestFields DEF IInv
  <2> HIDE DEF rows
  <2>6. PICK k \in RequestRow : copy' = Save(copy, h, k) /\ k.status = request[r].status /\ k.rows = rows
    BY <1>1, <2>3, <2>5 DEF RequestRow
  <2>7. QED
    BY <1>1, <2>4, <2>6, RereadInv
<1>2. CASE /\ Goto(h, "edit_read", "failed")
           /\ r \notin DOMAIN request
           /\ UNCHANGED <<entry, request, call, copy, todo, blots>>
  BY <1>2, GoneInv DEF InFlight, EditSteps
<1>3. QED
  BY <1>1, <1>2 DEF EditRead

LEMMA DropReadInv == ASSUME IInv, NEW h \in Calls, DropRead(h) PROVE IInv'
<1> DEFINE r == call[h].req
<1>1. CASE /\ Goto(h, "drop_read", "drop_store")
           /\ r \in DOMAIN request
           /\ \E n \in call[h].on :
                copy' = Save(copy, h, [request[r] EXCEPT !.rows = Without(@, n)])
           /\ UNCHANGED <<entry, request, call, todo, blots>>
  <2>1. h \in DOMAIN call /\ Placed(h) /\ pc[h] = "drop_read"
    BY <1>1 DEF Goto, IInv, CallsInv
  <2>2. PICK n \in call[h].on :
                copy' = Save(copy, h, [request[r] EXCEPT !.rows = Without(@, n)])
    BY <1>1
  <2>3. call[h].on = {n}
    BY <2>1 DEF Placed, DropSteps
  <2> DEFINE rows == Without(request[r].rows, n)
  <2>4. /\ DOMAIN rows = DOMAIN request[r].rows \ {n}
        /\ \A m \in DOMAIN rows : rows[m] = request[r].rows[m]
    BY DEF Without
  <2>5. rows \in EntryRows
    <3>1. \A m \in DOMAIN rows : m \in Entries /\ rows[m] \in EntryRow
      BY <1>1, <2>4, RequestFields DEF IInv
    <3>2. rows \in [DOMAIN rows -> EntryRow]
      BY <3>1 DEF Without
    <3>3. QED
      BY <3>1, <3>2, RowsAreTables DEF IsTable
  <2>6. request[r] \in RequestRow
    BY <1>1, RequestFields DEF IInv
  <2>7. copy' = Save(copy, h, [request[r] EXCEPT !.rows = rows])
    BY <2>2, <2>6 DEF RequestRow
  <2> HIDE DEF rows
  <2>8. PICK k \in RequestRow : copy' = Save(copy, h, k) /\ k.status = request[r].status /\ k.rows = rows
    BY <2>5, <2>6, <2>7 DEF RequestRow
  <2>9. QED
    BY <1>1, <2>3, <2>4, <2>8, RereadInv
<1>2. CASE /\ Goto(h, "drop_read", "failed")
           /\ r \notin DOMAIN request
           /\ UNCHANGED <<entry, request, call, copy, todo, blots>>
  BY <1>2, GoneInv DEF InFlight, DropSteps
<1>3. QED
  BY <1>1, <1>2 DEF DropRead

-----------------------------------------------------------------------------
(* The steps that save an entry or a request *)

LEMMA MarkEntryInv == ASSUME IInv, NEW h \in Calls, MarkEntry(h) PROVE IInv'
<1>1. PICK m \in todo[h] : SaveEntry(h, m) /\ todo' = [todo EXCEPT ![h] = @ \ {m}]
  BY DEF MarkEntry
<1>2. pc[h] \in {"file_mark", "decide_mark"} /\ UNCHANGED <<request, pc, call, copy, blots>>
  BY DEF MarkEntry
<1>3. h \in DOMAIN call /\ Placed(h)
  BY <1>2 DEF IInv, CallsInv
<1>4. h \in DOMAIN todo /\ todo[h] \subseteq call[h].on
  BY <1>2, <1>3 DEF Placed, FileSteps, DecideSteps
<1>5. todo' = Save(todo, h, todo[h] \ {m})
  BY <1>1, <1>4 DEF Save, IInv, TypeOK, IsTable
<1>6. Goto(h, pc[h], pc[h])
  BY <1>2 DEF Goto, IInv, TypeOK
<1>7. QED
  BY <1>1, <1>2, <1>4, <1>5, <1>6, SaveStepInv

LEMMA SaveEntriesInv ==
    ASSUME IInv, NEW h \in Calls, EditSaveEntry(h) \/ PutSave(h) PROVE IInv'
<1>1. PICK m \in call[h].on : SaveEntry(h, m)
  BY DEF EditSaveEntry, PutSave
<1>2. UNCHANGED <<request, call, copy, todo, blots>>
  BY DEF EditSaveEntry, PutSave
<1>3. Goto(h, "edit_entry", "edit_store") \/ Goto(h, "put_save", "done")
  BY DEF EditSaveEntry, PutSave
<1>4. QED
  BY <1>1, <1>2, <1>3, SaveStepInv

LEMMA StoresInv ==
    ASSUME IInv, NEW h \in Calls,
           FileStore(h) \/ DecideStore(h) \/ EditStore(h) \/ DropStore(h)
    PROVE  IInv'
<1>1. CASE FileStore(h)
  <2>1. call[h].req = h
    BY <1>1 DEF FileStore, Goto, IInv, CallsInv, Placed, FileSteps
  <2>2. QED
    BY <1>1, <2>1, StoreInv DEF FileStore
<1>2. CASE DecideStore(h)
  BY <1>2, StoreInv DEF DecideStore
<1>3. CASE EditStore(h)
  BY <1>3, StoreInv DEF EditStore
<1>4. CASE DropStore(h)
  BY <1>4, StoreInv DEF DropStore
<1>5. QED
  BY <1>1, <1>2, <1>3, <1>4
-----------------------------------------------------------------------------
(* An entry edited, or deleted, on its own *)

LEMMA PutReadInv == ASSUME IInv, NEW h \in Calls, PutRead(h) PROVE IInv'
<1>1. PICK m \in DOMAIN entry, d \in Data :
         /\ call' = Save(call, h, Asks("put", h, {m}, "pending"))
         /\ copy' = Save(copy, h, [status |-> "pending", rows |->
                        [x \in {m} |-> [entry[m] EXCEPT !.data = d]]])
         /\ Blame(Copied \cap {m}, "edited")
  BY DEF PutRead
<1>2. Goto(h, "idle", "put_save") /\ UNCHANGED <<entry, request, todo>>
  BY DEF PutRead
<1>3. m \in Entries /\ entry[m] \in EntryRow
  BY DEF IInv, TypeOK, IsTable
<1> DEFINE rows == [x \in {m} |-> [entry[m] EXCEPT !.data = d]]
<1>4. rows \in EntryRows /\ DOMAIN rows = {m}
  <2>1. [entry[m] EXCEPT !.data = d] \in EntryRow
    BY <1>3 DEF EntryRow
  <2>2. rows \in [{m} -> EntryRow]
    BY <2>1
  <2>3. QED
    BY <1>3, <2>2, RowsAreTables DEF IsTable
<1>5. copy' = Save(copy, h, [status |-> "pending", rows |-> rows])
  BY <1>1
<1> HIDE DEF rows
<1>6. PICK c \in Call : /\ call' = Save(call, h, c)
                        /\ c.op = "put" /\ c.req = h /\ c.on = {m}
  BY <1>1, <1>3 DEF Asks, Call, Ops, Statuses
<1>7. PICK k \in RequestRow : copy' = Save(copy, h, k) /\ k.rows = rows
  BY <1>4, <1>5 DEF RequestRow, Statuses
<1>8. /\ h \notin DOMAIN call /\ h \notin DOMAIN copy /\ h \notin DOMAIN request
      /\ DOMAIN call' = DOMAIN call \cup {h}
      /\ call'[h] = c
      /\ \A g \in DOMAIN call : g # h /\ call'[g] = call[g]
      /\ IsTable(call', Calls, Call)
      /\ pc[h] = "idle" /\ pc'[h] = "put_save"
      /\ pc' \in [Calls -> Steps]
      /\ \A g \in Calls : g # h => pc'[g] = pc[g]
  BY <1>2, <1>6, Begun DEF InFlight
<1>9. /\ IsTable(copy', Calls, RequestRow)
      /\ DOMAIN copy' = DOMAIN copy \cup {h}
      /\ copy'[h] = k
      /\ \A g \in DOMAIN copy : g # h => copy'[g] = copy[g]
  BY <1>7, CopyKept DEF IInv
<1>10. /\ blots' \in [Entries -> SUBSET Cause] /\ Growing
       /\ Clean(m)' => m \notin Copied
  BY <1>1, <1>3, BlameType DEF IInv, Growing, Clean, Cause
<1>11. Others(h)
  BY <1>2, <1>8, <1>9 DEF Others
<1>12. TypeOK'
  BY <1>2, <1>8, <1>9, <1>10 DEF IInv, TypeOK
<1>13. CallsInv'
  <2>1. Placed(h)'
    BY <1>3, <1>4, <1>6, <1>7, <1>8, <1>9
       DEF Placed, FileSteps, DecideSteps, EditSteps, DropSteps
  <2>2. \A g \in DOMAIN call : Placed(g)'
    <3> SUFFICES ASSUME NEW g \in DOMAIN call PROVE Placed(g)'
      OBVIOUS
    <3>1. ~ (call[g].op \in {"decide", "edit", "drop"} /\ call[g].req = h)
      BY <1>8 DEF IInv, CallsInv, Placed
    <3>2. QED
      BY <1>8, <1>11, <3>1, PlacedStays
  <2>3. QED
    BY <1>2, <1>8, <1>9, <2>1, <2>2, Domains DEF IInv, CallsInv
<1>14. /\ Held(h)' = {m} /\ (call[h].op = "put")'
       /\ \A n : ~ Changed(h, n)'
       /\ \A r : h \notin On(r)
  BY <1>4, <1>6, <1>7, <1>8, <1>9 DEF Held, Changed, DecideSteps, DropSteps, On
<1>15. \A r, n : Lists(r, n)' <=> Lists(r, n)
  BY <1>2 DEF Lists
<1>16. RaceInv'
  <2>1. \A r \in DOMAIN request : On(r)' = On(r)
    BY <1>6, <1>8, Domains DEF On
  <2>2. QED
    BY <1>2, <1>10, <1>11, <1>12, <1>13, <1>14, <1>15, <2>1, RaceStays DEF Lists, Through
<1>17. SoleInv'
  BY <1>10, <1>11, <1>12, <1>14, <1>15, SoleStays
<1>18. SnapInv'
  BY <1>2, <1>10, <1>11, <1>12, <1>14, <1>15, SnapStays DEF SameEntry
<1>19. FlagsInv'
  BY <1>2, <1>10, <1>11, <1>12, <1>14, <1>15, FlagsStay
<1>20. QED
  BY <1>12, <1>13, <1>16, <1>17, <1>18, <1>19 DEF IInv

LEMMA DeleteEntryInv == ASSUME IInv, NEW m \in Entries, DeleteEntry(m) PROVE IInv'
<1>1. entry' = Delete(entry, m) /\ Blame(Copied \cap {m}, "edited")
  BY DEF DeleteEntry
<1>2. UNCHANGED <<request, pc, call, copy, todo>>
  BY DEF DeleteEntry
<1>3. PICK h : h \notin Calls
  BY NoSetContainsEverything
<1>4. Others(h) /\ h \notin DOMAIN call /\ ~ Active(h)' /\ \A r : h \notin On(r)
  BY <1>2, <1>3, Domains DEF Others, Active, On
<1>5. /\ blots' \in [Entries -> SUBSET Cause] /\ Growing
      /\ Clean(m)' => m \notin Copied /\ Clean(m)
  BY <1>1, BlameType DEF IInv, Growing, Clean, Cause
<1>6. IsTable(entry', Entries, EntryRow)
  BY <1>1 DEF IInv, TypeOK, Delete, IsTable
<1>7. \A n \in Entries : n # m => SameEntry(n)
  BY <1>1 DEF SameEntry, Delete
<1>8. TypeOK'
  BY <1>2, <1>5, <1>6 DEF IInv, TypeOK
<1>9. CallsInv'
  BY <1>2 DEF IInv, CallsInv, Placed
<1>10. \A r, n : Lists(r, n)' <=> Lists(r, n)
  BY <1>2 DEF Lists
<1>11. \A r : On(r)' = On(r)
  BY <1>2 DEF On
<1>12. RaceInv'
  BY <1>2, <1>4, <1>5, <1>8, <1>9, <1>10, <1>11, RaceStays
<1>13. SoleInv'
  BY <1>4, <1>5, <1>8, <1>10, SoleStays
<1>14. SnapInv'
  <2>1. Clean(m)' => /\ \A r : ~ Lists(r, m)
                     /\ \A g \in Calls : ~ (Active(g) /\ m \in Held(g))
    BY <1>5, WhatIsCopied DEF Clean
  <2>2. QED
    BY <1>2, <1>4, <1>5, <1>7, <1>8, <1>10, <2>1, SnapStays
<1>15. FlagsInv'
  BY <1>2, <1>4, <1>5, <1>8, <1>10, FlagsStay
<1>16. QED
  BY <1>8, <1>9, <1>12, <1>13, <1>14, <1>15 DEF IInv

LEMMA DeleteRequestInv == ASSUME IInv, NEW q \in Calls, DeleteRequest(q) PROVE IInv'
<1>1. /\ q \in DOMAIN request /\ request' = Delete(request, q)
      /\ Blame(IF On(q) = {} THEN {} ELSE DOMAIN request[q].rows, "raced")
      /\ UNCHANGED <<entry, pc, call, copy, todo>>
  BY DEF DeleteRequest
<1>2. PICK h : h \notin Calls
  BY NoSetContainsEverything
<1>3. Others(h) /\ h \notin DOMAIN call /\ ~ Active(h)' /\ \A r : h \notin On(r)
  BY <1>1, <1>2, Domains DEF Others, Active, On
<1>4. /\ blots' \in [Entries -> SUBSET Cause] /\ Growing
      /\ On(q) # {} => \A n \in DOMAIN request[q].rows : "raced" \in blots'[n]
  BY <1>1, RacedRows
<1>5. /\ DOMAIN request' = DOMAIN request \ {q}
      /\ \A r \in DOMAIN request : r # q => request'[r] = request[r]
  BY <1>1 DEF Delete
<1>6. TypeOK'
  BY <1>1, <1>4 DEF IInv, TypeOK, Delete, IsTable
<1>7. CallsInv'
  BY <1>1, <1>5 DEF IInv, CallsInv, Placed
<1>8. \A r, n : Lists(r, n)' <=> Lists(r, n) /\ r # q
  BY <1>5 DEF Lists
<1>9. \A r : On(r)' = On(r)
  BY <1>1 DEF On
<1>10. \A n \in Entries : SameEntry(n)
  BY <1>1 DEF SameEntry
<1>11. RaceInv'
  <2>1. \A r \in DOMAIN request', n \in Entries : Lists(r, n)' =>
            Lists(r, n) /\ On(r)' \subseteq On(r)
    BY <1>8, <1>9
  <2>2. \A r \in DOMAIN request, n \in Entries : Lists(r, n) =>
            \/ "raced" \in blots'[n]
            \/ /\ r \in DOMAIN request' /\ request'[r] = request[r]
               /\ On(r)' \subseteq On(r)
            \/ \A g \in On(r) : g = h
    BY <1>4, <1>5, <1>9 DEF Lists
  <2>3. QED
    BY <1>3, <1>4, <1>6, <1>7, <2>1, <2>2, RaceStays
<1>12. SoleInv'
  BY <1>3, <1>4, <1>6, <1>8, SoleStays
<1>13. SnapInv'
  <2>1. \A r \in Calls, n \in Entries : Lists(r, n)' =>
            Lists(r, n) /\ request'[r].rows[n] = request[r].rows[n]
    BY <1>5, <1>8 DEF Lists
  <2>2. QED
    BY <1>3, <1>4, <1>6, <1>10, <2>1, SnapStays
<1>14. FlagsInv'
  <2>1. \A r \in Calls, n \in Entries : Lists(r, n)' =>
            /\ Lists(r, n) /\ request'[r].rows[n] = request[r].rows[n]
            /\ request'[r].status = request[r].status
    BY <1>5, <1>8 DEF Lists
  <2>2. QED
    BY <1>3, <1>4, <1>6, <2>1, FlagsStay
<1>15. QED
  BY <1>6, <1>7, <1>11, <1>12, <1>13, <1>14 DEF IInv

-----------------------------------------------------------------------------
LEMMA NextInv == IInv /\ [Next]_vars => IInv'
<1> SUFFICES ASSUME IInv, [Next]_vars PROVE IInv'
  OBVIOUS
<1>1. ASSUME NEW h \in Calls, File(h) PROVE IInv'
  BY <1>1, FileReadInv, StoresInv, NotifyInv DEF File
<1>2. ASSUME NEW h \in Calls, MarkEntry(h) \/ LoopEnds(h) \/ Abort(h) PROVE IInv'
  BY <1>2, MarkEntryInv, LoopEndsInv, AbortInv
<1>3. ASSUME NEW h \in Calls, Decide(h) PROVE IInv'
  BY <1>3, DecideReadInv, StoresInv DEF Decide
<1>4. ASSUME NEW h \in Calls, Edit(h) PROVE IInv'
  BY <1>4, EditViewInv, EditReadInv, SaveEntriesInv, StoresInv, NotifyInv DEF Edit
<1>5. ASSUME NEW h \in Calls, Put(h) PROVE IInv'
  BY <1>5, PutReadInv, SaveEntriesInv DEF Put
<1>6. ASSUME NEW h \in Calls, Drop(h) PROVE IInv'
  BY <1>6, DropEntryInv, DropReadInv, StoresInv DEF Drop
<1>7. CASE \E n \in Entries : DeleteEntry(n)
  BY <1>7, DeleteEntryInv
<1>8. CASE \E r \in Calls : DeleteRequest(r)
  BY <1>8, DeleteRequestInv
<1>9. CASE UNCHANGED vars
  BY <1>9 DEF vars, IInv, TypeOK, CallsInv, Placed, RaceInv, Active, Held, Lists, Follows, On,
              SoleInv, Clean, SnapInv, Changed, FlagsInv
<1>10. QED
  BY <1>1, <1>2, <1>3, <1>4, <1>5, <1>6, <1>7, <1>8, <1>9 DEF Next

(* Every reachable state satisfies the inductive invariant. *)
THEOREM TimesheetsInductive == Spec => []IInv
<1>1. Init => IInv
  BY InitInv
<1>2. IInv /\ [Next]_vars => IInv'
  BY NextInv
<1>3. QED
  BY <1>1, <1>2, PTL DEF Spec

(* Every reachable state of the timesheet handlers is well typed. *)
THEOREM TimesheetsTypeCorrect == Spec => []TypeOK
<1>1. IInv => TypeOK
  BY DEF IInv
<1>2. QED
  BY <1>1, TimesheetsInductive, PTL

(* Whatever the number of entries, requests and calls: the copies that a   *)
(* timesheet request holds are the stored entries and carry the flags its  *)
(* status speaks of, but for the named causes.                             *)
THEOREM CopiesAlwaysAgree == Spec => []CopiesAgree
<1>1. IInv => CopiesAgree
  <2> SUFFICES ASSUME IInv PROVE CopiesAgree
    OBVIOUS
  <2> SUFFICES ASSUME NEW r \in DOMAIN request, NEW n \in DOMAIN request[r].rows
               PROVE  /\ \/ n \in DOMAIN entry /\ entry[n] = request[r].rows[n]
                         \/ Saving(r) # {}
                         \/ ~ Clean(n)
                      /\ \/ Told(request[r].rows[n], request[r].status)
                         \/ blots[n] \cap {"resubmitted", "redecided", "raced"} # {}
    BY DEF CopiesAgree, SnapshotsAgree, FlagsFollowStatus, Clean, Told
  <2>1. n \in Entries /\ Lists(r, n)
    BY RequestFields DEF IInv, Lists
  <2>2. ASSUME NEW h \in On(r), Changed(h, n) PROVE h \in Saving(r)
    BY <2>2 DEF Changed, Saving, DecideSteps, DropSteps
  <2>3. Clean(n) => \/ n \in DOMAIN entry /\ entry[n] = request[r].rows[n]
                    \/ Saving(r) # {}
    BY <2>1, <2>2 DEF IInv, SnapInv
  <2>4. \/ Told(request[r].rows[n], request[r].status)
        \/ blots[n] \cap {"resubmitted", "redecided", "raced"} # {}
    BY <2>1 DEF IInv, FlagsInv
  <2>5. QED
    BY <2>3, <2>4
<1>2. QED
  BY <1>1, TimesheetsInductive, PTL
-----------------------------------------------------------------------------
(* What a step may bring back *)

(* A request that is stored again has the status it had, unless a decision *)
(* stores it or another call on the request has come between.              *)
LEMMA StoreKeepsDecision ==
    ASSUME IInv, NEW h \in Calls, NEW r \in DOMAIN request,
           FileStore(h) \/ DecideStore(h) \/ EditStore(h) \/ DropStore(h),
           r \in DOMAIN request', request'[r].status = "pending"
    PROVE  \/ request[r].status = "pending"
           \/ \E g \in DOMAIN call : call[g].req = r /\ \E n \in call[g].on : "raced" \in blots[n]
<1>1. /\ pc[h] \in {"file_store", "decide_store", "edit_store", "drop_store"}
      /\ pc[h] = "file_store" => request' = Save(request, h, copy[h])
      /\ pc[h] # "file_store" => request' = Save(request, call[h].req, copy[h])
  BY DEF FileStore, DecideStore, EditStore, DropStore, Goto
<1>2. h \in DOMAIN call /\ Placed(h)
  BY <1>1 DEF IInv, CallsInv
<1>3. CASE pc[h] = "file_store"
  <2>1. r # h
    BY <1>3 DEF IInv, CallsInv, Filed
  <2>2. request'[r] = request[r]
    BY <1>1, <1>3, <2>1 DEF Save
  <2>3. QED
    BY <2>2
<1>4. CASE pc[h] # "file_store" /\ r # call[h].req
  BY <1>1, <1>4 DEF Save
<1>5. CASE pc[h] = "decide_store" /\ r = call[h].req
  <2>1. request'[r] = copy[h]
    BY <1>1, <1>5 DEF Save
  <2>2. QED
    BY <1>2, <1>5, <2>1 DEF Placed, DecideSteps
<1>6. CASE pc[h] \in {"edit_store", "drop_store"} /\ r = call[h].req
  <2>1. request'[r] = copy[h]
    BY <1>1, <1>6 DEF Save
  <2>2. call[h].op \in {"edit", "drop"}
    BY <1>2, <1>6 DEF Placed, EditSteps, DropSteps
  <2>3. PICK n \in Entries : call[h].on = {n}
    BY <1>2, <2>2 DEF Placed
  <2>4. Active(h) /\ n \in Held(h) /\ call[h].op \in Through
    BY <1>2, <1>6, <2>2, <2>3 DEF Active, Held, Through, InFlight, Telling, EditSteps, DropSteps
  <2>5. "raced" \in blots[n] \/ copy[h].status = request[r].status
    BY <1>6, <2>4 DEF IInv, RaceInv, Follows
  <2>6. QED
    BY <1>2, <1>6, <2>1, <2>3, <2>5
<1>7. QED
  BY <1>1, <1>3, <1>4, <1>5, <1>6

(* An entry that is saved is there, but for the named causes. *)
LEMMA SaveBringsBack ==
    ASSUME IInv, NEW h \in Calls, MarkEntry(h) \/ EditSaveEntry(h) \/ PutSave(h),
           NEW n \in DOMAIN entry' \ DOMAIN entry
    PROVE  blots[n] \cap {"edited", "raced", "resubmitted", "abandoned"} # {}
<1>1. pc[h] \in {"file_mark", "decide_mark", "edit_entry", "put_save"}
  BY DEF MarkEntry, EditSaveEntry, PutSave, Goto
<1>2. h \in DOMAIN call /\ Placed(h) /\ call[h].on \subseteq Entries
  BY <1>1, CallFields DEF IInv, CallsInv
<1>3. /\ Active(h) /\ call[h].op # "drop"
      /\ call[h].op \in {"file", "decide"} => todo[h] \subseteq call[h].on
      /\ pc[h] \in {"file_mark", "decide_mark"} => call[h].op \in {"file", "decide"}
  BY <1>1, <1>2 DEF Active, Placed, InFlight, Telling, FileSteps, DecideSteps, EditSteps
<1>4. PICK m \in call[h].on : SaveEntry(h, m)
  BY <1>1, <1>3 DEF MarkEntry, EditSaveEntry, PutSave, Goto
<1>5. n = m
  BY <1>4 DEF SaveEntry, Save
<1>6. n \in Held(h) /\ n \in Entries
  BY <1>2, <1>5 DEF Held
<1>7. ~ Clean(n)
  BY <1>3, <1>6 DEF IInv, SnapInv
<1>8. QED
  BY <1>7 DEF Clean

(* A decision is undone, and a deleted entry comes back, only through      *)
(* calls that overlapped, failed or asked twice.                           *)
THEOREM NothingIsEverUndone == Spec => NothingIsUndone
<1> DEFINE Kept ==
      /\ \A r \in DOMAIN request \cap DOMAIN request' :
            request'[r].status = "pending" =>
              \/ request[r].status = "pending"
              \/ \E h \in DOMAIN call :
                    call[h].req = r /\ \E n \in call[h].on : "raced" \in blots[n]
      /\ \A n \in DOMAIN entry' \ DOMAIN entry :
            blots[n] \cap {"edited", "raced", "resubmitted", "abandoned"} # {}
<1>1. IInv /\ [Next]_vars => [Kept]_vars
  <2> SUFFICES ASSUME IInv, Next PROVE Kept
    OBVIOUS
  <2>1. CASE UNCHANGED <<entry, request>>
    BY <2>1
  <2>2. ASSUME NEW h \in Calls, FileStore(h) \/ DecideStore(h) \/ EditStore(h) \/ DropStore(h)
        PROVE  Kept
    <3>1. entry' = entry
      BY <2>2 DEF FileStore, DecideStore, EditStore, DropStore
    <3>2. QED
      BY <2>2, <3>1, StoreKeepsDecision
  <2>3. ASSUME NEW h \in Calls, MarkEntry(h) \/ EditSaveEntry(h) \/ PutSave(h)
        PROVE  Kept
    <3>1. request' = request
      BY <2>3 DEF MarkEntry, EditSaveEntry, PutSave
    <3>2. QED
      BY <2>3, <3>1, SaveBringsBack
  <2>4. ASSUME NEW h \in Calls, DropEntry(h) PROVE Kept
    BY <2>4 DEF DropEntry, Delete
  <2>5. ASSUME NEW n \in Entries, DeleteEntry(n) PROVE Kept
    BY <2>5 DEF DeleteEntry, Delete
  <2>6. ASSUME NEW r \in Calls, DeleteRequest(r) PROVE Kept
    BY <2>6 DEF DeleteRequest, Delete
  <2> HIDE DEF Kept
  <2>7. ASSUME NEW h \in Calls, File(h) PROVE Kept
    BY <2>1, <2>2, <2>7 DEF File, FileRead, FileNotify
  <2>8. ASSUME NEW h \in Calls, Decide(h) PROVE Kept
    BY <2>1, <2>2, <2>8 DEF Decide, DecideRead
  <2>9. ASSUME NEW h \in Calls, Edit(h) PROVE Kept
    BY <2>1, <2>2, <2>3, <2>9 DEF Edit, EditView, EditRead, EditNotify
  <2>10. ASSUME NEW h \in Calls, Put(h) \/ Drop(h) PROVE Kept
    BY <2>1, <2>2, <2>3, <2>4, <2>10 DEF Put, Drop, PutRead, DropRead
  <2>11. ASSUME NEW h \in Calls, MarkEntry(h) \/ LoopEnds(h) \/ Abort(h) PROVE Kept
    BY <2>1, <2>3, <2>11 DEF LoopEnds, Abort
  <2>12. QED
    BY <2>5, <2>6, <2>7, <2>8, <2>9, <2>10, <2>11 DEF Next
<1>2. QED
  BY <1>1, TimesheetsInductive, PTL DEF Spec, NothingIsUndone
=============================================================================
