------------------------- MODULE InventoryTxProofs -------------------------
(***************************************************************************)
(* Proofs about InventoryTx, for any number of requests, SKUs and keys.    *)
(* IInv is the inductive invariant: what the lock table, the copies and    *)
(* the progress of the open transactions have to do with each other.       *)
(***************************************************************************)
EXTENDS InventoryTx, Sums

\* The lock table says exactly what the open transactions have found.
LocksMatch ==
    \A r \in Requests, s \in SKUs :
        holder[s] = r <=> status[r] = "locking" /\ s \in found[r]

\* Nobody deletes a row somebody holds.
HeldRowsExist ==
    \A r \in Requests, s \in SKUs : holder[s] = r => s \in rows

\* A transaction goes through todo from below and misses no row.
VisitsInOrder ==
    \A r \in Requests :
        /\ status[r] = "idle" => visited[r] = {}
        /\ found[r] \subseteq visited[r]
        /\ visited[r] \subseteq todo[r]
        /\ visited[r] \cap rows \subseteq found[r]
        /\ \A v \in visited[r], t \in todo[r] \ visited[r] : v < t

\* What an open transaction has to do is what its request still asks for.
TodoIsRight ==
    \A r \in Requests : status[r] = "locking" =>
        IF call[r].op = "fulfill"
        THEN /\ todo[r] # {}
             /\ todo[r] \subseteq Wanted(Items(r))
             /\ \A s \in Wanted(Items(r)) \ todo[r] : fulfilled[call[r].id][s] > 0
        ELSE todo[r] = Wanted(Items(r))

\* A transaction that took effect has left its record.
AppliedIsRecorded ==
    \A r \in Requests : status[r] = "applied" =>
        IF call[r].op = "fulfill"
        THEN \A s \in todo[r] : fulfilled[call[r].id][s] > 0
        ELSE call[r].id \in processed

IInv ==
    /\ TypeOK
    /\ LocksMatch
    /\ HeldRowsExist
    /\ CopiesAreCurrent
    /\ VisitsInOrder
    /\ TodoIsRight
    /\ AppliedIsRecorded
    /\ ActiveNonNegative
    /\ AtMostOnce

-----------------------------------------------------------------------------
LEMMA CallFacts ==
    ASSUME TypeOK, NEW r \in Requests
    PROVE  /\ Items(r) \in [SKUs -> 0..MaxQty]
           /\ call[r].op \in {"reserve", "unreserve", "fulfill"}
           /\ call[r].id \in Ids
           /\ call[r].op # "reserve" => call[r].id \in OrderIds
BY DEF TypeOK, Calls, Quantities, Items, Ids

\* Copies are rows, so their fields are integers.
LEMMA CopyFacts ==
    ASSUME TypeOK, NEW r \in Requests, NEW s \in SKUs
    PROVE  copy[r][s].active \in Int /\ copy[r][s].reserved \in Int
BY DEF TypeOK, Row

LEMMA TypeInit == Init => TypeOK
BY StockAssumption DEF Init, TypeOK, StockInit, StockTypeOK, Statuses, Row

\* Type correctness of the two writes.
LEMMA WriteRowsType ==
    ASSUME TypeOK, NEW r \in Requests, NEW a \in Int, NEW b \in Int,
           WriteRows(r, a, b)
    PROVE  active' \in [SKUs -> Int] /\ reserved' \in [SKUs -> Int]
<1>1. \A s \in SKUs : copy[r][s].active + a * Items(r)[s] \in Int
      BY CallFacts, CopyFacts, StockAssumption
<1>2. \A s \in SKUs : copy[r][s].reserved + b * Items(r)[s] \in Int
      BY CallFacts, CopyFacts, StockAssumption
<1>3. active \in [SKUs -> Int] /\ reserved \in [SKUs -> Int]
      BY DEF TypeOK, StockTypeOK
<1> QED BY <1>1, <1>2, <1>3 DEF WriteRows

LEMMA FinishType ==
    ASSUME TypeOK, NEW r \in Requests, NEW o \in Statuses, Finish(r, o)
    PROVE  /\ call' \in [Requests -> Calls]
           /\ status' \in [Requests -> Statuses]
           /\ todo' \in [Requests -> SUBSET SKUs]
           /\ visited' \in [Requests -> SUBSET SKUs]
           /\ found' \in [Requests -> SUBSET SKUs]
           /\ copy' \in [Requests -> [SKUs -> Row]]
           /\ holder' \in [SKUs -> Requests \cup {NoRequest}]
           /\ deletion' \in [SKUs -> {"idle", "checked"}]
BY DEF TypeOK, Finish

LEMMA TypeStep == TypeOK /\ [Next]_vars => TypeOK'
<1> SUFFICES ASSUME TypeOK, [Next]_vars PROVE TypeOK'
    OBVIOUS
<1>1. ASSUME NEW r \in Requests, Lookup(r) PROVE TypeOK'
  <2>1. ToUpdate(r) \subseteq SKUs
        BY DEF ToUpdate, NotYetFulfilled, Wanted
  <2> QED BY <1>1, <2>1 DEF Lookup, TypeOK, StockTypeOK, tables, Statuses
<1>2. ASSUME NEW r \in Requests, NEW s \in SKUs, LockRow(r, s) PROVE TypeOK'
  <2>1. [active |-> active[s], reserved |-> reserved[s]] \in Row
        BY DEF TypeOK, StockTypeOK, Row
  <2>2. copy' \in [Requests -> [SKUs -> Row]]
        BY <1>2, <2>1 DEF LockRow, TypeOK
  <2> QED BY <1>2, <2>2 DEF LockRow, TypeOK, StockTypeOK, tables
<1>3. ASSUME NEW r \in Requests, NEW s \in SKUs, SkipMissing(r, s) PROVE TypeOK'
      BY <1>3 DEF SkipMissing, TypeOK, StockTypeOK, tables
<1>4. ASSUME NEW r \in Requests, CommitReserve(r) PROVE TypeOK'
  <2>1. Zeroed(r) \subseteq SKUs
        BY DEF TypeOK, Zeroed
  <2>2. active' \in [SKUs -> Int] /\ reserved' \in [SKUs -> Int]
        BY <1>4, WriteRowsType DEF CommitReserve
  <2>3. rows' \subseteq SKUs /\ processed' \subseteq Ids /\ zeroKey' \subseteq SKUs
        /\ fulfilled' \in [OrderIds -> [SKUs -> Nat]]
        BY <1>4, <2>1, CallFacts DEF CommitReserve, RecordId, TypeOK, StockTypeOK
  <2>4. Finish(r, "applied") /\ "applied" \in Statuses
        BY <1>4 DEF CommitReserve, Statuses
  <2> QED BY <2>2, <2>3, <2>4, FinishType DEF TypeOK, StockTypeOK
<1>5. ASSUME NEW r \in Requests, CommitUnreserve(r) PROVE TypeOK'
  <2>1. active' \in [SKUs -> Int] /\ reserved' \in [SKUs -> Int]
        BY <1>5, WriteRowsType DEF CommitUnreserve
  <2>2. rows' \subseteq SKUs /\ processed' \subseteq Ids /\ zeroKey' \subseteq SKUs
        /\ fulfilled' \in [OrderIds -> [SKUs -> Nat]]
        BY <1>5, CallFacts DEF CommitUnreserve, RecordId, TypeOK, StockTypeOK
  <2>3. Finish(r, "applied") /\ "applied" \in Statuses
        BY <1>5 DEF CommitUnreserve, Statuses
  <2> QED BY <2>1, <2>2, <2>3, FinishType DEF TypeOK, StockTypeOK
<1>6. ASSUME NEW r \in Requests, CommitFulfill(r) PROVE TypeOK'
  <2>1. active' \in [SKUs -> Int] /\ reserved' \in [SKUs -> Int]
        BY <1>6, WriteRowsType DEF CommitFulfill
  <2>2. rows' \subseteq SKUs /\ processed' \subseteq Ids /\ zeroKey' \subseteq SKUs
        BY <1>6 DEF CommitFulfill, TypeOK, StockTypeOK
  <2>3. fulfilled' \in [OrderIds -> [SKUs -> Nat]]
    <3>1. call[r].id \in OrderIds /\ Items(r) \in [SKUs -> Nat]
          BY <1>6, CallFacts, StockAssumption DEF CommitFulfill
    <3>2. fulfilled \in [OrderIds -> [SKUs -> Nat]]
          BY DEF TypeOK, StockTypeOK
    <3>3. [s \in SKUs |-> IF s \in todo[r] THEN Items(r)[s] ELSE fulfilled[call[r].id][s]]
              \in [SKUs -> Nat]
          BY <3>1, <3>2
    <3> QED BY <1>6, <3>2, <3>3 DEF CommitFulfill
  <2>4. Finish(r, "applied") /\ "applied" \in Statuses
        BY <1>6 DEF CommitFulfill, Statuses
  <2> QED BY <2>1, <2>2, <2>3, <2>4, FinishType DEF TypeOK, StockTypeOK
<1>7. ASSUME NEW r \in Requests, NEW o \in Statuses, Finish(r, o), UNCHANGED tables
      PROVE  TypeOK'
      BY <1>7, FinishType DEF TypeOK, StockTypeOK, tables
<1>8. ASSUME NEW r \in Requests, Conflict(r) \/ UniqueViolation(r) \/ Rollback(r)
      PROVE  TypeOK'
      BY <1>7, <1>8 DEF Conflict, UniqueViolation, Rollback, Statuses
<1>9. ASSUME NEW s \in SKUs, CheckReserves(s) PROVE TypeOK'
      BY <1>9 DEF CheckReserves, TypeOK, StockTypeOK, tables
<1>10. ASSUME NEW s \in SKUs, DeleteRow(s) PROVE TypeOK'
      BY <1>10 DEF DeleteRow, DeleteRowEffect, TypeOK, StockTypeOK
<1>11. ASSUME UNCHANGED vars PROVE TypeOK'
      BY <1>11 DEF vars, tables, TypeOK, StockTypeOK
<1> QED BY <1>1, <1>2, <1>3, <1>4, <1>5, <1>6, <1>8, <1>9, <1>10, <1>11
        DEF Next, Step, AllAnswered

\* Whatever happens, the tables and the transactions' records keep their types
\* (the row arithmetic of inventory_repository.py stays among the integers).
THEOREM TypeCorrect == Spec => []TypeOK
<1> QED BY TypeInit, TypeStep, PTL DEF Spec

-----------------------------------------------------------------------------
(* The inductive invariant. *)

LEMMA IInvInit == Init => IInv
<1> SUFFICES ASSUME Init PROVE IInv
    OBVIOUS
<1>1. TypeOK
      BY TypeInit
<1>2. LocksMatch /\ HeldRowsExist /\ CopiesAreCurrent
      BY TxAssumption DEF Init, LocksMatch, HeldRowsExist, CopiesAreCurrent
<1>3. VisitsInOrder /\ TodoIsRight /\ AppliedIsRecorded /\ AtMostOnce
      BY DEF Init, VisitsInOrder, TodoIsRight, AppliedIsRecorded, AtMostOnce
<1>4. ActiveNonNegative
      BY StockAssumption DEF Init, StockInit, ActiveNonNegative
<1> QED BY <1>1, <1>2, <1>3, <1>4 DEF IInv

LEMMA LookupStep ==
    ASSUME IInv, TypeOK', NEW r \in Requests, Lookup(r)
    PROVE  IInv'
<1> USE DEF IInv
<1>1. status \in [Requests -> Statuses] /\ todo \in [Requests -> SUBSET SKUs]
      BY DEF TypeOK
<1>2. status' = [status EXCEPT ![r] = IF SeenBefore(r) THEN "cached" ELSE "locking"]
      BY DEF Lookup
<1>3. UNCHANGED <<rows, active, reserved, processed, fulfilled, call, visited, found, copy, holder>>
      BY DEF Lookup, tables
<1>4. visited[r] = {} /\ found[r] = {} /\ status[r] = "idle"
      BY DEF Lookup, VisitsInOrder
<1>5. LocksMatch'
      BY <1>1, <1>2, <1>3, <1>4 DEF LocksMatch
<1>6. HeldRowsExist' /\ CopiesAreCurrent' /\ ActiveNonNegative'
      BY <1>3 DEF HeldRowsExist, CopiesAreCurrent, ActiveNonNegative
<1>7. VisitsInOrder'
      BY <1>1, <1>2, <1>3, <1>4 DEF VisitsInOrder, Lookup
<1>8. TodoIsRight'
  <2>1. ASSUME ~SeenBefore(r), call[r].op = "fulfill"
        PROVE  /\ ToUpdate(r) # {}
               /\ ToUpdate(r) \subseteq Wanted(Items(r))
               /\ \A s \in Wanted(Items(r)) \ ToUpdate(r) : fulfilled[call[r].id][s] > 0
    <3>1. fulfilled[call[r].id] \in [SKUs -> Nat]
          BY <2>1, CallFacts DEF TypeOK, StockTypeOK
    <3> QED BY <2>1, <3>1 DEF SeenBefore, ToUpdate, NotYetFulfilled, Wanted
  <2>2. ASSUME call[r].op # "fulfill"
        PROVE  ToUpdate(r) = Wanted(Items(r))
        BY <2>2 DEF ToUpdate
  <2>3. todo' = [todo EXCEPT ![r] = IF SeenBefore(r) THEN {} ELSE ToUpdate(r)]
        BY DEF Lookup
  <2> QED BY <1>1, <1>2, <1>3, <2>1, <2>2, <2>3 DEF TodoIsRight, Items
<1>9. AppliedIsRecorded'
  <2>1. \A q \in Requests : status'[q] = "applied" => status[q] = "applied" /\ q # r
        BY <1>1, <1>2, <1>4
  <2> QED BY <1>1, <1>3, <2>1 DEF AppliedIsRecorded, Lookup
<1>10. AtMostOnce'
  <2>1. \A q \in Requests : status'[q] = "applied" => status[q] = "applied" /\ q # r
        BY <1>1, <1>2, <1>4
  <2>2. \A q \in Requests : q # r => todo'[q] = todo[q]
        BY <1>1 DEF Lookup
  <2> QED BY <1>3, <2>1, <2>2 DEF AtMostOnce
<1> QED BY <1>5, <1>6, <1>7, <1>8, <1>9, <1>10

LEMMA LockRowStep ==
    ASSUME IInv, TypeOK', NEW r \in Requests, NEW s \in SKUs, LockRow(r, s)
    PROVE  IInv'
<1> USE DEF IInv
<1>1. UNCHANGED <<rows, active, reserved, processed, fulfilled, call, status, todo>>
      BY DEF LockRow, tables
<1>2. /\ holder \in [SKUs -> Requests \cup {NoRequest}]
      /\ visited \in [Requests -> SUBSET SKUs]
      /\ found \in [Requests -> SUBSET SKUs]
      /\ todo \in [Requests -> SUBSET SKUs]
      /\ copy \in [Requests -> [SKUs -> Row]]
      BY DEF TypeOK
<1>3. /\ holder' = [holder EXCEPT ![s] = r]
      /\ visited' = [visited EXCEPT ![r] = @ \cup {s}]
      /\ found' = [found EXCEPT ![r] = @ \cup {s}]
      /\ copy' = [copy EXCEPT ![r][s] = [active |-> active[s], reserved |-> reserved[s]]]
      /\ status[r] = "locking" /\ s \in rows /\ holder[s] = NoRequest
      /\ NextToLock(r, s)
      BY DEF LockRow, Lockable
<1>4. LocksMatch'
      BY <1>1, <1>2, <1>3, TxAssumption DEF LocksMatch
<1>5. HeldRowsExist'
      BY <1>1, <1>2, <1>3 DEF HeldRowsExist
<1>6. CopiesAreCurrent'
      BY <1>1, <1>2, <1>3 DEF CopiesAreCurrent
<1>7. VisitsInOrder'
  <2>1. \A u \in todo[r] \ visited[r] : u = s \/ s < u
        BY <1>2, <1>3, StockAssumption DEF NextToLock
  <2> QED BY <1>1, <1>2, <1>3, <2>1 DEF VisitsInOrder, NextToLock
<1>8. TodoIsRight' /\ AppliedIsRecorded' /\ ActiveNonNegative' /\ AtMostOnce'
      BY <1>1 DEF TodoIsRight, AppliedIsRecorded, ActiveNonNegative, AtMostOnce, Items
<1> QED BY <1>4, <1>5, <1>6, <1>7, <1>8

LEMMA SkipMissingStep ==
    ASSUME IInv, TypeOK', NEW r \in Requests, NEW s \in SKUs, SkipMissing(r, s)
    PROVE  IInv'
<1> USE DEF IInv
<1>1. UNCHANGED <<rows, active, reserved, processed, fulfilled, call, status, todo,
                  found, copy, holder>>
      BY DEF SkipMissing, tables
<1>2. visited \in [Requests -> SUBSET SKUs] /\ todo \in [Requests -> SUBSET SKUs]
      BY DEF TypeOK
<1>3. visited' = [visited EXCEPT ![r] = @ \cup {s}] /\ s \notin rows
      /\ status[r] = "locking" /\ NextToLock(r, s)
      BY DEF SkipMissing
<1>4. VisitsInOrder'
  <2>1. \A u \in todo[r] \ visited[r] : u = s \/ s < u
        BY <1>2, <1>3, StockAssumption DEF NextToLock
  <2> QED BY <1>1, <1>2, <1>3, <2>1 DEF VisitsInOrder, NextToLock
<1>5. LocksMatch' /\ HeldRowsExist' /\ CopiesAreCurrent'
      BY <1>1 DEF LocksMatch, HeldRowsExist, CopiesAreCurrent
<1>6. TodoIsRight' /\ AppliedIsRecorded' /\ ActiveNonNegative' /\ AtMostOnce'
      BY <1>1 DEF TodoIsRight, AppliedIsRecorded, ActiveNonNegative, AtMostOnce, Items
<1> QED BY <1>4, <1>5, <1>6

-----------------------------------------------------------------------------
(* The end of a transaction. *)

\* A transaction that ends gives its rows back and touches nobody else's.
LEMMA FinishLocks ==
    ASSUME IInv, NEW r \in Requests, NEW o \in Answered, Finish(r, o),
           status[r] = "locking", rows' = rows
    PROVE  LocksMatch' /\ HeldRowsExist' /\ VisitsInOrder'
<1> USE DEF IInv
<1>1. /\ status \in [Requests -> Statuses]
      /\ holder \in [SKUs -> Requests \cup {NoRequest}]
      BY DEF TypeOK
<1>2. /\ status' = [status EXCEPT ![r] = o]
      /\ holder' = [s \in SKUs |-> IF holder[s] = r THEN NoRequest ELSE holder[s]]
      /\ UNCHANGED <<call, todo, visited, found>>
      BY DEF Finish
<1>3. LocksMatch'
      BY <1>1, <1>2, TxAssumption DEF LocksMatch, Answered
<1>4. HeldRowsExist'
      BY <1>1, <1>2, TxAssumption DEF HeldRowsExist
<1>5. VisitsInOrder'
      BY <1>1, <1>2 DEF VisitsInOrder, Answered
<1> QED BY <1>3, <1>4, <1>5

\* What an ending transaction does not write stays right.
LEMMA FinishUnchanged ==
    ASSUME IInv, TypeOK', NEW r \in Requests, NEW o \in Answered \ {"applied"},
           Finish(r, o), status[r] = "locking", UNCHANGED tables
    PROVE  IInv'
<1> USE DEF IInv
<1>1. UNCHANGED <<rows, active, reserved, processed, fulfilled, call, todo, found, copy>>
      BY DEF Finish, tables
<1>2. status \in [Requests -> Statuses] /\ status' = [status EXCEPT ![r] = o]
      BY DEF TypeOK, Finish
<1>3. \A q \in Requests : q # r => status'[q] = status[q]
      BY <1>2
<1>4. status'[r] = o /\ o # "locking" /\ o # "applied"
      BY <1>2 DEF Answered
<1>5. CopiesAreCurrent'
  <2>1. \A q \in Requests, s \in SKUs : holder'[s] = q => holder[s] = q
        BY TxAssumption DEF Finish
  <2> QED BY <1>1, <2>1 DEF CopiesAreCurrent
<1>6. TodoIsRight' /\ AppliedIsRecorded' /\ AtMostOnce' /\ ActiveNonNegative'
      BY <1>1, <1>3, <1>4
      DEF TodoIsRight, AppliedIsRecorded, AtMostOnce, ActiveNonNegative, Items
<1>7. LocksMatch' /\ HeldRowsExist' /\ VisitsInOrder'
      BY <1>1, FinishLocks
<1> QED BY <1>5, <1>6, <1>7

\* At its commit a transaction holds what it found, and its copies are the
\* rows: writing from the copies is the same as an update in place.
LEMMA WriteFromCopies ==
    ASSUME IInv, NEW r \in Requests, status[r] = "locking",
           NEW a \in Int, NEW b \in Int, WriteRows(r, a, b)
    PROVE  /\ found[r] \subseteq rows
           /\ \A s \in SKUs : s \in found[r] =>
                 /\ copy[r][s].active = active[s]
                 /\ copy[r][s].reserved = reserved[s]
                 /\ active'[s] = active[s] + a * Items(r)[s]
                 /\ reserved'[s] = reserved[s] + b * Items(r)[s]
           /\ \A s \in SKUs : s \notin found[r] =>
                 active'[s] = active[s] /\ reserved'[s] = reserved[s]
<1> USE DEF IInv
<1>1. found[r] \subseteq SKUs
      BY DEF TypeOK
<1>2. \A s \in found[r] : holder[s] = r
      BY <1>1 DEF LocksMatch
<1>3. \A s \in found[r] : copy[r][s].active = active[s] /\ copy[r][s].reserved = reserved[s]
      BY <1>1, <1>2 DEF CopiesAreCurrent
<1>4. found[r] \subseteq rows
      BY <1>1, <1>2 DEF HeldRowsExist
<1>5. /\ \A s \in SKUs : active'[s] = IF s \in found[r]
             THEN copy[r][s].active + a * Items(r)[s] ELSE active[s]
      /\ \A s \in SKUs : reserved'[s] = IF s \in found[r]
             THEN copy[r][s].reserved + b * Items(r)[s] ELSE reserved[s]
      BY DEF WriteRows
<1> QED BY <1>3, <1>4, <1>5

\* No other transaction holds a row the commit writes.
LEMMA CommitKeepsCopies ==
    ASSUME IInv, NEW r \in Requests, status[r] = "locking", Finish(r, "applied"),
           NEW a \in Int, NEW b \in Int, WriteRows(r, a, b)
    PROVE  CopiesAreCurrent'
<1> USE DEF IInv
<1> SUFFICES ASSUME NEW q \in Requests, NEW s \in SKUs, holder'[s] = q
             PROVE  copy'[q][s].active = active'[s] /\ copy'[q][s].reserved = reserved'[s]
    BY DEF CopiesAreCurrent
<1>1. q # r /\ holder[s] = q /\ copy' = copy
      BY TxAssumption DEF Finish
<1>2. s \notin found[r]
      BY <1>1 DEF LocksMatch
<1>3. active'[s] = active[s] /\ reserved'[s] = reserved[s]
      BY <1>2, WriteFromCopies
<1> QED BY <1>1, <1>3 DEF CopiesAreCurrent

LEMMA CommitReserveStep ==
    ASSUME IInv, TypeOK', NEW r \in Requests, CommitReserve(r)
    PROVE  IInv'
<1> USE DEF IInv
<1>0. 1 \in Int /\ -1 \in Int
      OBVIOUS
<1>1. /\ status[r] = "locking" /\ Finish(r, "applied") /\ WriteRows(r, -1, 1)
      /\ Unavailable(r) = {} /\ RecordId(r) /\ call[r].op = "reserve"
      /\ UNCHANGED <<rows, fulfilled>>
      BY DEF CommitReserve, Ready
<1>2. status \in [Requests -> Statuses] /\ status' = [status EXCEPT ![r] = "applied"]
      /\ UNCHANGED <<call, todo>>
      BY <1>1 DEF TypeOK, Finish
<1>3. processed' = processed \cup {call[r].id} /\ call[r].id \notin processed
      BY <1>1 DEF RecordId, KeyFresh
<1>4. LocksMatch' /\ HeldRowsExist' /\ VisitsInOrder'
      BY <1>1, FinishLocks DEF Answered, Statuses
<1>5. CopiesAreCurrent'
      BY <1>1, CommitKeepsCopies
<1>6. TodoIsRight' /\ AppliedIsRecorded'
      BY <1>1, <1>2, <1>3 DEF TodoIsRight, AppliedIsRecorded, Items
<1>7. ActiveNonNegative'
  <2> SUFFICES ASSUME NEW s \in SKUs PROVE active'[s] >= 0
      BY DEF ActiveNonNegative
  <2>1. CASE s \notin found[r]
    <3>1. active'[s] = active[s]
          BY ONLY <1>1, <1>0, <2>1, IInv, r \in Requests, s \in SKUs, WriteFromCopies
    <3> QED BY <3>1 DEF ActiveNonNegative
  <2>2. CASE s \in found[r]
    <3>1. copy[r][s].active = active[s] /\ active'[s] = active[s] + (-1) * Items(r)[s]
          BY ONLY <1>1, <1>0, <2>2, IInv, r \in Requests, s \in SKUs, WriteFromCopies
    <3>2. ~(copy[r][s].active < Items(r)[s])
          BY <1>1, <2>2 DEF Unavailable, VisitsInOrder
    <3>3. active[s] \in Int /\ Items(r)[s] \in Int
          BY CallFacts, StockAssumption DEF TypeOK, StockTypeOK
    <3> QED BY <3>1, <3>2, <3>3
  <2> QED BY <2>1, <2>2
<1>8. AtMostOnce'
  <2>1. \A q \in Requests : q # r /\ status[q] = "applied" /\ call[q].op = "reserve"
            => call[q].id # call[r].id
        BY <1>3 DEF AppliedIsRecorded
  <2>2. \A q \in Requests : q # r => status'[q] = status[q]
        BY <1>2
  <2> QED BY <1>1, <1>2, <2>1, <2>2 DEF AtMostOnce
<1> QED BY <1>4, <1>5, <1>6, <1>7, <1>8

LEMMA CommitUnreserveStep ==
    ASSUME IInv, TypeOK', NEW r \in Requests, CommitUnreserve(r)
    PROVE  IInv'
<1> USE DEF IInv
<1>0. 1 \in Int /\ -1 \in Int
      OBVIOUS
<1>1. /\ status[r] = "locking" /\ Finish(r, "applied") /\ WriteRows(r, 1, -1)
      /\ RecordId(r) /\ call[r].op = "unreserve"
      /\ UNCHANGED <<rows, fulfilled>>
      BY DEF CommitUnreserve, Ready
<1>2. status \in [Requests -> Statuses] /\ status' = [status EXCEPT ![r] = "applied"]
      /\ UNCHANGED <<call, todo>>
      BY <1>1 DEF TypeOK, Finish
<1>3. processed' = processed \cup {call[r].id} /\ call[r].id \notin processed
      BY <1>1 DEF RecordId, KeyFresh
<1>4. LocksMatch' /\ HeldRowsExist' /\ VisitsInOrder'
      BY <1>1, FinishLocks DEF Answered, Statuses
<1>5. CopiesAreCurrent'
      BY <1>1, CommitKeepsCopies
<1>6. TodoIsRight' /\ AppliedIsRecorded'
      BY <1>1, <1>2, <1>3 DEF TodoIsRight, AppliedIsRecorded, Items
<1>7. ActiveNonNegative'
  <2> SUFFICES ASSUME NEW s \in SKUs PROVE active'[s] >= 0
      BY DEF ActiveNonNegative
  <2>1. active[s] \in Int /\ Items(r)[s] \in Nat
        BY CallFacts, StockAssumption DEF TypeOK, StockTypeOK
  <2>2. active'[s] = active[s] \/ active'[s] = active[s] + 1 * Items(r)[s]
        BY ONLY <1>1, <1>0, IInv, r \in Requests, s \in SKUs, WriteFromCopies
  <2> QED BY <2>1, <2>2 DEF ActiveNonNegative
<1>8. AtMostOnce'
  <2>1. \A q \in Requests : q # r /\ status[q] = "applied" /\ call[q].op = "unreserve"
            => call[q].id # call[r].id
        BY <1>3 DEF AppliedIsRecorded
  <2>2. \A q \in Requests : q # r => status'[q] = status[q]
        BY <1>2
  <2> QED BY <1>1, <1>2, <2>1, <2>2 DEF AtMostOnce
<1> QED BY <1>4, <1>5, <1>6, <1>7, <1>8

\* What a fulfill commits, said of each order and SKU.
LEMMA FulfilledAfter ==
    ASSUME TypeOK, NEW r \in Requests, CommitFulfill(r)
    PROVE  /\ call[r].id \in OrderIds
           /\ \A o \in OrderIds, s \in SKUs :
                 fulfilled'[o][s] = IF o = call[r].id /\ s \in todo[r]
                                    THEN Items(r)[s] ELSE fulfilled[o][s]
<1>1. call[r].id \in OrderIds
      BY CallFacts DEF CommitFulfill
<1>2. fulfilled \in [OrderIds -> [SKUs -> Nat]]
      BY DEF TypeOK, StockTypeOK
<1>3. fulfilled' = [fulfilled EXCEPT ![call[r].id] = [s \in SKUs |->
            IF s \in todo[r] THEN Items(r)[s] ELSE fulfilled[call[r].id][s]]]
      BY DEF CommitFulfill
<1> QED BY <1>1, <1>2, <1>3

LEMMA CommitFulfillStep ==
    ASSUME IInv, TypeOK', NEW r \in Requests, CommitFulfill(r)
    PROVE  IInv'
<1> USE DEF IInv
<1>1. /\ status[r] = "locking" /\ Finish(r, "applied") /\ WriteRows(r, 0, -1)
      /\ call[r].op = "fulfill" /\ PairsFree(r)
      /\ UNCHANGED <<rows, processed>>
      BY DEF CommitFulfill, Ready
<1>2. status \in [Requests -> Statuses] /\ status' = [status EXCEPT ![r] = "applied"]
      /\ UNCHANGED <<call, todo>>
      BY <1>1 DEF TypeOK, Finish
<1>3. \A s \in todo[r] : s \in SKUs /\ fulfilled[call[r].id][s] = 0 /\ Items(r)[s] > 0
      BY <1>1 DEF PairsFree, TodoIsRight, Wanted
<1>4. \A q \in Requests : call[q].op = "fulfill" => call[q].id \in OrderIds
      BY CallFacts
<1>5. \A o \in OrderIds, s \in SKUs : fulfilled[o][s] > 0 => fulfilled'[o][s] > 0
      BY <1>3, FulfilledAfter
<1>6. \A s \in todo[r] : fulfilled'[call[r].id][s] > 0
      BY <1>3, FulfilledAfter
<1>7. todo \in [Requests -> SUBSET SKUs]
      BY DEF TypeOK
<1>8. LocksMatch' /\ HeldRowsExist' /\ VisitsInOrder'
      BY <1>1, FinishLocks DEF Answered, Statuses
<1>9. CopiesAreCurrent'
      BY <1>1, CommitKeepsCopies
<1>10. TodoIsRight'
       BY <1>2, <1>4, <1>5 DEF TodoIsRight, Items, Wanted
<1>11. AppliedIsRecorded'
       BY <1>1, <1>2, <1>4, <1>5, <1>6, <1>7 DEF AppliedIsRecorded
<1>12. ActiveNonNegative'
  <2> SUFFICES ASSUME NEW s \in SKUs PROVE active'[s] >= 0
      BY DEF ActiveNonNegative
  <2>1. active[s] \in Int /\ Items(r)[s] \in Nat
        BY CallFacts, StockAssumption DEF TypeOK, StockTypeOK
  <2>2. /\ s \in found[r] => active'[s] = active[s] + 0 * Items(r)[s]
        /\ s \notin found[r] => active'[s] = active[s]
    <3>1. status[r] = "locking" /\ WriteRows(r, 0, -1) /\ 0 \in Int /\ -1 \in Int
          BY <1>1
    <3> QED BY ONLY <3>1, IInv, r \in Requests, s \in SKUs, WriteFromCopies
  <2> QED BY <2>1, <2>2 DEF ActiveNonNegative
<1>13. AtMostOnce'
  <2>1. \A q \in Requests :
            /\ q # r /\ status[q] = "applied"
            /\ call[q].op = "fulfill" /\ call[q].id = call[r].id
            => todo[q] \cap todo[r] = {}
        BY <1>3 DEF AppliedIsRecorded
  <2>2. \A q \in Requests : q # r => status'[q] = status[q]
        BY <1>2
  <2> QED BY <1>1, <1>2, <2>1, <2>2 DEF AtMostOnce
<1> QED BY <1>8, <1>9, <1>10, <1>11, <1>12, <1>13

LEMMA DeleteStep ==
    ASSUME IInv, TypeOK', NEW s \in SKUs, CheckReserves(s) \/ DeleteRow(s)
    PROVE  IInv'
<1> USE DEF IInv
<1>1. UNCHANGED <<active, reserved, processed, fulfilled, call, status, todo,
                  visited, found, copy, holder>>
      BY DEF CheckReserves, DeleteRow, DeleteRowEffect, tables
<1>2. rows' \subseteq rows
      BY DEF CheckReserves, DeleteRow, DeleteRowEffect, tables
<1>3. HeldRowsExist'
  <2>1. CASE CheckReserves(s)
        BY <1>1, <2>1 DEF CheckReserves, tables, HeldRowsExist
  <2>2. CASE DeleteRow(s)
        BY <1>1, <2>2, TxAssumption
        DEF DeleteRow, DeleteRowEffect, Lockable, HeldRowsExist
  <2> QED BY <2>1, <2>2
<1>4. VisitsInOrder'
      BY <1>1, <1>2 DEF VisitsInOrder
<1>5. LocksMatch' /\ CopiesAreCurrent' /\ TodoIsRight' /\ AppliedIsRecorded'
      BY <1>1 DEF LocksMatch, CopiesAreCurrent, TodoIsRight, AppliedIsRecorded, Items
<1>6. ActiveNonNegative' /\ AtMostOnce'
      BY <1>1 DEF ActiveNonNegative, AtMostOnce
<1> QED BY <1>3, <1>4, <1>5, <1>6

LEMMA IInvStep == IInv /\ [Next]_vars => IInv'
<1> SUFFICES ASSUME IInv, [Next]_vars PROVE IInv'
    OBVIOUS
<1>0. TypeOK'
      BY TypeStep DEF IInv
<1>1. ASSUME NEW r \in Requests, Lookup(r) PROVE IInv'
      BY <1>0, <1>1, LookupStep
<1>2. ASSUME NEW r \in Requests, NEW s \in SKUs, LockRow(r, s) PROVE IInv'
      BY <1>0, <1>2, LockRowStep
<1>3. ASSUME NEW r \in Requests, NEW s \in SKUs, SkipMissing(r, s) PROVE IInv'
      BY <1>0, <1>3, SkipMissingStep
<1>4. ASSUME NEW r \in Requests, CommitReserve(r) PROVE IInv'
      BY <1>0, <1>4, CommitReserveStep
<1>5. ASSUME NEW r \in Requests, CommitUnreserve(r) PROVE IInv'
      BY <1>0, <1>5, CommitUnreserveStep
<1>6. ASSUME NEW r \in Requests, CommitFulfill(r) PROVE IInv'
      BY <1>0, <1>6, CommitFulfillStep
<1>7. ASSUME NEW r \in Requests, Conflict(r) PROVE IInv'
  <2>1. Finish(r, "conflict") /\ status[r] = "locking" /\ UNCHANGED tables
        BY <1>7 DEF Conflict, Ready
  <2> QED BY <1>0, <2>1, FinishUnchanged DEF Answered, Statuses
<1>8. ASSUME NEW r \in Requests, UniqueViolation(r) PROVE IInv'
  <2>1. Finish(r, "duplicate") /\ status[r] = "locking" /\ UNCHANGED tables
        BY <1>8 DEF UniqueViolation, Ready
  <2> QED BY <1>0, <2>1, FinishUnchanged DEF Answered, Statuses
<1>9. ASSUME NEW r \in Requests, Rollback(r) PROVE IInv'
  <2>1. Finish(r, "rolledback") /\ status[r] = "locking" /\ UNCHANGED tables
        BY <1>9 DEF Rollback
  <2> QED BY <1>0, <2>1, FinishUnchanged DEF Answered, Statuses
<1>10. ASSUME NEW s \in SKUs, CheckReserves(s) \/ DeleteRow(s) PROVE IInv'
       BY <1>0, <1>10, DeleteStep
<1>11. ASSUME UNCHANGED vars PROVE IInv'
       BY <1>11 DEF vars, tables, IInv, TypeOK, StockTypeOK, LocksMatch, HeldRowsExist,
          CopiesAreCurrent, VisitsInOrder, TodoIsRight, AppliedIsRecorded,
          ActiveNonNegative, AtMostOnce, Items
<1> QED BY <1>1, <1>2, <1>3, <1>4, <1>5, <1>6, <1>7, <1>8, <1>9, <1>10, <1>11
        DEF Next, Step, AllAnswered

LEMMA IInvAlways == Spec => []IInv
<1> QED BY IInvInit, IInvStep, PTL DEF Spec

-----------------------------------------------------------------------------
(* What follows from it. *)

\* FOR UPDATE at work: no transaction ever computes from a stale copy
\* (inventory_repository.py, SELECT ... with_for_update).
THEOREM CopiesCurrent == Spec => []CopiesAreCurrent
<1>1. IInv => CopiesAreCurrent
      BY DEF IInv
<1> QED BY <1>1, IInvAlways, PTL

\* ORDER BY id at work: a transaction waits only for rows above those it holds,
\* so the inventory endpoints cannot deadlock each other.
THEOREM LocksAscend == Spec => []LockOrder
<1>1. IInv => LockOrder
      BY DEF IInv, LockOrder, LocksMatch, VisitsInOrder, NextToLock
<1> QED BY <1>1, IInvAlways, PTL

\* No number of concurrent reserves sells more than the free stock.
THEOREM NeverOversold == Spec => []ActiveNonNegative
<1>1. IInv => ActiveNonNegative
      BY DEF IInv
<1> QED BY <1>1, IInvAlways, PTL

\* Retries and concurrent duplicates of a request take effect at most once
\* (UNIQUE of processed_events and of fulfilled_orders).
THEOREM EffectAtMostOnce == Spec => []AtMostOnce
<1>1. IInv => AtMostOnce
      BY DEF IInv
<1> QED BY <1>1, IInvAlways, PTL

-----------------------------------------------------------------------------
(* Conservation of stock, step by step. *)

\* A commit that moves units between free and reserved.
LEMMA MoveConserves ==
    ASSUME IInv, NEW r \in Requests, status[r] = "locking",
           WriteRows(r, -1, 1) \/ WriteRows(r, 1, -1), UNCHANGED <<rows, fulfilled>>
    PROVE  StepConserves
<1> SUFFICES ASSUME NEW s \in SKUs
             PROVE  active'[s] + reserved'[s] = active[s] + reserved[s]
    BY DEF StepConserves, IInv, TypeOK, StockTypeOK
<1>1. active[s] \in Int /\ reserved[s] \in Int /\ Items(r)[s] \in Int
      BY CallFacts, StockAssumption DEF IInv, TypeOK, StockTypeOK
<1>2. 1 \in Int /\ -1 \in Int
      OBVIOUS
<1>3. CASE WriteRows(r, -1, 1)
  <2>1. \/ /\ active'[s] = active[s] + (-1) * Items(r)[s]
           /\ reserved'[s] = reserved[s] + 1 * Items(r)[s]
        \/ active'[s] = active[s] /\ reserved'[s] = reserved[s]
        BY <1>2, <1>3, WriteFromCopies
  <2> QED BY <1>1, <2>1
<1>4. CASE WriteRows(r, 1, -1)
  <2>1. \/ /\ active'[s] = active[s] + 1 * Items(r)[s]
           /\ reserved'[s] = reserved[s] + (-1) * Items(r)[s]
        \/ active'[s] = active[s] /\ reserved'[s] = reserved[s]
        BY <1>2, <1>4, WriteFromCopies
  <2> QED BY <1>1, <2>1
<1> QED BY <1>3, <1>4

\* A fulfill hands over what it records, for the rows that exist; the SKUs it
\* records without a row are not in rows.
LEMMA FulfillConserves ==
    ASSUME IInv, NEW r \in Requests, CommitFulfill(r)
    PROVE  StepConserves
<1> DEFINE order == call[r].id
<1>1. /\ status[r] = "locking" /\ visited[r] = todo[r] /\ WriteRows(r, 0, -1)
      /\ PairsFree(r) /\ rows' = rows
      BY DEF CommitFulfill, Ready
<1> SUFFICES ASSUME NEW s \in rows
             PROVE  \/ /\ active'[s] + reserved'[s] = active[s] + reserved[s]
                       /\ \A o \in OrderIds : fulfilled'[o][s] = fulfilled[o][s]
                    \/ /\ fulfilled[order][s] = 0
                       /\ active'[s] = active[s]
                       /\ reserved'[s] = reserved[s] - fulfilled'[order][s]
                       /\ \A p \in OrderIds \ {order} : fulfilled'[p][s] = fulfilled[p][s]
    BY <1>1, FulfilledAfter DEF StepConserves, IInv
<1>2. s \in SKUs
      BY DEF IInv, TypeOK, StockTypeOK
<1>3. active[s] \in Int /\ reserved[s] \in Int /\ Items(r)[s] \in Int
      BY <1>2, CallFacts, StockAssumption DEF IInv, TypeOK, StockTypeOK
<1>4. order \in OrderIds /\ \A o \in OrderIds :
          fulfilled'[o][s] = IF o = order /\ s \in todo[r]
                             THEN Items(r)[s] ELSE fulfilled[o][s]
      BY <1>2, FulfilledAfter DEF IInv
<1>5. 0 \in Int /\ -1 \in Int
      OBVIOUS
<1>6. s \in found[r] => /\ active'[s] = active[s] + 0 * Items(r)[s]
                        /\ reserved'[s] = reserved[s] + (-1) * Items(r)[s]
      BY ONLY <1>1, <1>2, <1>5, IInv, r \in Requests, WriteFromCopies
<1>7. s \notin found[r] => active'[s] = active[s] /\ reserved'[s] = reserved[s]
      BY ONLY <1>1, <1>2, <1>5, IInv, r \in Requests, WriteFromCopies
<1>8. s \in todo[r] <=> s \in found[r]
      BY <1>1 DEF IInv, VisitsInOrder
<1>9. CASE s \in todo[r]
  <2>1. fulfilled[order][s] = 0
        BY <1>1, <1>9 DEF PairsFree
  <2> QED BY <1>3, <1>4, <1>6, <1>8, <1>9, <2>1
<1>10. CASE s \notin todo[r]
       BY <1>3, <1>4, <1>7, <1>8, <1>10
<1> QED BY <1>9, <1>10

LEMMA StepKeepsStock == IInv /\ [Next]_vars => [StepConserves]_vars
<1> SUFFICES ASSUME IInv, [Next]_vars PROVE StepConserves
    OBVIOUS
<1>1. ASSUME NEW r \in Requests, CommitReserve(r) PROVE StepConserves
  <2>1. status[r] = "locking" /\ WriteRows(r, -1, 1) /\ UNCHANGED <<rows, fulfilled>>
        BY <1>1 DEF CommitReserve, Ready
  <2> QED BY <2>1, MoveConserves
<1>2. ASSUME NEW r \in Requests, CommitUnreserve(r) PROVE StepConserves
  <2>1. status[r] = "locking" /\ WriteRows(r, 1, -1) /\ UNCHANGED <<rows, fulfilled>>
        BY <1>2 DEF CommitUnreserve, Ready
  <2> QED BY <2>1, MoveConserves
<1>3. ASSUME NEW r \in Requests, CommitFulfill(r) PROVE StepConserves
      BY <1>3, FulfillConserves
<1>4. ASSUME UNCHANGED <<active, reserved, fulfilled>> PROVE StepConserves
      BY <1>4 DEF StepConserves
<1>5. ASSUME NEW r \in Requests,
             \/ Lookup(r) \/ Conflict(r) \/ UniqueViolation(r) \/ Rollback(r)
             \/ \E s \in SKUs : LockRow(r, s) \/ SkipMissing(r, s)
      PROVE  StepConserves
      BY <1>4, <1>5 DEF Lookup, Conflict, UniqueViolation, Rollback, LockRow, SkipMissing, tables
<1>6. ASSUME NEW s \in SKUs, CheckReserves(s) \/ DeleteRow(s) PROVE StepConserves
      BY <1>4, <1>6 DEF CheckReserves, DeleteRow, DeleteRowEffect, tables
<1>7. ASSUME UNCHANGED vars PROVE StepConserves
      BY <1>4, <1>7 DEF vars, tables
<1> QED BY <1>1, <1>2, <1>3, <1>5, <1>6, <1>7 DEF Next, Step, AllAnswered

\* Every step of the service keeps the books: it moves units between free and
\* reserved, or hands over exactly the quantity it records for an order.
THEOREM BooksAreKept == Spec => EveryStepConserves
<1> QED BY IInvAlways, StepKeepsStock, PTL DEF Spec, EveryStepConserves

-----------------------------------------------------------------------------
(* Conservation of stock, over all orders. *)

\* What each order was given of s.
Given(s) == [o \in OrderIds |-> fulfilled[o][s]]

LEMMA ShippedIsSum ==
    ASSUME TypeOK, NEW s \in SKUs
    PROVE  Shipped(s) = SumOver(Given(s), OrderIds)
<1> DEFINE Adds(f) == f = [u \in SUBSET OrderIds |->
                              IF u = {} THEN 0 ELSE fulfilled[First(u)][s] + f[u \ {First(u)}]]
<1>1. IsFiniteSet(OrderIds) /\ \A o \in OrderIds : Given(s)[o] \in Int
      BY StockAssumption DEF TypeOK, StockTypeOK, Given
<1>2. \A u \in SUBSET OrderIds : u # {} => Given(s)[First(u)] = fulfilled[First(u)][s]
  <2>1. \A u \in SUBSET OrderIds : u # {} => First(u) \in u
        BY <1>1, FirstFacts
  <2> QED BY <2>1 DEF Given
<1>3. ASSUME NEW f PROVE IsSum(f, Given(s), OrderIds) <=> Adds(f)
      BY <1>2 DEF IsSum
<1>4. Shipped(s) = (CHOOSE f : Adds(f))[OrderIds]
      BY Zenon DEF Shipped, MapThenSumSet, MapThenFoldSet, First
<1> HIDE DEF Adds
<1>5. Adds(CHOOSE f : Adds(f))
      BY <1>1, <1>3, SumsAreTotal
<1> QED BY <1>1, <1>3, <1>4, <1>5, SumsAreTotal

ShippedAddsUp == \A s \in SKUs : Shipped(s) = SumOver(Given(s), OrderIds)

LEMMA ShippedAlwaysAddsUp == (TypeOK => ShippedAddsUp) /\ (TypeOK => ShippedAddsUp)'
<1>1. TypeOK => ShippedAddsUp
      BY ShippedIsSum DEF ShippedAddsUp
<1> QED BY <1>1, PTL

LEMMA StepKeepsSum ==
    ASSUME IInv, TypeOK', StockConserved, StepConserves, rows' \subseteq rows
    PROVE  StockConserved'
<1> USE DEF IInv
<1> SUFFICES ASSUME NEW s \in rows'
             PROVE  active'[s] + reserved'[s] + Shipped(s)' = InitialStock[s]
    BY DEF StockConserved
<1>1. s \in rows /\ s \in SKUs
      BY DEF TypeOK, StockTypeOK
<1>2. /\ active[s] \in Int /\ reserved[s] \in Int
      /\ active'[s] \in Int /\ reserved'[s] \in Int
      BY <1>1 DEF TypeOK, StockTypeOK
<1>3. IsFiniteSet(OrderIds)
      BY StockAssumption
<1>4. \A o \in OrderIds : /\ Given(s)[o] = fulfilled[o][s] /\ Given(s)[o] \in Int
                          /\ Given(s)'[o] = fulfilled'[o][s] /\ Given(s)'[o] \in Int
      BY <1>1 DEF Given, TypeOK, StockTypeOK
<1>5. Shipped(s) = SumOver(Given(s), OrderIds)
      BY <1>1, ShippedIsSum
<1>6. Shipped(s)' = SumOver(Given(s)', OrderIds)
      BY <1>1, ShippedAlwaysAddsUp DEF ShippedAddsUp
<1>7. SumOver(Given(s), OrderIds) \in Int
      BY <1>3, <1>4, SumType
<1>8. active[s] + reserved[s] + Shipped(s) = InitialStock[s]
      BY <1>1 DEF StockConserved
<1>9. CASE /\ active'[s] + reserved'[s] = active[s] + reserved[s]
           /\ \A o \in OrderIds : fulfilled'[o][s] = fulfilled[o][s]
  <2>1. SumOver(Given(s)', OrderIds) = SumOver(Given(s), OrderIds)
        BY <1>3, <1>4, <1>9, SumAgree
  <2> QED BY <1>2, <1>5, <1>6, <1>7, <1>8, <1>9, <2>1
<1>10. ASSUME NEW o \in OrderIds,
              fulfilled[o][s] = 0,
              active'[s] = active[s],
              reserved'[s] = reserved[s] - fulfilled'[o][s],
              \A p \in OrderIds \ {o} : fulfilled'[p][s] = fulfilled[p][s]
       PROVE  active'[s] + reserved'[s] + Shipped(s)' = InitialStock[s]
  <2>1. SumOver(Given(s)', OrderIds) = SumOver(Given(s), OrderIds) + fulfilled'[o][s] - fulfilled[o][s]
    <3> DEFINE g == Given(s)  h == Given(s)'
    <3>1. /\ \A p \in OrderIds : g[p] \in Int /\ h[p] \in Int
          /\ \A p \in OrderIds \ {o} : h[p] = g[p]
          /\ g[o] = fulfilled[o][s] /\ h[o] = fulfilled'[o][s]
          BY <1>4, <1>10
    <3> HIDE DEF g, h
    <3>2. SumOver(h, OrderIds) = SumOver(g, OrderIds) + h[o] - g[o]
          BY <1>3, <3>1, SumChange
    <3> QED BY <3>1, <3>2 DEF g, h
  <2>2. fulfilled'[o][s] \in Int
        BY <1>4
  <2> QED BY <1>2, <1>5, <1>6, <1>7, <1>8, <1>10, <2>1, <2>2
<1> QED BY <1>1, <1>9, <1>10 DEF StepConserves

LEMMA InitConserves == Init => StockConserved
<1> SUFFICES ASSUME Init, NEW s \in rows
             PROVE  active[s] + reserved[s] + Shipped(s) = InitialStock[s]
    BY DEF StockConserved
<1>1. s \in SKUs /\ active[s] = InitialStock[s] /\ reserved[s] = 0 /\ InitialStock[s] \in Int
      BY StockAssumption DEF Init, StockInit
<1>2. Shipped(s) = SumOver(Given(s), OrderIds)
      BY <1>1, TypeInit, ShippedIsSum
<1>3. \A o \in OrderIds : Given(s)[o] = 0
      BY <1>1 DEF Init, StockInit, Given
<1>4. SumOver(Given(s), OrderIds) = 0
      BY <1>3, StockAssumption, SumOfZeros
<1> QED BY <1>1, <1>2, <1>4

\* No unit is lost or invented: row by row, what is free, what is reserved and
\* what was handed over add up to what was accepted, for any set of orders.
THEOREM NoUnitLost == Spec => []StockConserved
<1>1. IInv /\ StockConserved /\ [Next]_vars => StockConserved'
  <2> SUFFICES ASSUME IInv, StockConserved, [Next]_vars PROVE StockConserved'
      OBVIOUS
  <2>1. [StepConserves]_vars /\ TypeOK'
        BY StepKeepsStock, IInvStep DEF IInv
  <2>2. rows' \subseteq rows
        BY DEF Next, Step, Lookup, LockRow, SkipMissing, CommitReserve, CommitUnreserve,
           CommitFulfill, Conflict, UniqueViolation, Rollback, CheckReserves, DeleteRow,
           DeleteRowEffect, AllAnswered, vars, tables
  <2>3. UNCHANGED vars => StepConserves
        BY DEF vars, tables, StepConserves
  <2> QED BY <2>1, <2>2, <2>3, StepKeepsSum
<1> QED BY <1>1, InitConserves, IInvAlways, PTL DEF Spec

-----------------------------------------------------------------------------
(* Refinement: every step is a step of Inventory or a stutter. *)

\* The answer a request shows outside.
Outcome == [r \in Requests |-> AnswerOf(status[r])]

LEMMA AnswersStay ==
    ASSUME TypeOK, NEW r \in Requests, NEW o \in Statuses,
           status' = [status EXCEPT ![r] = o], status[r] \in {"idle", "locking"}
    PROVE  /\ Outcome[r] = "pending"
           /\ Outcome' = [Outcome EXCEPT ![r] = AnswerOf(o)]
BY DEF TypeOK, Outcome, AnswerOf

LEMMA RefinesInit == Init => API!Init
<1> SUFFICES ASSUME Init PROVE API!Init
    OBVIOUS
<1>1. call \in [Requests -> API!Calls] /\ \A r \in Requests : API!Wanted(call[r].items) # {}
      BY DEF Init, Calls, API!Calls, Quantities, API!Quantities, Wanted, API!Wanted
<1>2. API!StockInit
      BY DEF Init, StockInit, API!StockInit
<1>3. [r \in Requests |-> AnswerOf(status[r])] = [r \in Requests |-> "pending"]
      BY DEF Init, AnswerOf
<1> QED BY <1>1, <1>2, <1>3 DEF API!Init

\* The answer half of a step that ends a request.
LEMMA RefinesAnswer ==
    ASSUME TypeOK, NEW r \in Requests, NEW o \in Answered, call' = call,
           status' = [status EXCEPT ![r] = o], status[r] \in {"idle", "locking"}
    PROVE  API!Answer(r, o)
<1>1. o \in Statuses /\ AnswerOf(o) = o
      BY DEF Answered, AnswerOf
<1> QED BY <1>1, AnswersStay DEF API!Answer, Outcome

LEMMA RefinesStutter ==
    ASSUME UNCHANGED <<tables, call>>, Outcome' = Outcome
    PROVE  UNCHANGED API!vars
BY DEF API!vars, API!tables, tables, Outcome

LEMMA RefinesLookup ==
    ASSUME IInv, NEW r \in Requests, Lookup(r)
    PROVE  [API!Next]_(API!vars)
<1>1. /\ TypeOK /\ status[r] = "idle" /\ call' = call /\ UNCHANGED tables
      BY DEF IInv, Lookup
<1>2. CASE SeenBefore(r)
  <2>1. status' = [status EXCEPT ![r] = "cached"] /\ "cached" \in Answered
        BY <1>2 DEF Lookup, Answered, Statuses
  <2>2. API!Answer(r, "cached")
        BY <1>1, <2>1, RefinesAnswer
  <2>3. API!IsRepeat(call[r])
        BY <1>2 DEF API!IsRepeat, SeenBefore, ToUpdate, NotYetFulfilled, API!NotYetFulfilled,
                    Wanted, API!Wanted, KeyFresh, API!KeyFresh, Items
  <2>4. UNCHANGED API!tables
        BY <1>1 DEF tables, API!tables
  <2> QED BY <2>2, <2>3, <2>4 DEF API!Replay, API!Next
<1>3. CASE ~SeenBefore(r)
  <2>1. status' = [status EXCEPT ![r] = "locking"] /\ "locking" \in Statuses
        BY <1>3 DEF Lookup, Statuses
  <2>2. Outcome' = Outcome
        BY <1>1, <2>1 DEF TypeOK, Outcome, AnswerOf
  <2> QED BY <1>1, <2>2, RefinesStutter
<1> QED BY <1>2, <1>3

\* At a commit, the SKUs found are those asked for that have a row.
LEMMA FoundIsWanted ==
    ASSUME IInv, NEW r \in Requests, Ready(r)
    PROVE  /\ found[r] = todo[r] \cap rows
           /\ found[r] \subseteq SKUs /\ todo[r] \subseteq SKUs
           /\ call[r].op # "fulfill" => todo[r] = Wanted(Items(r))
           /\ \A s \in found[r] : copy[r][s].active = active[s]
<1>1. todo[r] \subseteq SKUs /\ found[r] \subseteq SKUs
      BY DEF IInv, TypeOK
<1>2. found[r] = todo[r] \cap rows
      BY <1>1 DEF IInv, Ready, VisitsInOrder, LocksMatch, HeldRowsExist
<1>3. \A s \in found[r] : copy[r][s].active = active[s]
      BY <1>1 DEF IInv, Ready, LocksMatch, CopiesAreCurrent
<1> QED BY <1>1, <1>2, <1>3 DEF IInv, Ready, TodoIsRight

\* Writing the rows from the copies is the abstract Move.
LEMMA WriteIsMove ==
    ASSUME IInv, NEW r \in Requests, Ready(r),
           NEW a \in Int, NEW b \in Int, WriteRows(r, a, b)
    PROVE  API!Move(todo[r], call[r].items, a, b)
<1>1. status[r] = "locking"
      BY DEF Ready
<1>2. \A s \in SKUs : s \in found[r] <=> s \in todo[r] \cap rows
      BY FoundIsWanted
<1>3. \A s \in SKUs : s \in found[r] =>
          /\ copy[r][s].active = active[s]
          /\ copy[r][s].reserved = reserved[s]
      BY <1>1, WriteFromCopies
<1> QED BY <1>2, <1>3 DEF WriteRows, API!Move, Items

LEMMA RefinesCommitReserve ==
    ASSUME IInv, NEW r \in Requests, CommitReserve(r)
    PROVE  API!Next
<1>1. /\ TypeOK /\ Ready(r) /\ status[r] = "locking" /\ call[r].op = "reserve"
      /\ Unavailable(r) = {} /\ OutboxAccepts(Zeroed(r)) /\ WriteRows(r, -1, 1)
      /\ zeroKey' = zeroKey \cup Zeroed(r) /\ RecordId(r)
      /\ status' = [status EXCEPT ![r] = "applied"] /\ call' = call
      /\ UNCHANGED <<rows, fulfilled>>
      BY DEF IInv, CommitReserve, Ready, Finish
<1>2. todo[r] = API!Wanted(call[r].items)
      BY <1>1, FoundIsWanted DEF Wanted, API!Wanted, Items
<1>3. found[r] = todo[r] /\ \A s \in todo[r] : s \in rows /\ ~(active[s] < Items(r)[s])
      BY <1>1, FoundIsWanted DEF Unavailable
<1>4. API!FailedItems(call[r].items) = {}
      BY <1>2, <1>3 DEF API!FailedItems, Items
<1>5. Zeroed(r) = API!ReachedZero(call[r].items)
      BY <1>1, <1>2, <1>3, FoundIsWanted DEF Zeroed, API!ReachedZero, Items
<1>6. API!OutboxAccepts(API!ReachedZero(call[r].items))
      BY <1>1, <1>5 DEF OutboxAccepts, API!OutboxAccepts
<1>7. API!Move(API!Wanted(call[r].items), call[r].items, -1, 1)
  <2>1. 1 \in Int /\ -1 \in Int
        OBVIOUS
  <2> QED BY <1>1, <1>2, <2>1, WriteIsMove
<1>8. API!KeyFresh(call[r].id) /\ processed' = processed \cup {call[r].id}
      BY <1>1 DEF RecordId, KeyFresh, API!KeyFresh
<1>9. API!ReserveEffect(call[r].id, call[r].items)
      BY <1>1, <1>4, <1>5, <1>6, <1>7, <1>8 DEF API!ReserveEffect
<1>10. API!Answer(r, "applied")
       BY <1>1, RefinesAnswer DEF Answered, Statuses
<1> QED BY <1>1, <1>9, <1>10 DEF API!Apply, API!TakesEffect, API!Next

LEMMA RefinesCommitUnreserve ==
    ASSUME IInv, NEW r \in Requests, CommitUnreserve(r)
    PROVE  API!Next
<1>1. /\ TypeOK /\ Ready(r) /\ status[r] = "locking" /\ call[r].op = "unreserve"
      /\ WriteRows(r, 1, -1) /\ RecordId(r)
      /\ status' = [status EXCEPT ![r] = "applied"] /\ call' = call
      /\ UNCHANGED <<rows, fulfilled, zeroKey>>
      BY DEF IInv, CommitUnreserve, Ready, Finish
<1>2. todo[r] = API!Wanted(call[r].items)
      BY <1>1, FoundIsWanted DEF Wanted, API!Wanted, Items
<1>3. API!Move(API!Wanted(call[r].items), call[r].items, 1, -1)
  <2>1. 1 \in Int /\ -1 \in Int
        OBVIOUS
  <2> QED BY <1>1, <1>2, <2>1, WriteIsMove
<1>4. API!KeyFresh(call[r].id) /\ processed' = processed \cup {call[r].id}
      BY <1>1 DEF RecordId, KeyFresh, API!KeyFresh
<1>5. API!UnreserveEffect(call[r].id, call[r].items)
      BY <1>1, <1>3, <1>4 DEF API!UnreserveEffect
<1>6. API!Answer(r, "applied")
      BY <1>1, RefinesAnswer DEF Answered, Statuses
<1> QED BY <1>1, <1>5, <1>6 DEF API!Apply, API!TakesEffect, API!Next

LEMMA RefinesCommitFulfill ==
    ASSUME IInv, NEW r \in Requests, CommitFulfill(r)
    PROVE  API!Next
<1>1. /\ TypeOK /\ Ready(r) /\ status[r] = "locking" /\ call[r].op = "fulfill"
      /\ PairsFree(r) /\ WriteRows(r, 0, -1)
      /\ fulfilled' = [fulfilled EXCEPT ![call[r].id] = [s \in SKUs |->
            IF s \in todo[r] THEN Items(r)[s] ELSE fulfilled[call[r].id][s]]]
      /\ status' = [status EXCEPT ![r] = "applied"] /\ call' = call
      /\ UNCHANGED <<rows, processed, zeroKey>>
      BY DEF IInv, CommitFulfill, Ready, Finish
<1>2. todo[r] = API!NotYetFulfilled(call[r].id, call[r].items)
      BY <1>1 DEF IInv, TodoIsRight, PairsFree, API!NotYetFulfilled, Wanted, API!Wanted, Items
<1>3. todo[r] # {}
      BY <1>1 DEF IInv, TodoIsRight
<1>4. API!Move(todo[r], call[r].items, 0, -1)
  <2>1. 0 \in Int /\ -1 \in Int
        OBVIOUS
  <2> QED BY <1>1, <2>1, WriteIsMove
<1>5. API!FulfillEffect(call[r].id, call[r].items)
      BY <1>1, <1>2, <1>3, <1>4 DEF API!FulfillEffect, Items
<1>6. API!Answer(r, "applied")
      BY <1>1, RefinesAnswer DEF Answered, Statuses
<1> QED BY <1>1, <1>5, <1>6 DEF API!Apply, API!TakesEffect, API!Next

LEMMA RefinesConflict ==
    ASSUME IInv, NEW r \in Requests, Conflict(r)
    PROVE  API!Next
<1>1. /\ TypeOK /\ Ready(r) /\ status[r] = "locking" /\ call[r].op = "reserve"
      /\ Unavailable(r) # {} /\ UNCHANGED tables
      /\ status' = [status EXCEPT ![r] = "conflict"] /\ call' = call
      BY DEF IInv, Conflict, Ready, Finish
<1>2. API!FailedItems(call[r].items) # {}
  <2>1. PICK s \in todo[r] : s \notin found[r] \/ copy[r][s].active < Items(r)[s]
        BY <1>1 DEF Unavailable
  <2>2. s \in Wanted(Items(r)) /\ (s \notin rows \/ active[s] < Items(r)[s])
        BY <1>1, <2>1, FoundIsWanted
  <2> QED BY <2>2 DEF API!FailedItems, Wanted, API!Wanted, Items
<1>3. API!Answer(r, "conflict")
      BY <1>1, RefinesAnswer DEF Answered, Statuses
<1> QED BY <1>1, <1>2, <1>3 DEF API!Refuse, API!IsRefused, API!Next, tables, API!tables

LEMMA RefinesFailure ==
    ASSUME IInv, NEW r \in Requests, UniqueViolation(r) \/ Rollback(r)
    PROVE  API!Next
<1>1. /\ TypeOK /\ status[r] = "locking" /\ UNCHANGED tables /\ call' = call
      /\ \/ status' = [status EXCEPT ![r] = "duplicate"]
         \/ status' = [status EXCEPT ![r] = "rolledback"]
      BY DEF IInv, UniqueViolation, Rollback, Ready, Finish
<1>2. API!Answer(r, "duplicate") \/ API!Answer(r, "rolledback")
      BY <1>1, RefinesAnswer DEF Answered, Statuses
<1> QED BY <1>1, <1>2 DEF API!Fail, API!Next, tables, API!tables

LEMMA RefinesNext == IInv /\ [Next]_vars => [API!Next]_(API!vars)
<1> SUFFICES ASSUME IInv, [Next]_vars PROVE [API!Next]_(API!vars)
    OBVIOUS
<1>1. ASSUME NEW r \in Requests, Lookup(r) PROVE [API!Next]_(API!vars)
      BY <1>1, RefinesLookup
<1>2. ASSUME NEW r \in Requests,
             \/ CommitReserve(r) \/ CommitUnreserve(r) \/ CommitFulfill(r)
             \/ Conflict(r) \/ UniqueViolation(r) \/ Rollback(r)
      PROVE  API!Next
      BY <1>2, RefinesCommitReserve, RefinesCommitUnreserve, RefinesCommitFulfill,
         RefinesConflict, RefinesFailure
<1>3. ASSUME UNCHANGED <<tables, call, status>> PROVE UNCHANGED API!vars
  <2>1. Outcome' = Outcome
        BY <1>3 DEF Outcome, AnswerOf
  <2> QED BY <1>3, <2>1, RefinesStutter
<1>4. ASSUME NEW r \in Requests, NEW s \in SKUs, LockRow(r, s) \/ SkipMissing(r, s)
      PROVE  UNCHANGED API!vars
      BY <1>3, <1>4 DEF LockRow, SkipMissing
<1>5. ASSUME NEW s \in SKUs, CheckReserves(s) PROVE UNCHANGED API!vars
      BY <1>3, <1>5 DEF CheckReserves
<1>6. ASSUME NEW s \in SKUs, DeleteRow(s) PROVE API!Next
  <2>1. API!DeleteRowEffect(s) /\ call' = call /\ Outcome' = Outcome
        BY <1>6 DEF DeleteRow, DeleteRowEffect, API!DeleteRowEffect, Outcome, AnswerOf
  <2> QED BY <2>1 DEF API!DeleteRow, API!Next, Outcome
<1>7. ASSUME UNCHANGED vars PROVE UNCHANGED API!vars
      BY <1>3, <1>7 DEF vars
<1> QED BY <1>1, <1>2, <1>4, <1>5, <1>6, <1>7 DEF Next, Step, AllAnswered

\* Seen from outside, every request is one atomic step: the row locks, copies
\* and commits of the repository implement the API that Inventory specifies.
THEOREM ImplementsInventory == Spec => AtomicRequests
<1> QED BY RefinesInit, RefinesNext, IInvAlways, PTL DEF Spec, AtomicRequests, API!Spec
=============================================================================
