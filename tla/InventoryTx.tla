---------------------------- MODULE InventoryTx ----------------------------
(***************************************************************************)
(* The inventory endpoints of B2B as the database executes them: every     *)
(* request is one transaction that looks its id up, locks the SKU rows it  *)
(* needs one by one (SELECT ... ORDER BY id FOR UPDATE), computes the new  *)
(* quantities from the copies it read, and commits or rolls back.  Any     *)
(* number of requests run at once.  A seller may delete a SKU meanwhile    *)
(* (delete_sku): that use-case tests reserved_quantity in one transaction  *)
(* and deletes the row in another.                                         *)
(***************************************************************************)
EXTENDS Stock, FiniteSetsExt

CONSTANTS
    Requests,   \* HTTP requests the service receives
    Deletable,  \* SKUs whose seller may try to delete them
    NoRequest   \* the holder of a row nobody locked

ASSUME TxAssumption == Deletable \subseteq SKUs /\ NoRequest \notin Requests

Statuses == {"idle", "locking", "applied", "cached", "conflict", "duplicate", "rolledback"}
Answered == Statuses \ {"idle", "locking"}

Row == [active : Int, reserved : Int]

VARIABLES
    call,      \* the content of each request
    status,    \* "locking" while its transaction is open, then its answer
    todo,      \* SKUs the transaction is to update
    visited,   \* SKUs its SELECT ... FOR UPDATE has passed
    found,     \* those of them that had a row
    copy,      \* the row versions it read
    holder,    \* row locks: who holds each SKU row
    deletion   \* progress of delete_sku on each SKU

vars == <<tables, call, status, todo, visited, found, copy, holder, deletion>>

TypeOK ==
    /\ StockTypeOK
    /\ call \in [Requests -> Calls]
    /\ status \in [Requests -> Statuses]
    /\ todo \in [Requests -> SUBSET SKUs]
    /\ visited \in [Requests -> SUBSET SKUs]
    /\ found \in [Requests -> SUBSET SKUs]
    /\ copy \in [Requests -> [SKUs -> Row]]
    /\ holder \in [SKUs -> Requests \cup {NoRequest}]
    /\ deletion \in [SKUs -> {"idle", "checked"}]

Init ==
    /\ StockInit
    /\ call \in [Requests -> Calls]
    /\ \A r \in Requests : Wanted(call[r].items) # {}
    /\ status = [r \in Requests |-> "idle"]
    /\ todo = [r \in Requests |-> {}]
    /\ visited = [r \in Requests |-> {}]
    /\ found = [r \in Requests |-> {}]
    /\ copy = [r \in Requests |-> [s \in SKUs |-> [active |-> 0, reserved |-> 0]]]
    /\ holder = [s \in SKUs |-> NoRequest]
    /\ deletion = [s \in SKUs |-> "idle"]

-----------------------------------------------------------------------------
Items(r) == call[r].items

\* What the first SELECT of the transaction leaves to be done.
ToUpdate(r) ==
    IF call[r].op = "fulfill"
    THEN NotYetFulfilled(call[r].id, Items(r))
    ELSE Wanted(Items(r))

SeenBefore(r) ==
    IF call[r].op = "fulfill" THEN ToUpdate(r) = {} ELSE ~KeyFresh(call[r].id)

\* The transaction opens: a known id is answered from the table at once.
Lookup(r) ==
    /\ status[r] = "idle"
    /\ status' = [status EXCEPT ![r] = IF SeenBefore(r) THEN "cached" ELSE "locking"]
    /\ todo' = [todo EXCEPT ![r] = IF SeenBefore(r) THEN {} ELSE ToUpdate(r)]
    /\ UNCHANGED <<tables, call, visited, found, copy, holder, deletion>>

\* Mutant: the SELECT has no ORDER BY.
NextToLockUnordered(r, s) == s \in todo[r] \ visited[r]

\* SELECT ... ORDER BY id visits the rows in ascending order.
NextToLock(r, s) ==
    /\ s \in todo[r] \ visited[r]
    /\ \A u \in todo[r] \ visited[r] : s <= u

\* Mutant: the SELECT has no FOR UPDATE.
LockableAlways(s) == TRUE

Lockable(s) == holder[s] = NoRequest

\* FOR UPDATE waits for the lock and returns the row as last committed.
LockRow(r, s) ==
    /\ status[r] = "locking"
    /\ NextToLock(r, s)
    /\ s \in rows
    /\ Lockable(s)
    /\ holder' = [holder EXCEPT ![s] = r]
    /\ copy' = [copy EXCEPT ![r][s] = [active |-> active[s], reserved |-> reserved[s]]]
    /\ visited' = [visited EXCEPT ![r] = @ \cup {s}]
    /\ found' = [found EXCEPT ![r] = @ \cup {s}]
    /\ UNCHANGED <<tables, call, status, todo, deletion>>

\* A SKU without a row yields nothing to lock.
SkipMissing(r, s) ==
    /\ status[r] = "locking"
    /\ NextToLock(r, s)
    /\ s \notin rows
    /\ visited' = [visited EXCEPT ![r] = @ \cup {s}]
    /\ UNCHANGED <<tables, call, status, todo, found, copy, holder, deletion>>

-----------------------------------------------------------------------------
Ready(r) == status[r] = "locking" /\ visited[r] = todo[r]

\* The end of a transaction frees its rows.
Finish(r, o) ==
    /\ status' = [status EXCEPT ![r] = o]
    /\ holder' = [s \in SKUs |-> IF holder[s] = r THEN NoRequest ELSE holder[s]]
    /\ UNCHANGED <<call, todo, visited, found, copy, deletion>>

\* Mutants: the validation forgets quantities; it forgets missing rows.
UnavailableIfMissing(r) == {s \in todo[r] : s \notin found[r]}
UnavailableIfShort(r) == {s \in found[r] : copy[r][s].active < Items(r)[s]}

\* Validation and arithmetic use the copies, not the tables.
Unavailable(r) ==
    {s \in todo[r] : s \notin found[r] \/ copy[r][s].active < Items(r)[s]}
Zeroed(r) == {s \in found[r] : copy[r][s].active = Items(r)[s]}

\* UPDATE skus SET ... of the locked rows, with values computed from copies.
WriteRows(r, toActive, toReserved) ==
    /\ active' = [s \in SKUs |->
            IF s \in found[r] THEN copy[r][s].active + toActive * Items(r)[s] ELSE active[s]]
    /\ reserved' = [s \in SKUs |->
            IF s \in found[r] THEN copy[r][s].reserved + toReserved * Items(r)[s] ELSE reserved[s]]

\* Mutant: INSERT ... ON CONFLICT DO NOTHING.
RecordIdOnce(r) == processed' = processed \cup {call[r].id}

\* INSERT INTO processed_events under UNIQUE (sender_service, idempotency_key).
RecordId(r) ==
    /\ KeyFresh(call[r].id)
    /\ processed' = processed \cup {call[r].id}

CommitReserve(r) ==
    /\ Ready(r)
    /\ call[r].op = "reserve"
    /\ Unavailable(r) = {}
    /\ OutboxAccepts(Zeroed(r))
    /\ WriteRows(r, -1, 1)
    /\ zeroKey' = zeroKey \cup Zeroed(r)
    /\ RecordId(r)
    /\ Finish(r, "applied")
    /\ UNCHANGED <<rows, fulfilled>>

CommitUnreserve(r) ==
    /\ Ready(r)
    /\ call[r].op = "unreserve"
    /\ WriteRows(r, 1, -1)
    /\ RecordId(r)
    /\ Finish(r, "applied")
    /\ UNCHANGED <<rows, fulfilled, zeroKey>>

\* UNIQUE (order_id, sku_id) of fulfilled_orders.
PairsFree(r) == \A s \in todo[r] : fulfilled[call[r].id][s] = 0

CommitFulfill(r) ==
    /\ Ready(r)
    /\ call[r].op = "fulfill"
    /\ PairsFree(r)
    /\ WriteRows(r, 0, -1)
    /\ fulfilled' = [fulfilled EXCEPT ![call[r].id] = [s \in SKUs |->
            IF s \in todo[r] THEN Items(r)[s] ELSE fulfilled[call[r].id][s]]]
    /\ Finish(r, "applied")
    /\ UNCHANGED <<rows, processed, zeroKey>>

\* InventoryConflictError: 409, nothing written.
Conflict(r) ==
    /\ Ready(r)
    /\ call[r].op = "reserve"
    /\ Unavailable(r) # {}
    /\ Finish(r, "conflict")
    /\ UNCHANGED tables

\* IntegrityError at an INSERT: 500, nothing written.
UniqueViolation(r) ==
    /\ Ready(r)
    /\ \/ call[r].op = "fulfill" /\ ~PairsFree(r)
       \/ call[r].op = "unreserve" /\ ~KeyFresh(call[r].id)
       \/ /\ call[r].op = "reserve" /\ Unavailable(r) = {}
          /\ ~KeyFresh(call[r].id) \/ ~OutboxAccepts(Zeroed(r))
    /\ Finish(r, "duplicate")
    /\ UNCHANGED tables

\* The process dies or loses its connection before COMMIT.
Rollback(r) ==
    /\ status[r] = "locking"
    /\ Finish(r, "rolledback")
    /\ UNCHANGED tables

-----------------------------------------------------------------------------
\* delete_sku: the guard reads reserved_quantity without a lock ...
CheckReserves(s) ==
    /\ s \in Deletable \cap rows
    /\ deletion[s] = "idle"
    /\ reserved[s] <= 0
    /\ deletion' = [deletion EXCEPT ![s] = "checked"]
    /\ UNCHANGED <<tables, call, status, todo, visited, found, copy, holder>>

\* ... and DELETE, a later transaction, only waits for the row lock.
DeleteRow(s) ==
    /\ deletion[s] = "checked"
    /\ Lockable(s)
    /\ DeleteRowEffect(s)
    /\ UNCHANGED <<call, status, todo, visited, found, copy, holder, deletion>>

Step(r) ==
    \/ \E s \in SKUs : LockRow(r, s) \/ SkipMissing(r, s)
    \/ CommitReserve(r) \/ CommitUnreserve(r) \/ CommitFulfill(r)
    \/ Conflict(r) \/ UniqueViolation(r)

AllAnswered ==
    /\ \A r \in Requests : status[r] \in Answered
    /\ UNCHANGED vars

Next ==
    \/ \E r \in Requests : Lookup(r) \/ Step(r) \/ Rollback(r)
    \/ \E s \in SKUs : CheckReserves(s) \/ DeleteRow(s)
    \/ AllAnswered

Spec == Init /\ [][Next]_vars

\* The event loop runs every open transaction and PostgreSQL grants every
\* free lock; that a request arrives, or a fault strikes, is nobody's duty.
Fairness == \A r \in Requests : WF_vars(Step(r))

FairSpec == Spec /\ Fairness

-----------------------------------------------------------------------------
(* Safety. *)

\* Units of s handed over to buyers, over all orders.
Shipped(s) == MapThenSumSet(LAMBDA o : fulfilled[o][s], OrderIds)

\* No unit of stock is lost or invented: for every SKU that has a row, what is
\* free, what is reserved and what was shipped add up to what was accepted,
\* whatever transactions interleave (inventory_repository.py computes new
\* quantities from copies, so one lost update would break the sum).
StockConserved ==
    \A s \in rows : active[s] + reserved[s] + Shipped(s) = InitialStock[s]

\* Concurrent reserves never sell a unit twice: free stock stays above zero.
ActiveNonNegative == \A s \in SKUs : active[s] >= 0

\* FOR UPDATE: as long as a transaction holds a row, its copy is the row.
CopiesAreCurrent ==
    \A r \in Requests, s \in SKUs :
        holder[s] = r => /\ copy[r][s].active = active[s]
                         /\ copy[r][s].reserved = reserved[s]

\* No deadlock: a transaction waits only for rows above all those it holds,
\* so no circle of waiting transactions can close.
LockOrder ==
    \A r \in Requests, s, u \in SKUs :
        status[r] = "locking" /\ NextToLock(r, s) /\ holder[u] = r => u < s

\* A request is what is counted once: of all the retries of one reserve key or
\* one cancelled order at most one takes effect, and of all the fulfills of one
\* order at most one deducts each SKU, even when every one of them found
\* nothing at its own lookup.
AtMostOnce ==
    \A r, q \in Requests :
        /\ r # q /\ status[r] = "applied" /\ status[q] = "applied"
        /\ call[r].op = call[q].op /\ call[r].id = call[q].id
        => call[r].op = "fulfill" /\ todo[r] \cap todo[q] = {}

\* A step changes the stock of a SKU (free plus reserved) only by handing over
\* units, and then by the very quantity it records for one order.
StepConserves ==
    \A s \in rows' :
        \/ /\ active'[s] + reserved'[s] = active[s] + reserved[s]
           /\ \A o \in OrderIds : fulfilled'[o][s] = fulfilled[o][s]
        \/ \E o \in OrderIds :
              /\ fulfilled[o][s] = 0
              /\ active'[s] = active[s]
              /\ reserved'[s] = reserved[s] - fulfilled'[o][s]
              /\ \A p \in OrderIds \ {o} : fulfilled'[p][s] = fulfilled[p][s]
EveryStepConserves == [][StepConserves]_vars

(* Liveness. *)

\* Every transaction that opens is answered: lock waits end.
EveryOpenRequestEnds ==
    \A r \in Requests : status[r] = "locking" ~> status[r] \in Answered

(* Refinement. *)

AnswerOf(o) == IF o \in {"idle", "locking"} THEN "pending" ELSE o

API == INSTANCE Inventory WITH outcome <- [r \in Requests |-> AnswerOf(status[r])]

\* Locking, copying and committing look, from outside, like one atomic step per
\* request: all items or none, on the tables as they are at that step.
AtomicRequests == API!Spec

(* What the code's comments say and the code does not do. *)

\* shared/outbox/repository.py:46: an IntegrityError means the operation is a
\* repeated one.
UniqueViolationMeansRepeat ==
    \A r \in Requests : status[r] = "duplicate" =>
        \E q \in Requests \ {r} : status[q] = "applied" /\ call[q].id = call[r].id

\* delete_sku.py:9: a SKU with active reserves cannot be deleted.
ReservedSkuStays == [][\A s \in rows \ rows' : reserved[s] <= 0]_vars

=============================================================================
