------------------------------- MODULE Stock -------------------------------
(***************************************************************************)
(* The tables of the B2B database that the inventory endpoints read and    *)
(* write, and the effect of one committed reserve, unreserve or fulfill    *)
(* transaction on them (b2b/apps/inventory).  Every module that speaks of  *)
(* stock extends this one:                                                 *)
(*                                                                         *)
(*   Inventory    one request = one atomic step (what the API promises)    *)
(*   InventoryTx  the row locks, copies and commits behind that promise    *)
(*   Orders       the B2C use-cases that call the API over HTTP            *)
(***************************************************************************)
EXTENDS Integers, FiniteSets

CONSTANTS
    SKUs,          \* ids of SKU rows; UUID order is the order of numbers
    IdemKeys,      \* idempotency keys B2C sends with /reserve
    OrderIds,      \* order ids B2C sends with /unreserve and /fulfill
    InitialStock,  \* stock of each SKU once its invoices are accepted
    MaxQty         \* bound on the quantity of one item of a request

Ids == IdemKeys \cup OrderIds

ASSUME StockAssumption ==
    /\ SKUs \subseteq Nat
    /\ IdemKeys \cap OrderIds = {}
    /\ InitialStock \in [SKUs -> Nat]
    /\ MaxQty \in Nat \ {0}
    /\ IsFiniteSet(OrderIds)

VARIABLES
    rows,       \* SKUs that still have a row in table skus
    active,     \* skus.active_quantity
    reserved,   \* skus.reserved_quantity
    processed,  \* processed_events: ids recorded for sender b2c
    fulfilled,  \* fulfilled_orders: quantity per (order, SKU), 0 = no row
    zeroKey     \* SKUs with a SKU_OUT_OF_STOCK outbox row under key UUID(0)

tables == <<rows, active, reserved, processed, fulfilled, zeroKey>>

\* The items of a request: a quantity per SKU, 0 for a SKU not asked for.
Quantities == [SKUs -> 0..MaxQty]
Wanted(items) == {s \in SKUs : items[s] > 0}

\* What a request carries.  A reserve is identified by its idempotency key,
\* an unreserve or a fulfill by its order.
Calls ==
    [op : {"reserve"}, id : IdemKeys, items : Quantities]
        \cup [op : {"unreserve", "fulfill"}, id : OrderIds, items : Quantities]

StockTypeOK ==
    /\ rows \subseteq SKUs
    /\ active \in [SKUs -> Int]
    /\ reserved \in [SKUs -> Int]
    /\ processed \subseteq Ids
    /\ fulfilled \in [OrderIds -> [SKUs -> Nat]]
    /\ zeroKey \subseteq SKUs

StockInit ==
    /\ rows = SKUs
    /\ active = InitialStock
    /\ reserved = [s \in SKUs |-> 0]
    /\ processed = {}
    /\ fulfilled = [o \in OrderIds |-> [s \in SKUs |-> 0]]
    /\ zeroKey = {}

-----------------------------------------------------------------------------
(* Conditions the transactions test. *)

KeyFresh(id) == id \notin processed

\* Items that make a reserve fail: no row, or not enough active stock.
FailedItems(items) ==
    {s \in Wanted(items) : s \notin rows \/ active[s] < items[s]}

\* SKUs a reserve would bring to active_quantity = 0.
ReachedZero(items) == {s \in Wanted(items) : active[s] = items[s]}

\* The reserve use-case leaves the outbox key at its default, UUID(0), and
\* outbox.idempotency_key is UNIQUE: one such row fits in the table.
OutboxAccepts(zeroed) ==
    zeroed = {} \/ (zeroKey = {} /\ \E s \in SKUs : zeroed = {s})

\* Mutant: fulfill does not look into fulfilled_orders.
NotYetFulfilledUnread(order, items) == Wanted(items)

\* Items of an order with no fulfilled_orders row yet.
NotYetFulfilled(order, items) ==
    {s \in Wanted(items) : fulfilled[order][s] = 0}

-----------------------------------------------------------------------------
(* Effects of committed transactions. *)

\* UPDATE skus SET active_quantity, reserved_quantity of the rows in S.
Move(S, items, toActive, toReserved) ==
    /\ active' = [s \in SKUs |->
            IF s \in S \cap rows THEN active[s] + toActive * items[s] ELSE active[s]]
    /\ reserved' = [s \in SKUs |->
            IF s \in S \cap rows THEN reserved[s] + toReserved * items[s] ELSE reserved[s]]

ReserveEffect(key, items) ==
    /\ KeyFresh(key)
    /\ FailedItems(items) = {}
    /\ OutboxAccepts(ReachedZero(items))
    /\ Move(Wanted(items), items, -1, 1)
    /\ zeroKey' = zeroKey \cup ReachedZero(items)
    /\ processed' = processed \cup {key}
    /\ UNCHANGED <<rows, fulfilled>>

UnreserveEffect(order, items) ==
    /\ KeyFresh(order)
    /\ Move(Wanted(items), items, 1, -1)
    /\ processed' = processed \cup {order}
    /\ UNCHANGED <<rows, fulfilled, zeroKey>>

FulfillEffect(order, items) ==
    LET new == NotYetFulfilled(order, items)
    IN  /\ new # {}
        /\ Move(new, items, 0, -1)
        /\ fulfilled' = [fulfilled EXCEPT ![order] =
                [s \in SKUs |-> IF s \in new THEN items[s] ELSE fulfilled[order][s]]]
        /\ UNCHANGED <<rows, processed, zeroKey>>

\* The three ways a call can be answered 200 or 409 ...
TakesEffect(c) ==
    \/ c.op = "reserve" /\ ReserveEffect(c.id, c.items)
    \/ c.op = "unreserve" /\ UnreserveEffect(c.id, c.items)
    \/ c.op = "fulfill" /\ FulfillEffect(c.id, c.items)

\* ... took effect before: 200 from the table, nothing to do ...
IsRepeat(c) ==
    IF c.op = "fulfill" THEN NotYetFulfilled(c.id, c.items) = {} ELSE ~KeyFresh(c.id)

\* ... and 409 RESERVE_FAILED.
IsRefused(c) == c.op = "reserve" /\ FailedItems(c.items) # {}

DeleteRowEffect(s) ==
    /\ s \in rows
    /\ rows' = rows \ {s}
    /\ UNCHANGED <<active, reserved, processed, fulfilled, zeroKey>>

=============================================================================
