------------------------------- MODULE Orders -------------------------------
(***************************************************************************)
(* The orders of B2C (b2c/apps/orders) and the stock of B2B they move.     *)
(* Checkouts, cancellations and deliveries are processes that read and     *)
(* write the orders table in separate transactions and call B2B over HTTP  *)
(* in between.  A call may be lost, answered too late or take effect after *)
(* its client gave up; a process may die between any two steps.  What B2B  *)
(* does with a call is one step of the tables of Stock (InventoryTx).      *)
(*                                                                         *)
(* A checkout makes its own order id before it reserves, so OrderIds also  *)
(* names the checkouts.                                                    *)
(***************************************************************************)
EXTENDS Stock

CONSTANTS
    Cancels,     \* POST /orders/{id}/cancel requests
    Deliveries,  \* runs of MarkDeliveredUseCase
    MaxEdits,    \* bound on the changes the buyer makes to the cart
    NoOrder      \* what a process without an order answers

ASSUME OrdersAssumption ==
    /\ NoOrder \notin OrderIds
    /\ OrderIds \cap Cancels = {}
    /\ (OrderIds \cup Cancels) \cap Deliveries = {}
    /\ MaxEdits \in Nat
    /\ IsFiniteSet(IdemKeys)

Clients == OrderIds \cup Cancels      \* processes that call B2B
Procs == Clients \cup Deliveries

VARIABLES
    cart,     \* the buyer's cart_items
    edits,    \* changes made to it so far
    key,      \* Idempotency-Key header of each checkout
    lines,    \* what each checkout read from the cart: its order_items
    status,   \* orders.status; "none" while the row does not exist
    step,     \* where each process is
    target,   \* the order a process answers with, cancels or delivers
    net,      \* clients whose call to B2B is still under way
    reply,    \* what B2B answered, as long as the client can see it
    row,      \* the FULFILL_ORDER outbox row each delivery inserted
    booked    \* history: the items B2B reserved under each key

b2c == <<cart, edits, key, lines, status, step, target, net, reply, row>>
vars == <<tables, b2c, booked>>

OrderStatuses == {"none", "PAID", "ASSEMBLING", "DELIVERING", "DELIVERED",
                  "CANCELLED", "CANCEL_PENDING"}
Steps == {"idle", "looked", "carted", "waiting", "created", "repeated", "refused",
          "unavailable", "crashed", "done", "read", "enqueued"}
Replies == {"none", "ok", "conflict", "error"}
Nothing == [s \in SKUs |-> 0]

\* One row per (cart, SKU); an order copies the rows of one cart.
CartItems == Quantities
OrderItems == [OrderIds -> Quantities]

TypeOK ==
    /\ StockTypeOK
    /\ cart \in CartItems /\ edits \in 0..MaxEdits
    /\ key \in [OrderIds -> IdemKeys]
    /\ lines \in OrderItems
    /\ status \in [OrderIds -> OrderStatuses]
    /\ step \in [Procs -> Steps]
    /\ target \in [Procs -> OrderIds \cup {NoOrder}]
    /\ net \subseteq Clients
    /\ reply \in [Clients -> Replies]
    /\ row \in [Deliveries -> {"none", "PENDING", "SENT", "FAILED"}]
    /\ booked \in [IdemKeys -> Quantities]

Init ==
    /\ StockInit
    /\ cart \in CartItems
    /\ edits = 0
    /\ key \in [OrderIds -> IdemKeys]
    /\ lines = [o \in OrderIds |-> Nothing]
    /\ status = [o \in OrderIds |-> "none"]
    /\ step = [p \in Procs |-> "idle"]
    /\ target = [p \in Procs |-> NoOrder]
    /\ net = {}
    /\ reply = [p \in Clients |-> "none"]
    /\ row = [d \in Deliveries |-> "none"]
    /\ booked = [k \in IdemKeys |-> Nothing]

Go(p, to) == step' = [step EXCEPT ![p] = to]

Exists(o) == status[o] # "none"

-----------------------------------------------------------------------------
(* Checkout. *)

OrdersOfKey(k) == {o \in OrderIds : Exists(o) /\ key[o] = k}

\* SELECT by idempotency_key: an existing order is returned with 200.
LookUpKey(a) ==
    /\ step[a] = "idle"
    /\ \/ /\ OrdersOfKey(key[a]) = {}
          /\ Go(a, "looked")
          /\ UNCHANGED target
       \/ \E o \in OrdersOfKey(key[a]) :
             Go(a, "repeated") /\ target' = [target EXCEPT ![a] = o]
    /\ UNCHANGED <<tables, cart, edits, key, lines, status, net, reply, row, booked>>

\* The items come from the cart as it is now, not from the request.
ReadCart(a) ==
    /\ step[a] = "looked"
    /\ lines' = [lines EXCEPT ![a] = cart]
    /\ Go(a, IF Wanted(cart) = {} THEN "refused" ELSE "carted")
    /\ UNCHANGED <<tables, cart, edits, key, status, target, net, reply, row, booked>>

\* Mutant: address and payment method are validated after the reserve.
RefuseLate(a) ==
    /\ step[a] = "carted" \/ (step[a] = "waiting" /\ reply[a] = "ok")
    /\ Go(a, "refused")
    /\ UNCHANGED <<tables, cart, edits, key, lines, status, target, net, reply, row, booked>>

\* 422: a line is short of stock or gone; the snapshot, the address or the
\* payment method is refused; the catalogue is unavailable (503).
Refuse(a) ==
    /\ step[a] = "carted"
    /\ Go(a, "refused")
    /\ UNCHANGED <<tables, cart, edits, key, lines, status, target, net, reply, row, booked>>

\* All checks passed: POST /inventory/reserve is on its way.
SendReserve(a) ==
    /\ step[a] = "carted"
    /\ FailedItems(lines[a]) = {}
    /\ Go(a, "waiting")
    /\ net' = net \cup {a}
    /\ UNCHANGED <<tables, cart, edits, key, lines, status, target, reply, row, booked>>

\* Mutants: idempotency_key is not UNIQUE; a timeout passes for a success.
CreateOrderAgain(a) ==
    /\ step[a] = "waiting"
    /\ reply[a] = "ok"
    /\ status' = [status EXCEPT ![a] = "PAID"]
    /\ target' = [target EXCEPT ![a] = a]
    /\ Go(a, "created")
    /\ UNCHANGED <<tables, cart, edits, key, lines, net, reply, row, booked>>

CreateOrderUnanswered(a) ==
    /\ step[a] = "waiting"
    /\ reply[a] \in {"ok", "none"}
    /\ OrdersOfKey(key[a]) = {}
    /\ status' = [status EXCEPT ![a] = "PAID"]
    /\ target' = [target EXCEPT ![a] = a]
    /\ Go(a, "created")
    /\ UNCHANGED <<tables, cart, edits, key, lines, net, reply, row, booked>>

\* INSERT order and items in one transaction, UNIQUE (idempotency_key).
CreateOrder(a) ==
    /\ step[a] = "waiting"
    /\ reply[a] = "ok"
    /\ OrdersOfKey(key[a]) = {}
    /\ status' = [status EXCEPT ![a] = "PAID"]
    /\ target' = [target EXCEPT ![a] = a]
    /\ Go(a, "created")
    /\ UNCHANGED <<tables, cart, edits, key, lines, net, reply, row, booked>>

\* IntegrityError: another checkout of this key was first; its order is read.
RereadOrder(a) ==
    /\ step[a] = "waiting"
    /\ reply[a] = "ok"
    /\ \E o \in OrdersOfKey(key[a]) : target' = [target EXCEPT ![a] = o]
    /\ Go(a, "repeated")
    /\ UNCHANGED <<tables, cart, edits, key, lines, status, net, reply, row, booked>>

\* 409 RESERVE_FAILED, or 503 on an error of B2B.
ReserveFailed(a) ==
    /\ step[a] = "waiting"
    /\ \/ reply[a] = "conflict" /\ Go(a, "refused")
       \/ reply[a] = "error" /\ Go(a, "unavailable")
    /\ UNCHANGED <<tables, cart, edits, key, lines, status, target, net, reply, row, booked>>

\* The client's timeout: 503, while the call may still reach B2B.
CheckoutTimeout(a) ==
    /\ step[a] = "waiting"
    /\ reply[a] = "none"
    /\ Go(a, "unavailable")
    /\ UNCHANGED <<tables, cart, edits, key, lines, status, target, net, reply, row, booked>>

\* The buyer adds, changes, removes, merges or clears cart items.
EditCart ==
    /\ edits < MaxEdits
    /\ cart' \in CartItems \ {cart}
    /\ edits' = edits + 1
    /\ UNCHANGED <<tables, key, lines, status, step, target, net, reply, row, booked>>

-----------------------------------------------------------------------------
(* Cancellation. *)

Cancelable == {"CREATED", "PAID"}

\* The order is read, found cancelable, and POST /inventory/unreserve sent.
SendUnreserve(c, o) ==
    /\ step[c] = "idle"
    /\ status[o] \in Cancelable
    /\ target' = [target EXCEPT ![c] = o]
    /\ Go(c, "waiting")
    /\ net' = net \cup {c}
    /\ UNCHANGED <<tables, cart, edits, key, lines, status, reply, row, booked>>

\* 409 CANCEL_NOT_ALLOWED.
CancelRefused(c, o) ==
    /\ step[c] = "idle"
    /\ Exists(o) /\ status[o] \notin Cancelable
    /\ target' = [target EXCEPT ![c] = o]
    /\ Go(c, "refused")
    /\ UNCHANGED <<tables, cart, edits, key, lines, status, net, reply, row, booked>>

\* Mutant: B2BUnavailableError is swallowed.
FinishCancelAnyway(c) ==
    /\ step[c] = "waiting"
    /\ status' = [status EXCEPT ![target[c]] = "CANCELLED"]
    /\ Go(c, "done")
    /\ UNCHANGED <<tables, cart, edits, key, lines, target, net, reply, row, booked>>

\* UPDATE orders SET status WHERE id: the status is not looked at again.
\* 5xx and timeout leave CANCEL_PENDING, which nothing in B2C takes up.
FinishCancel(c) ==
    /\ step[c] = "waiting"
    /\ status' = [status EXCEPT ![target[c]] =
            IF reply[c] = "ok" THEN "CANCELLED" ELSE "CANCEL_PENDING"]
    /\ Go(c, "done")
    /\ UNCHANGED <<tables, cart, edits, key, lines, target, net, reply, row, booked>>

-----------------------------------------------------------------------------
(* The operator and the delivery. *)

\* The shop moves an order on; no code of B2C does.
Operate(o) ==
    /\ \/ status[o] = "PAID" /\ status' = [status EXCEPT ![o] = "ASSEMBLING"]
       \/ status[o] = "ASSEMBLING" /\ status' = [status EXCEPT ![o] = "DELIVERING"]
    /\ UNCHANGED <<tables, cart, edits, key, lines, step, target, net, reply, row, booked>>

\* MarkDelivered reads the order: DELIVERING goes on, DELIVERED is a no-op,
\* anything else is 409 DELIVER_NOT_ALLOWED.
ReadForDelivery(d, o) ==
    /\ step[d] = "idle"
    /\ Exists(o)
    /\ target' = [target EXCEPT ![d] = o]
    /\ Go(d, CASE status[o] = "DELIVERING" -> "read"
               [] status[o] = "DELIVERED" -> "done"
               [] OTHER -> "refused")
    /\ UNCHANGED <<tables, cart, edits, key, lines, status, net, reply, row, booked>>

\* INSERT outbox FULFILL_ORDER under a new uuid, a transaction of its own ...
EnqueueFulfill(d) ==
    /\ step[d] = "read"
    /\ row' = [row EXCEPT ![d] = "PENDING"]
    /\ Go(d, "enqueued")
    /\ UNCHANGED <<tables, cart, edits, key, lines, status, target, net, reply, booked>>

\* Mutants: the status is written before the outbox row; in its vocabulary.
SetDeliveredFirst(d) ==
    /\ step[d] = "read"
    /\ status' = [status EXCEPT ![target[d]] = "DELIVERED"]
    /\ Go(d, "enqueued")
    /\ UNCHANGED <<tables, cart, edits, key, lines, target, net, reply, row, booked>>

\* ... and then UPDATE orders SET status = DELIVERED.
SetDelivered(d) ==
    /\ step[d] = "enqueued"
    /\ status' = [status EXCEPT ![target[d]] = "DELIVERED"]
    /\ Go(d, "done")
    /\ UNCHANGED <<tables, cart, edits, key, lines, target, net, reply, row, booked>>

\* The outbox worker posts /inventory/fulfill.  It marks the row when it saw
\* the answer, and posts it again later when it did not.
Dispatch(d) ==
    LET c == [op |-> "fulfill", id |-> target[d], items |-> lines[target[d]]]
    IN  /\ row[d] = "PENDING"
        /\ TakesEffect(c) \/ (IsRepeat(c) /\ UNCHANGED tables)
        /\ \E r \in {"PENDING", "SENT"} : row' = [row EXCEPT ![d] = r]
        /\ UNCHANGED <<cart, edits, key, lines, status, step, target, net, reply, booked>>

\* MAX_RETRIES posts failed.
GiveUp(d) ==
    /\ row[d] = "PENDING"
    /\ row' = [row EXCEPT ![d] = "FAILED"]
    /\ UNCHANGED <<tables, cart, edits, key, lines, status, step, target, net, reply, booked>>

-----------------------------------------------------------------------------
(* B2B serves a call, and what may go wrong. *)

CallOf(p) ==
    IF p \in OrderIds
    THEN [op |-> "reserve", id |-> key[p], items |-> lines[p]]
    ELSE [op |-> "unreserve", id |-> target[p], items |-> lines[target[p]]]

\* The answer is of use only to a client that still waits for it.
Answered(p, r) ==
    /\ p \in net
    /\ net' = net \ {p}
    /\ reply' = IF step[p] = "waiting" THEN [reply EXCEPT ![p] = r] ELSE reply
    /\ UNCHANGED <<cart, edits, key, lines, status, step, target, row>>

ServeEffect(p) ==
    /\ Answered(p, "ok")
    /\ TakesEffect(CallOf(p))
    /\ booked' = IF p \in OrderIds THEN [booked EXCEPT ![key[p]] = lines[p]] ELSE booked

ServeRepeat(p) ==
    /\ Answered(p, "ok")
    /\ IsRepeat(CallOf(p))
    /\ UNCHANGED <<tables, booked>>

ServeConflict(p) ==
    /\ Answered(p, "conflict")
    /\ IsRefused(CallOf(p))
    /\ UNCHANGED <<tables, booked>>

\* 500: a UNIQUE violation or a rolled back transaction.
ServeError(p) ==
    /\ Answered(p, "error")
    /\ UNCHANGED <<tables, booked>>

\* The B2C process dies: whatever it had not written is lost.
Crash(p) ==
    /\ step[p] \in {"looked", "carted", "waiting", "read", "enqueued"}
    /\ Go(p, "crashed")
    /\ UNCHANGED <<tables, cart, edits, key, lines, status, target, net, reply, row, booked>>

Checkout(a) ==
    \/ LookUpKey(a) \/ ReadCart(a) \/ Refuse(a) \/ SendReserve(a)
    \/ CreateOrder(a) \/ RereadOrder(a) \/ ReserveFailed(a) \/ CheckoutTimeout(a)

Serve(p) == ServeEffect(p) \/ ServeRepeat(p) \/ ServeConflict(p) \/ ServeError(p)

Next ==
    \/ \E a \in OrderIds : Checkout(a) \/ Operate(a)
    \/ \E c \in Cancels : FinishCancel(c) \/ \E o \in OrderIds : SendUnreserve(c, o) \/ CancelRefused(c, o)
    \/ \E d \in Deliveries :
          \/ EnqueueFulfill(d) \/ SetDelivered(d) \/ Dispatch(d) \/ GiveUp(d)
          \/ \E o \in OrderIds : ReadForDelivery(d, o)
    \/ \E p \in Clients : Serve(p)
    \/ \E p \in Procs : Crash(p)
    \/ EditCart

Spec == Init /\ [][Next]_vars

-----------------------------------------------------------------------------
(* Safety. *)

Unreserved(o) == o \in processed
Shipped(o) == \E s \in SKUs : fulfilled[o][s] > 0

\* All checkouts of one key answer with the same order, whichever of them came
\* first, and exactly one of those answers is 201 (double-check plus UNIQUE).
OneOrderPerKey ==
    \A a, b \in OrderIds :
        key[a] = key[b] /\ target[a] # NoOrder /\ target[b] # NoOrder =>
            /\ target[a] = target[b]
            /\ step[a] = "created" /\ step[b] = "created" => a = b
            /\ step[target[a]] = "created"

\* No order is PAID on goods B2B never reserved: an order exists only when a
\* reserve under its key has committed, timeouts and late answers included.
OrdersAreReserved ==
    \A o \in OrderIds : Exists(o) => key[o] \in processed

\* Stock reserved for nobody comes only from a checkout that died or was
\* answered 503: one refused with 422 or 409 leaves nothing behind.
OrphanReserveExplained ==
    \A k \in IdemKeys : booked[k] # Nothing /\ OrdersOfKey(k) = {} =>
        \E a \in OrderIds : key[a] = k /\ step[a] \in {"waiting", "unavailable", "crashed"}

\* reserved_quantity falls below zero in two ways only: a buyer changed the
\* cart between two checkouts of one key, so that the order is not what was
\* reserved, or one order was both cancelled and delivered.
NegativeReserveExplained ==
    (\E s \in SKUs : reserved[s] < 0) =>
        \E o \in OrderIds : Exists(o) /\ (lines[o] # booked[key[o]] \/ (Unreserved(o) /\ Shipped(o)))

\* An order is never DELIVERED without its FULFILL_ORDER row or its effect.
DeliveredIsFulfilled ==
    \A o \in OrderIds : status[o] = "DELIVERED" =>
        \/ IsRepeat([op |-> "fulfill", id |-> o, items |-> lines[o]])
        \/ \E d \in Deliveries : target[d] = o /\ row[d] \in {"PENDING", "FAILED"}

\* A cancelled order gave its stock back, exactly once, before it said so.
CancelledIsUnreserved ==
    \A o \in OrderIds : status[o] = "CANCELLED" => Unreserved(o)

(* What comments and decision records say and the code does not do. *)

\* inventory_repository.py: fulfill comes strictly after a successful reserve,
\* so reserved_quantity need not be checked.
ReserveCoversFulfill == \A s \in SKUs : reserved[s] >= 0

\* cancel_order.py: only CREATED and PAID orders are cancelled.
CancelOnlyCancelable ==
    [][\A o \in OrderIds :
          status'[o] \in {"CANCELLED", "CANCEL_PENDING"} /\ status'[o] # status[o]
              => status[o] \in Cancelable]_vars

\* ADR 0004: the FULFILL_ORDER row and status DELIVERED are one transaction.
FulfillMeansDelivered ==
    \A d \in Deliveries : row[d] # "none" => status[target[d]] = "DELIVERED"

=============================================================================
