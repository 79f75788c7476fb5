---------------------------- MODULE PurchaseProofs ----------------------------
(***************************************************************************)
(* Proofs about Orders and Cart, the two parts of b2c that take a purchase *)
(* through: Orders for any number of checkouts, cancellations and          *)
(* deliveries, any stock and any cart, Cart for any number of requests     *)
(* and SKUs.  The modules share no variable, their proofs no lemma.        *)
(***************************************************************************)
EXTENDS Orders, Cart, Sums

\* The row of an order is there from the step that answers 201.
CreatedExist == \A a \in OrderIds : Exists(a) <=> step[a] = "created"

\* UNIQUE (idempotency_key).
KeysAreUnique == \A a, b \in OrderIds : Exists(a) /\ Exists(b) /\ key[a] = key[b] => a = b

\* A process that has an order has one that exists, a checkout one of its key.
TargetsExist ==
    /\ \A p \in Procs : target[p] # NoOrder => Exists(target[p])
    /\ \A a \in OrderIds : target[a] # NoOrder => key[target[a]] = key[a]
    /\ \A c \in Cancels : step[c] = "waiting" => target[c] # NoOrder
    /\ \A d \in Deliveries : step[d] \in {"read", "enqueued"} => target[d] # NoOrder

\* What a process has not begun yet left no trace.
IdleIsClean ==
    /\ \A c \in Cancels : step[c] = "idle" => c \notin net /\ reply[c] = "none"
    /\ \A d \in Deliveries : step[d] = "idle" => row[d] = "none"
    /\ \A c \in Cancels : c \in net => target[c] # NoOrder
    /\ \A d \in Deliveries : row[d] # "none" => target[d] # NoOrder

\* An answer 200 of B2B means that the effect is in its tables.
AnswersAreTrue ==
    /\ \A a \in OrderIds : reply[a] = "ok" => key[a] \in processed
    /\ \A c \in Cancels : reply[c] = "ok" => target[c] \in processed

FulfilledAll(o) == NotYetFulfilled(o, lines[o]) = {}

\* A row is marked SENT once every item of its order is in fulfilled_orders.
SentIsFulfilled ==
    /\ \A d \in Deliveries : row[d] = "SENT" => FulfilledAll(target[d])
    /\ \A d \in Deliveries : step[d] = "enqueued" => row[d] # "none"

IInv ==
    /\ TypeOK
    /\ CreatedExist
    /\ KeysAreUnique
    /\ TargetsExist
    /\ IdleIsClean
    /\ AnswersAreTrue
    /\ SentIsFulfilled
    /\ OrdersAreReserved
    /\ CancelledIsUnreserved
    /\ DeliveredIsFulfilled

-----------------------------------------------------------------------------
(* Lemmas about the tables of B2B. *)

LEMMA Multiples == \A i \in {-1, 0, 1}, n \in Nat : i * n \in Int
  OBVIOUS

\* A committed transaction keeps the types and forgets no id, no fulfilled item.
LEMMA EffectIsTyped ==
    ASSUME StockTypeOK, NEW c \in Calls, TakesEffect(c)
    PROVE  /\ StockTypeOK'
           /\ processed \subseteq processed'
           /\ \A o \in OrderIds, s \in SKUs : fulfilled[o][s] > 0 => fulfilled'[o][s] > 0
<1> USE StockAssumption DEF StockTypeOK
<1>1. c.items \in [SKUs -> Int] /\ (\A s \in SKUs : c.items[s] \in Nat)
  BY DEF Calls, Quantities
<1>2. ASSUME NEW S, NEW i \in {-1, 0, 1}, NEW j \in {-1, 0, 1}, Move(S, c.items, i, j)
      PROVE  active' \in [SKUs -> Int] /\ reserved' \in [SKUs -> Int]
  <2>1. \A s \in SKUs : i * c.items[s] \in Int /\ j * c.items[s] \in Int
    BY <1>1, Multiples
  <2> QED
    BY <1>1, <1>2, <2>1 DEF Move
<1>3. CASE c.op = "reserve"
  <2>1. ReserveEffect(c.id, c.items) /\ c.id \in IdemKeys
    BY <1>3 DEF TakesEffect, Calls
  <2>2. active' \in [SKUs -> Int] /\ reserved' \in [SKUs -> Int]
    BY <2>1, <1>2 DEF ReserveEffect
  <2> QED
    BY <2>1, <2>2 DEF ReserveEffect, Ids, ReachedZero, Wanted
<1>4. CASE c.op = "unreserve"
  <2>1. UnreserveEffect(c.id, c.items) /\ c.id \in OrderIds
    BY <1>4 DEF TakesEffect, Calls
  <2>2. active' \in [SKUs -> Int] /\ reserved' \in [SKUs -> Int]
    BY <2>1, <1>2 DEF UnreserveEffect
  <2> QED
    BY <2>1, <2>2 DEF UnreserveEffect, Ids
<1>5. CASE c.op = "fulfill"
  <2>1. FulfillEffect(c.id, c.items) /\ c.id \in OrderIds
    BY <1>5 DEF TakesEffect, Calls
  <2>2. active' \in [SKUs -> Int] /\ reserved' \in [SKUs -> Int]
    BY <2>1, <1>2 DEF FulfillEffect
  <2>3. fulfilled' \in [OrderIds -> [SKUs -> Nat]]
    BY <2>1, <1>1 DEF FulfillEffect
  <2>4. \A o \in OrderIds, s \in SKUs : fulfilled[o][s] > 0 => fulfilled'[o][s] > 0
    BY <2>1, <1>1 DEF FulfillEffect, NotYetFulfilled, Wanted
  <2> QED
    BY <2>1, <2>2, <2>3, <2>4 DEF FulfillEffect
<1> QED
  BY <1>3, <1>4, <1>5 DEF Calls

\* After a fulfill, or where it is a repeat, every item is in fulfilled_orders.
LEMMA FulfillCompletes ==
    ASSUME StockTypeOK, NEW o \in OrderIds, NEW items \in Quantities, FulfillEffect(o, items)
    PROVE  (NotYetFulfilled(o, items) = {})'
<1>1. ASSUME NEW s \in SKUs, items[s] > 0 PROVE fulfilled'[o][s] # 0
  <2>1. items[s] \in Nat /\ fulfilled[o][s] \in Nat
    BY StockAssumption DEF Quantities, StockTypeOK
  <2>2. fulfilled'[o][s] = IF s \in NotYetFulfilled(o, items) THEN items[s] ELSE fulfilled[o][s]
    BY DEF FulfillEffect, StockTypeOK
  <2> QED
    BY <1>1, <2>1, <2>2 DEF NotYetFulfilled, Wanted
<1> QED
  BY <1>1 DEF NotYetFulfilled, Wanted

-----------------------------------------------------------------------------
(* Every step keeps the invariant. *)

LEMMA InitIInv == Init => IInv
<1> SUFFICES ASSUME Init PROVE IInv
  OBVIOUS
<1> USE OrdersAssumption, StockAssumption
<1>1. StockTypeOK
  BY DEF Init, StockInit, StockTypeOK
<1>2. TypeOK
  BY <1>1 DEF Init, TypeOK, OrderStatuses, Steps, Replies, Nothing, CartItems, OrderItems, Quantities
<1> QED
  BY <1>2 DEF Init, IInv, CreatedExist, KeysAreUnique, TargetsExist, IdleIsClean, AnswersAreTrue,
     SentIsFulfilled, OrdersAreReserved, CancelledIsUnreserved, DeliveredIsFulfilled,
     Exists, Procs, Clients

\* What every step needs of the types and the names.
LEMMA ProcsAreApart ==
    /\ OrderIds \cap Cancels = {} /\ OrderIds \cap Deliveries = {} /\ Cancels \cap Deliveries = {}
    /\ NoOrder \notin OrderIds
BY OrdersAssumption

\* A step of a checkout before its order exists, or that ends it without one.
LEMMA CheckoutStep ==
    ASSUME IInv, NEW a \in OrderIds,
           LookUpKey(a) \/ Refuse(a) \/ SendReserve(a) \/ RereadOrder(a)
              \/ ReserveFailed(a) \/ CheckoutTimeout(a)
    PROVE  IInv'
<1> USE ProcsAreApart DEF Procs, Clients, Go
<1>1. TypeOK'
  BY DEF IInv, TypeOK, LookUpKey, Refuse, SendReserve, RereadOrder, ReserveFailed, CheckoutTimeout,
     tables, StockTypeOK, Steps, OrdersOfKey
<1>2. CreatedExist' /\ KeysAreUnique' /\ OrdersAreReserved' /\ CancelledIsUnreserved'
  BY DEF IInv, TypeOK, LookUpKey, Refuse, SendReserve, RereadOrder, ReserveFailed, CheckoutTimeout,
     tables, CreatedExist, KeysAreUnique, OrdersAreReserved, CancelledIsUnreserved, Exists, Unreserved
<1>3. TargetsExist'
  BY DEF IInv, TypeOK, LookUpKey, Refuse, SendReserve, RereadOrder, ReserveFailed, CheckoutTimeout,
     TargetsExist, Exists, OrdersOfKey
<1>4. IdleIsClean' /\ AnswersAreTrue'
  BY DEF IInv, TypeOK, LookUpKey, Refuse, SendReserve, RereadOrder, ReserveFailed, CheckoutTimeout,
     IdleIsClean, AnswersAreTrue, tables
<1>5. SentIsFulfilled' /\ DeliveredIsFulfilled'
  BY DEF IInv, TypeOK, LookUpKey, Refuse, SendReserve, RereadOrder, ReserveFailed, CheckoutTimeout,
     SentIsFulfilled, DeliveredIsFulfilled, IsRepeat, FulfilledAll, NotYetFulfilled, Wanted, tables
<1> QED
  BY <1>1, <1>2, <1>3, <1>4, <1>5 DEF IInv

LEMMA ReadCartStep ==
    ASSUME IInv, NEW a \in OrderIds, ReadCart(a)
    PROVE  IInv'
<1> USE ProcsAreApart DEF Procs, Clients, Go
<1>1. TypeOK'
  BY DEF IInv, TypeOK, ReadCart, tables, StockTypeOK, Steps, CartItems, OrderItems
<1>2. CreatedExist' /\ KeysAreUnique' /\ OrdersAreReserved' /\ CancelledIsUnreserved'
  BY DEF IInv, TypeOK, ReadCart, tables, CreatedExist, KeysAreUnique, OrdersAreReserved,
     CancelledIsUnreserved, Exists, Unreserved
<1>3. TargetsExist' /\ IdleIsClean' /\ AnswersAreTrue'
  BY DEF IInv, TypeOK, ReadCart, tables, TargetsExist, Exists, IdleIsClean, AnswersAreTrue
<1>4. ~Exists(a) /\ \A o \in OrderIds : o # a => lines'[o] = lines[o]
  BY DEF IInv, TypeOK, ReadCart, CreatedExist, OrderItems
<1>5. \A d \in Deliveries : row[d] # "none" => target[d] # a /\ target[d] \in OrderIds
  BY <1>4 DEF IInv, TypeOK, IdleIsClean, TargetsExist
<1>6. SentIsFulfilled' /\ DeliveredIsFulfilled'
  BY <1>4, <1>5 DEF IInv, TypeOK, ReadCart, SentIsFulfilled, DeliveredIsFulfilled, IsRepeat,
     FulfilledAll, NotYetFulfilled, Wanted, tables, Exists
<1> QED
  BY <1>1, <1>2, <1>3, <1>6 DEF IInv

LEMMA CreateOrderStep ==
    ASSUME IInv, NEW a \in OrderIds, CreateOrder(a)
    PROVE  IInv'
<1> USE ProcsAreApart DEF Procs, Clients, Go
<1>1. TypeOK'
  BY DEF IInv, TypeOK, CreateOrder, tables, StockTypeOK, Steps, OrderStatuses
<1>2. CreatedExist' /\ KeysAreUnique'
  BY DEF IInv, TypeOK, CreateOrder, CreatedExist, KeysAreUnique, Exists, OrdersOfKey
<1>3. OrdersAreReserved' /\ CancelledIsUnreserved'
  BY DEF IInv, TypeOK, CreateOrder, AnswersAreTrue, OrdersAreReserved, CancelledIsUnreserved,
     Exists, Unreserved, tables
<1>4. TargetsExist' /\ IdleIsClean' /\ AnswersAreTrue'
  BY DEF IInv, TypeOK, CreateOrder, tables, TargetsExist, Exists, IdleIsClean, AnswersAreTrue
<1>5. SentIsFulfilled' /\ DeliveredIsFulfilled'
  BY DEF IInv, TypeOK, CreateOrder, SentIsFulfilled, DeliveredIsFulfilled, IsRepeat, FulfilledAll,
     NotYetFulfilled, Wanted, tables
<1> QED
  BY <1>1, <1>2, <1>3, <1>4, <1>5 DEF IInv

LEMMA EditCartStep ==
    ASSUME IInv, EditCart
    PROVE  IInv'
<1>1. TypeOK'
  BY OrdersAssumption DEF IInv, TypeOK, EditCart, tables, StockTypeOK
<1> QED
  BY <1>1 DEF IInv, EditCart, tables, CreatedExist, KeysAreUnique, TargetsExist, IdleIsClean,
     AnswersAreTrue, SentIsFulfilled, OrdersAreReserved, CancelledIsUnreserved,
     DeliveredIsFulfilled, Exists, Unreserved, IsRepeat, FulfilledAll, NotYetFulfilled, Wanted

-----------------------------------------------------------------------------
LEMMA CancelStep ==
    ASSUME IInv, NEW c \in Cancels, NEW o \in OrderIds,
           SendUnreserve(c, o) \/ CancelRefused(c, o) \/ FinishCancel(c)
    PROVE  IInv'
<1> USE ProcsAreApart DEF Procs, Clients, Go
<1>1. TypeOK'
  <2>1. StockTypeOK' /\ UNCHANGED <<cart, edits, key, lines, reply, row, booked>>
    BY DEF IInv, TypeOK, SendUnreserve, CancelRefused, FinishCancel, tables, StockTypeOK
  <2>2. status' \in [OrderIds -> OrderStatuses]
    BY DEF IInv, TypeOK, SendUnreserve, CancelRefused, FinishCancel, OrderStatuses
  <2>3. step' \in [Procs -> Steps]
    BY DEF IInv, TypeOK, SendUnreserve, CancelRefused, FinishCancel, Steps
  <2>4. target' \in [Procs -> OrderIds \cup {NoOrder}] /\ net' \subseteq Clients
    BY DEF IInv, TypeOK, SendUnreserve, CancelRefused, FinishCancel
  <2> QED
    BY <2>1, <2>2, <2>3, <2>4 DEF IInv, TypeOK
<1>2. FinishCancel(c) => target[c] \in OrderIds /\ Exists(target[c])
  BY DEF IInv, TypeOK, FinishCancel, TargetsExist
<1>3. CreatedExist' /\ KeysAreUnique' /\ OrdersAreReserved'
  BY <1>2 DEF IInv, TypeOK, SendUnreserve, CancelRefused, FinishCancel, tables, CreatedExist,
     KeysAreUnique, OrdersAreReserved, Exists
<1>4. CancelledIsUnreserved'
  BY <1>2 DEF IInv, TypeOK, SendUnreserve, CancelRefused, FinishCancel, tables,
     CancelledIsUnreserved, AnswersAreTrue, Unreserved
<1>5. TargetsExist'
  BY <1>2 DEF IInv, TypeOK, SendUnreserve, CancelRefused, FinishCancel, TargetsExist, Exists, Cancelable
<1>6. IdleIsClean' /\ AnswersAreTrue'
  BY DEF IInv, TypeOK, SendUnreserve, CancelRefused, FinishCancel, IdleIsClean, AnswersAreTrue, tables
<1>7. SentIsFulfilled' /\ DeliveredIsFulfilled'
  BY DEF IInv, TypeOK, SendUnreserve, CancelRefused, FinishCancel, SentIsFulfilled,
     DeliveredIsFulfilled, IsRepeat, FulfilledAll, NotYetFulfilled, Wanted, tables
<1> QED
  BY <1>1, <1>3, <1>4, <1>5, <1>6, <1>7 DEF IInv

LEMMA OperateStep ==
    ASSUME IInv, NEW o \in OrderIds, Operate(o)
    PROVE  IInv'
<1>1. TypeOK'
  BY DEF IInv, TypeOK, Operate, tables, StockTypeOK, OrderStatuses
<1>2. CreatedExist' /\ KeysAreUnique' /\ OrdersAreReserved' /\ CancelledIsUnreserved'
  BY DEF IInv, TypeOK, Operate, tables, CreatedExist, KeysAreUnique, OrdersAreReserved,
     CancelledIsUnreserved, Exists, Unreserved
<1>3. TargetsExist' /\ IdleIsClean' /\ AnswersAreTrue'
  BY DEF IInv, TypeOK, Operate, tables, TargetsExist, Exists, IdleIsClean, AnswersAreTrue, Procs, Clients
<1>4. SentIsFulfilled' /\ DeliveredIsFulfilled'
  BY DEF IInv, TypeOK, Operate, SentIsFulfilled, DeliveredIsFulfilled, IsRepeat, FulfilledAll,
     NotYetFulfilled, Wanted, tables
<1> QED
  BY <1>1, <1>2, <1>3, <1>4 DEF IInv

LEMMA DeliveryStep ==
    ASSUME IInv, NEW d \in Deliveries, NEW o \in OrderIds,
           ReadForDelivery(d, o) \/ EnqueueFulfill(d) \/ SetDelivered(d) \/ GiveUp(d)
    PROVE  IInv'
<1> USE ProcsAreApart DEF Procs, Clients, Go
<1>1. TypeOK'
  <2>1. StockTypeOK' /\ UNCHANGED <<cart, edits, key, lines, net, reply, booked>>
    BY DEF IInv, TypeOK, ReadForDelivery, EnqueueFulfill, SetDelivered, GiveUp, tables, StockTypeOK
  <2>2. status' \in [OrderIds -> OrderStatuses]
    BY DEF IInv, TypeOK, ReadForDelivery, EnqueueFulfill, SetDelivered, GiveUp, OrderStatuses
  <2>3. step' \in [Procs -> Steps]
    BY DEF IInv, TypeOK, ReadForDelivery, EnqueueFulfill, SetDelivered, GiveUp, Steps
  <2>4. target' \in [Procs -> OrderIds \cup {NoOrder}]
    BY DEF IInv, TypeOK, ReadForDelivery, EnqueueFulfill, SetDelivered, GiveUp
  <2>5. row' \in [Deliveries -> {"none", "PENDING", "SENT", "FAILED"}]
    BY DEF IInv, TypeOK, ReadForDelivery, EnqueueFulfill, SetDelivered, GiveUp
  <2> QED
    BY <2>1, <2>2, <2>3, <2>4, <2>5 DEF IInv, TypeOK
<1>2. SetDelivered(d) => target[d] \in OrderIds /\ Exists(target[d]) /\ row[d] # "none"
  BY DEF IInv, TypeOK, SetDelivered, TargetsExist, SentIsFulfilled
<1>3. CreatedExist' /\ KeysAreUnique' /\ OrdersAreReserved' /\ CancelledIsUnreserved'
  BY <1>2 DEF IInv, TypeOK, ReadForDelivery, EnqueueFulfill, SetDelivered, GiveUp, tables,
     CreatedExist, KeysAreUnique, OrdersAreReserved, CancelledIsUnreserved, Exists, Unreserved
<1>4. TargetsExist'
  BY <1>2 DEF IInv, TypeOK, ReadForDelivery, EnqueueFulfill, SetDelivered, GiveUp, TargetsExist, Exists
<1>5. IdleIsClean' /\ AnswersAreTrue'
  BY DEF IInv, TypeOK, ReadForDelivery, EnqueueFulfill, SetDelivered, GiveUp, IdleIsClean,
     AnswersAreTrue, TargetsExist, tables
<1>6. SentIsFulfilled'
  BY DEF IInv, TypeOK, ReadForDelivery, EnqueueFulfill, SetDelivered, GiveUp, IdleIsClean,
     SentIsFulfilled, FulfilledAll, NotYetFulfilled, Wanted, tables
<1>7. DeliveredIsFulfilled'
  BY <1>2 DEF IInv, TypeOK, ReadForDelivery, EnqueueFulfill, SetDelivered, GiveUp, IdleIsClean,
     SentIsFulfilled, DeliveredIsFulfilled, IsRepeat, FulfilledAll, NotYetFulfilled, Wanted, tables
<1> QED
  BY <1>1, <1>3, <1>4, <1>5, <1>6, <1>7 DEF IInv

\* CallOf and the dispatched row are calls that B2B understands.
LEMMA CallsAreTyped ==
    ASSUME IInv
    PROVE  /\ \A p \in net : CallOf(p) \in Calls
           /\ \A d \in Deliveries : row[d] # "none" =>
                [op |-> "fulfill", id |-> target[d], items |-> lines[target[d]]] \in Calls
<1> USE ProcsAreApart DEF Procs, Clients
<1>1. \A c \in Cancels : c \in net => target[c] \in OrderIds
  BY DEF IInv, TypeOK, IdleIsClean
<1>2. \A d \in Deliveries : row[d] # "none" => target[d] \in OrderIds
  BY DEF IInv, TypeOK, IdleIsClean
<1>3. net \subseteq OrderIds \cup Cancels
  BY DEF IInv, TypeOK
<1>4. \A p \in OrderIds : CallOf(p) \in Calls
  BY DEF IInv, TypeOK, CallOf, Calls, OrderItems
<1>5. \A p \in Cancels : p \in net => CallOf(p) \in Calls
  BY <1>1 DEF IInv, TypeOK, CallOf, Calls, OrderItems
<1> QED
  BY <1>2, <1>3, <1>4, <1>5 DEF IInv, TypeOK, Calls, OrderItems

\* More ids and more fulfilled items keep what was recorded of them.
LEMMA RecordsGrow ==
    ASSUME IInv, StockTypeOK', UNCHANGED <<lines, status, target, row, step, key>>,
           processed \subseteq processed',
           \A o \in OrderIds, s \in SKUs : fulfilled[o][s] > 0 => fulfilled'[o][s] > 0
    PROVE  /\ CreatedExist' /\ KeysAreUnique' /\ TargetsExist'
           /\ OrdersAreReserved' /\ CancelledIsUnreserved'
           /\ SentIsFulfilled' /\ DeliveredIsFulfilled'
<1>1. CreatedExist' /\ KeysAreUnique' /\ TargetsExist' /\ OrdersAreReserved' /\ CancelledIsUnreserved'
  BY DEF IInv, CreatedExist, KeysAreUnique, TargetsExist, OrdersAreReserved, CancelledIsUnreserved,
     Exists, Unreserved
<1>2. \A o \in OrderIds : FulfilledAll(o) => FulfilledAll(o)'
  BY DEF IInv, TypeOK, StockTypeOK, FulfilledAll, NotYetFulfilled, Wanted
<1>3. \A d \in Deliveries : row[d] # "none" => target[d] \in OrderIds
  BY DEF IInv, TypeOK, IdleIsClean, Procs
<1>4. SentIsFulfilled'
  BY <1>2, <1>3 DEF IInv, SentIsFulfilled
<1>5. \A o \in OrderIds :
        IsRepeat([op |-> "fulfill", id |-> o, items |-> lines[o]]) <=> FulfilledAll(o)
  BY DEF IsRepeat, FulfilledAll
<1>6. \A o \in OrderIds :
        IsRepeat([op |-> "fulfill", id |-> o, items |-> lines[o]])' <=> FulfilledAll(o)'
  BY DEF IsRepeat, FulfilledAll
<1>7. DeliveredIsFulfilled'
  BY <1>2, <1>5, <1>6 DEF IInv, DeliveredIsFulfilled
<1> QED
  BY <1>1, <1>4, <1>7

LEMMA ServeStep ==
    ASSUME IInv, NEW p \in Clients, Serve(p)
    PROVE  IInv'
<1> USE ProcsAreApart DEF Procs, Clients
<1>1. PICK r \in Replies : Answered(p, r)
  BY DEF Serve, ServeEffect, ServeRepeat, ServeConflict, ServeError, Replies
<1>2. CallOf(p) \in Calls /\ p \in net
  BY <1>1, CallsAreTyped DEF Answered
<1>3. /\ StockTypeOK'
      /\ processed \subseteq processed'
      /\ \A o \in OrderIds, s \in SKUs : fulfilled[o][s] > 0 => fulfilled'[o][s] > 0
  <2>1. CASE TakesEffect(CallOf(p))
    BY <1>2, <2>1, EffectIsTyped DEF IInv, TypeOK
  <2>2. CASE UNCHANGED tables
    BY <2>2 DEF IInv, TypeOK, tables, StockTypeOK
  <2> QED
    BY <2>1, <2>2 DEF Serve, ServeEffect, ServeRepeat, ServeConflict, ServeError
<1>4. booked' \in [IdemKeys -> Quantities]
  BY DEF IInv, TypeOK, Serve, ServeEffect, ServeRepeat, ServeConflict, ServeError, OrderItems
<1>5. TypeOK'
  BY <1>1, <1>3, <1>4 DEF IInv, TypeOK, Answered
<1>6. CreatedExist' /\ KeysAreUnique' /\ TargetsExist' /\ OrdersAreReserved' /\ CancelledIsUnreserved'
      /\ SentIsFulfilled' /\ DeliveredIsFulfilled'
  BY <1>1, <1>3, RecordsGrow DEF Answered
<1>7. IdleIsClean'
  BY <1>1 DEF IInv, TypeOK, Answered, IdleIsClean
<1>8. ASSUME reply'[p] = "ok", reply[p] # "ok"
      PROVE  CallOf(p).id \in processed'
  <2>1. ServeEffect(p) \/ ServeRepeat(p)
    BY <1>8 DEF IInv, TypeOK, Serve, ServeConflict, ServeError, Answered
  <2>2. CallOf(p).op \in {"reserve", "unreserve"}
    BY DEF CallOf
  <2>3. CASE ServeEffect(p)
    BY <2>2, <2>3 DEF ServeEffect, TakesEffect, ReserveEffect, UnreserveEffect
  <2>4. CASE ServeRepeat(p)
    BY <2>2, <2>4 DEF ServeRepeat, IsRepeat, KeyFresh, tables
  <2> QED
    BY <2>1, <2>3, <2>4
<1>9. AnswersAreTrue'
  <2>1. \A q \in Clients : q # p => reply'[q] = reply[q]
    BY <1>1 DEF IInv, TypeOK, Answered
  <2>2. UNCHANGED <<key, target>>
    BY <1>1 DEF Answered
  <2>3. p \in OrderIds => CallOf(p).id = key[p]
    BY DEF CallOf
  <2>4. p \in Cancels => CallOf(p).id = target[p]
    BY DEF CallOf
  <2> QED
    BY <1>3, <1>8, <2>1, <2>2, <2>3, <2>4 DEF IInv, AnswersAreTrue
<1> QED
  BY <1>5, <1>6, <1>7, <1>9 DEF IInv

LEMMA DispatchStep ==
    ASSUME IInv, NEW d \in Deliveries, Dispatch(d)
    PROVE  IInv'
<1> USE ProcsAreApart DEF Procs, Clients
<1> DEFINE c == [op |-> "fulfill", id |-> target[d], items |-> lines[target[d]]]
<1>1. c \in Calls /\ row[d] = "PENDING" /\ target[d] \in OrderIds /\ lines[target[d]] \in Quantities
  <2>1. row[d] = "PENDING"
    BY DEF Dispatch
  <2>2. target[d] \in OrderIds
    BY <2>1 DEF IInv, TypeOK, IdleIsClean
  <2> QED
    BY <2>1, <2>2, CallsAreTyped DEF IInv, TypeOK, OrderItems
<1>2. TakesEffect(c) \/ (IsRepeat(c) /\ UNCHANGED tables)
  BY DEF Dispatch
<1>3. /\ StockTypeOK'
      /\ processed \subseteq processed'
      /\ \A o \in OrderIds, s \in SKUs : fulfilled[o][s] > 0 => fulfilled'[o][s] > 0
  <2>1. CASE TakesEffect(c)
    BY <1>1, <2>1, EffectIsTyped DEF IInv, TypeOK
  <2>2. CASE UNCHANGED tables
    BY <2>2 DEF IInv, TypeOK, tables, StockTypeOK
  <2> QED
    BY <1>2, <2>1, <2>2
<1>4. FulfilledAll(target[d])'
  <2>1. CASE TakesEffect(c)
    <3>1. FulfillEffect(target[d], lines[target[d]])
      BY <2>1 DEF TakesEffect
    <3>2. (NotYetFulfilled(target[d], lines[target[d]]) = {})'
      <4>1. target'[d] = target[d] /\ lines' = lines
        BY DEF Dispatch
      <4> QED
        BY <1>1, <3>1, <4>1, FulfillCompletes DEF IInv, TypeOK, NotYetFulfilled, Wanted
    <3> QED
      BY <3>2 DEF FulfilledAll
  <2>2. CASE IsRepeat(c) /\ UNCHANGED tables
    BY <2>2 DEF IsRepeat, FulfilledAll, NotYetFulfilled, Wanted, tables, Dispatch
  <2> QED
    BY <1>2, <2>1, <2>2
<1>5. UNCHANGED <<cart, edits, key, lines, status, step, target, net, reply>>
  BY DEF Dispatch
<1>6. PICK m \in {"PENDING", "SENT"} : row' = [row EXCEPT ![d] = m]
  BY DEF Dispatch
<1>7. booked' = booked
  BY DEF Dispatch
<1>8. TypeOK'
  BY <1>3, <1>5, <1>6, <1>7 DEF IInv, TypeOK
<1>9. CreatedExist' /\ KeysAreUnique' /\ TargetsExist' /\ OrdersAreReserved' /\ CancelledIsUnreserved'
  BY <1>3, <1>5 DEF IInv, CreatedExist, KeysAreUnique, TargetsExist, OrdersAreReserved,
     CancelledIsUnreserved, Exists, Unreserved
<1>10. IdleIsClean' /\ AnswersAreTrue'
  BY <1>1, <1>3, <1>5, <1>6 DEF IInv, TypeOK, IdleIsClean, AnswersAreTrue
<1>11. \A o \in OrderIds : FulfilledAll(o) => FulfilledAll(o)'
  BY <1>3, <1>5 DEF IInv, TypeOK, StockTypeOK, FulfilledAll, NotYetFulfilled, Wanted
<1>12. \A e \in Deliveries : row[e] # "none" => target[e] \in OrderIds
  BY DEF IInv, TypeOK, IdleIsClean
<1>13. SentIsFulfilled'
  BY <1>1, <1>4, <1>5, <1>6, <1>11, <1>12 DEF IInv, TypeOK, SentIsFulfilled
<1>14. DeliveredIsFulfilled'
  <2>1. SUFFICES ASSUME NEW o \in OrderIds, status[o] = "DELIVERED",
                        ~FulfilledAll(o)'
                 PROVE  \E e \in Deliveries : target[e] = o /\ row'[e] \in {"PENDING", "FAILED"}
    BY <1>5 DEF DeliveredIsFulfilled, IsRepeat, FulfilledAll
  <2>2. PICK e \in Deliveries : target[e] = o /\ row[e] \in {"PENDING", "FAILED"}
    BY <1>11, <2>1 DEF IInv, DeliveredIsFulfilled, IsRepeat, FulfilledAll
  <2>3. e # d
    BY <1>4, <1>5, <2>1, <2>2
  <2> QED
    BY <1>6, <2>2, <2>3 DEF IInv, TypeOK
<1> QED
  BY <1>8, <1>9, <1>10, <1>13, <1>14 DEF IInv

LEMMA CrashStep ==
    ASSUME IInv, NEW p \in Procs, Crash(p)
    PROVE  IInv'
<1> USE ProcsAreApart DEF Procs, Clients, Go
<1>1. TypeOK'
  BY DEF IInv, TypeOK, Crash, tables, StockTypeOK, Steps
<1>2. CreatedExist' /\ KeysAreUnique' /\ OrdersAreReserved' /\ CancelledIsUnreserved'
  BY DEF IInv, TypeOK, Crash, tables, CreatedExist, KeysAreUnique, OrdersAreReserved,
     CancelledIsUnreserved, Exists, Unreserved
<1>3. TargetsExist' /\ IdleIsClean' /\ AnswersAreTrue'
  BY DEF IInv, TypeOK, Crash, tables, TargetsExist, Exists, IdleIsClean, AnswersAreTrue
<1>4. SentIsFulfilled' /\ DeliveredIsFulfilled'
  BY DEF IInv, TypeOK, Crash, SentIsFulfilled, DeliveredIsFulfilled, IsRepeat, FulfilledAll,
     NotYetFulfilled, Wanted, tables
<1> QED
  BY <1>1, <1>2, <1>3, <1>4 DEF IInv

LEMMA NextKeeps == IInv /\ [Next]_vars => IInv'
<1> SUFFICES ASSUME IInv, [Next]_vars PROVE IInv'
  OBVIOUS
<1>1. CASE UNCHANGED vars
  BY <1>1 DEF vars, b2c, tables, IInv, TypeOK, StockTypeOK, CreatedExist, KeysAreUnique, TargetsExist,
     IdleIsClean, AnswersAreTrue, SentIsFulfilled, OrdersAreReserved, CancelledIsUnreserved,
     DeliveredIsFulfilled, Exists, Unreserved, IsRepeat, FulfilledAll, NotYetFulfilled, Wanted
<1>2. ASSUME NEW a \in OrderIds, Checkout(a) \/ Operate(a) PROVE IInv'
  BY <1>2, CheckoutStep, ReadCartStep, CreateOrderStep, OperateStep DEF Checkout
<1>3. ASSUME NEW c \in Cancels,
             FinishCancel(c) \/ \E o \in OrderIds : SendUnreserve(c, o) \/ CancelRefused(c, o)
      PROVE  IInv'
  <2>1. CASE FinishCancel(c)
    <3>1. target[c] \in OrderIds
      BY <2>1 DEF FinishCancel, IInv, TypeOK, TargetsExist, Procs, Clients
    <3> QED
      BY <2>1, <3>1, CancelStep
  <2> QED
    BY <1>3, <2>1, CancelStep
<1>4. ASSUME NEW d \in Deliveries,
             EnqueueFulfill(d) \/ SetDelivered(d) \/ Dispatch(d) \/ GiveUp(d)
                \/ \E o \in OrderIds : ReadForDelivery(d, o)
      PROVE  IInv'
  <2>1. CASE EnqueueFulfill(d) \/ SetDelivered(d) \/ GiveUp(d)
    <3>1. target[d] \in OrderIds
      BY <2>1 DEF EnqueueFulfill, SetDelivered, GiveUp, IInv, TypeOK, TargetsExist, IdleIsClean,
         Procs, Clients
    <3> QED
      BY <2>1, <3>1, DeliveryStep
  <2> QED
    BY <1>4, <2>1, DeliveryStep, DispatchStep
<1> QED
  BY <1>1, <1>2, <1>3, <1>4, ServeStep, CrashStep, EditCartStep DEF Next

THEOREM Invariance == Spec => []IInv
  BY InitIInv, NextKeeps, PTL DEF Spec

\* Every variable of B2C and of the stock keeps its type.
THEOREM TypeCorrect == Spec => []TypeOK
<1>1. IInv => TypeOK
  BY DEF IInv
<1> QED
  BY <1>1, Invariance, PTL

\* create_order.py: all checkouts of one key answer with one order, which one of
\* them created.
THEOREM KeysHaveOneOrder == Spec => []OneOrderPerKey
<1>1. IInv => OneOrderPerKey
  <2> SUFFICES ASSUME IInv, NEW a \in OrderIds, NEW b \in OrderIds, key[a] = key[b],
                      target[a] # NoOrder, target[b] # NoOrder
               PROVE  /\ target[a] = target[b]
                      /\ step[a] = "created" /\ step[b] = "created" => a = b
                      /\ step[target[a]] = "created"
    BY DEF OneOrderPerKey
  <2>1. target[a] \in OrderIds /\ target[b] \in OrderIds
    BY DEF IInv, TypeOK, Procs, Clients
  <2>2. /\ Exists(target[a]) /\ key[target[a]] = key[a]
        /\ Exists(target[b]) /\ key[target[b]] = key[b]
    BY DEF IInv, TargetsExist, Procs, Clients
  <2> QED
    BY <2>1, <2>2 DEF IInv, KeysAreUnique, CreatedExist
<1> QED
  BY <1>1, Invariance, PTL

\* create_order.py: no order without a reserve under its key, whatever is lost,
\* late or repeated.
THEOREM OrdersHaveReserves == Spec => []OrdersAreReserved
<1>1. IInv => OrdersAreReserved
  BY DEF IInv
<1> QED
  BY <1>1, Invariance, PTL

\* cancel_order.py: CANCELLED is written after B2B took the stock back.
THEOREM CancelledGaveBack == Spec => []CancelledIsUnreserved
<1>1. IInv => CancelledIsUnreserved
  BY DEF IInv
<1> QED
  BY <1>1, Invariance, PTL

\* mark_delivered.py: DELIVERED is written after the row that fulfills the order.
THEOREM DeliveredHaveRows == Spec => []DeliveredIsFulfilled
<1>1. IInv => DeliveredIsFulfilled
  BY DEF IInv
<1> QED
  BY <1>1, Invariance, PTL

-----------------------------------------------------------------------------
(* Stock reserved for nobody. *)

\* A call is under way only of a client that waits, gave up or died, and has no answer.
CallsArePending ==
    \A a \in OrderIds :
        /\ a \in net => reply[a] = "none" /\ step[a] \in {"waiting", "unavailable", "crashed"}
        /\ step[a] \in {"idle", "looked", "carted"} => reply[a] = "none" /\ a \notin net

\* Of what is booked, the checkout is still to answer, or could not, or has its order.
BookersRemain ==
    \A k \in IdemKeys : booked[k] # Nothing =>
        \/ OrdersOfKey(k) # {}
        \/ \E a \in OrderIds :
              /\ key[a] = k
              /\ \/ step[a] = "waiting" /\ reply[a] = "ok"
                 \/ step[a] \in {"unavailable", "crashed"}

JInv == IInv /\ CallsArePending /\ BookersRemain

LEMMA InitJInv == Init => JInv
  BY InitIInv DEF Init, JInv, CallsArePending, BookersRemain, Procs, Clients

\* Orders stay, and no answer of a waiting client is lost.
LEMMA QuietStepKeepsJInv ==
    ASSUME JInv, IInv', UNCHANGED <<key, booked>>,
           \A a \in OrderIds : status[a] # "none" => status'[a] # "none",
           CallsArePending',
           \A a \in OrderIds :
              \/ step'[a] = step[a] /\ reply'[a] = reply[a]
              \/ step'[a] \in {"unavailable", "crashed"}
              \/ step[a] \notin {"waiting", "unavailable", "crashed"}
              \/ \E o \in OrderIds : status'[o] # "none" /\ key[o] = key[a]
              \/ step[a] = "waiting" /\ reply[a] # "ok"
    PROVE  JInv'
<1>1. \A k \in IdemKeys : OrdersOfKey(k) # {} => OrdersOfKey(k)' # {}
  BY DEF OrdersOfKey, Exists
<1>2. \A a \in OrderIds :
        (\E o \in OrderIds : status'[o] # "none" /\ key[o] = key[a]) => OrdersOfKey(key[a])' # {}
  BY DEF OrdersOfKey, Exists
<1>3. ASSUME NEW k \in IdemKeys, booked'[k] # Nothing, OrdersOfKey(k)' = {}
      PROVE  \E a \in OrderIds :
                /\ key'[a] = k
                /\ \/ step'[a] = "waiting" /\ reply'[a] = "ok"
                   \/ step'[a] \in {"unavailable", "crashed"}
  <2>1. PICK a \in OrderIds :
            /\ key[a] = k
            /\ \/ step[a] = "waiting" /\ reply[a] = "ok"
               \/ step[a] \in {"unavailable", "crashed"}
    BY <1>1, <1>3 DEF JInv, BookersRemain
  <2>2. OrdersOfKey(key[a])' = {}
    BY <1>3, <2>1 DEF OrdersOfKey, Exists
  <2>3. ~\E o \in OrderIds : status'[o] # "none" /\ key[o] = key[a]
    BY <2>2 DEF OrdersOfKey, Exists
  <2> QED
    BY <2>1, <2>3
<1>4. BookersRemain'
  BY <1>3 DEF BookersRemain
<1> QED
  BY <1>4 DEF JInv

LEMMA NextKeepsJInv == JInv /\ [Next]_vars => JInv'
<1> SUFFICES ASSUME JInv, [Next]_vars PROVE JInv'
  OBVIOUS
<1> USE ProcsAreApart DEF Procs, Clients, Go
<1>0. IInv /\ IInv'
  BY NextKeeps DEF JInv
<1>1. CASE UNCHANGED vars
  BY <1>0, <1>1 DEF vars, b2c, JInv, CallsArePending, BookersRemain, OrdersOfKey, Exists
<1>2. ASSUME NEW a \in OrderIds, Checkout(a) \/ Operate(a) PROVE JInv'
  <2>1. UNCHANGED <<key, booked>>
    BY <1>2 DEF Checkout, LookUpKey, ReadCart, Refuse, SendReserve, CreateOrder, RereadOrder,
       ReserveFailed, CheckoutTimeout, Operate
  <2>2. \A b \in OrderIds : status[b] # "none" => status'[b] # "none"
    BY <1>0, <1>2 DEF IInv, TypeOK, Exists, Checkout, LookUpKey, ReadCart, Refuse, SendReserve,
       CreateOrder, RereadOrder, ReserveFailed, CheckoutTimeout, Operate
  <2>3. CallsArePending'
    BY <1>0, <1>2 DEF IInv, TypeOK, JInv, CallsArePending, Checkout, LookUpKey, ReadCart, Refuse,
       SendReserve, CreateOrder, RereadOrder, ReserveFailed, CheckoutTimeout, Operate
  <2>4. UNCHANGED reply
    BY <1>2 DEF Checkout, LookUpKey, ReadCart, Refuse, SendReserve, CreateOrder, RereadOrder,
       ReserveFailed, CheckoutTimeout, Operate
  <2>5. \A b \in OrderIds : b # a => step'[b] = step[b]
    BY <1>0, <1>2 DEF IInv, TypeOK, Checkout, LookUpKey, ReadCart, Refuse, SendReserve, CreateOrder,
       RereadOrder, ReserveFailed, CheckoutTimeout, Operate
  <2>6. CASE CreateOrder(a)
    <3>1. status'[a] # "none"
      BY <1>0, <2>6 DEF IInv, TypeOK, CreateOrder
    <3> QED
      BY <1>0, <2>1, <2>2, <2>3, <2>4, <2>5, <3>1, QuietStepKeepsJInv
  <2>7. CASE RereadOrder(a)
    <3>1. \E o \in OrderIds : status'[o] # "none" /\ key[o] = key[a]
      BY <1>0, <2>7 DEF IInv, TypeOK, RereadOrder, OrdersOfKey, Exists
    <3> QED
      BY <1>0, <2>1, <2>2, <2>3, <2>4, <2>5, <3>1, QuietStepKeepsJInv
  <2>8. CASE ~CreateOrder(a) /\ ~RereadOrder(a)
    <3>1. \/ step'[a] = step[a]
          \/ step'[a] = "unavailable"
          \/ step[a] \notin {"waiting", "unavailable", "crashed"}
          \/ step[a] = "waiting" /\ reply[a] # "ok"
      BY <1>0, <1>2, <2>8 DEF IInv, TypeOK, Checkout, LookUpKey, ReadCart, Refuse, SendReserve,
         ReserveFailed, CheckoutTimeout, Operate
    <3> QED
      BY <1>0, <2>1, <2>2, <2>3, <2>4, <2>5, <3>1, QuietStepKeepsJInv
  <2> QED
    BY <2>6, <2>7, <2>8
<1>3. ASSUME NEW c \in Cancels,
             FinishCancel(c) \/ \E o \in OrderIds : SendUnreserve(c, o) \/ CancelRefused(c, o)
      PROVE  JInv'
  <2>1. UNCHANGED <<key, booked, reply>>
    BY <1>3 DEF FinishCancel, SendUnreserve, CancelRefused
  <2>2. \A b \in OrderIds : step'[b] = step[b] /\ (b \in net' <=> b \in net)
    BY <1>0, <1>3 DEF IInv, TypeOK, FinishCancel, SendUnreserve, CancelRefused
  <2>3. \A b \in OrderIds : status[b] # "none" => status'[b] # "none"
    BY <1>0, <1>3 DEF IInv, TypeOK, Exists, FinishCancel, SendUnreserve, CancelRefused
  <2>4. CallsArePending'
    BY <2>1, <2>2 DEF JInv, CallsArePending
  <2> QED
    BY <1>0, <2>1, <2>2, <2>3, <2>4, QuietStepKeepsJInv
<1>4. ASSUME NEW d \in Deliveries,
             EnqueueFulfill(d) \/ SetDelivered(d) \/ Dispatch(d) \/ GiveUp(d)
                \/ \E o \in OrderIds : ReadForDelivery(d, o)
      PROVE  JInv'
  <2>1. UNCHANGED <<key, booked, reply, net>>
    BY <1>4 DEF EnqueueFulfill, SetDelivered, Dispatch, GiveUp, ReadForDelivery
  <2>2. \A b \in OrderIds : step'[b] = step[b]
    BY <1>0, <1>4 DEF IInv, TypeOK, EnqueueFulfill, SetDelivered, Dispatch, GiveUp, ReadForDelivery
  <2>3. \A b \in OrderIds : status[b] # "none" => status'[b] # "none"
    BY <1>0, <1>4 DEF IInv, TypeOK, Exists, EnqueueFulfill, SetDelivered, Dispatch, GiveUp, ReadForDelivery
  <2>4. CallsArePending'
    BY <2>1, <2>2 DEF JInv, CallsArePending
  <2> QED
    BY <1>0, <2>1, <2>2, <2>3, <2>4, QuietStepKeepsJInv
<1>5. ASSUME NEW p \in Clients, Serve(p) PROVE JInv'
  <2>1. PICK r \in Replies : Answered(p, r)
    BY <1>5 DEF Serve, ServeEffect, ServeRepeat, ServeConflict, ServeError, Replies
  <2>2. UNCHANGED <<key, status, step>>
    BY <2>1 DEF Answered
  <2>3. CallsArePending'
    BY <1>0, <2>1 DEF IInv, TypeOK, JInv, CallsArePending, Answered
  <2>4. \A b \in OrderIds : b # p => reply'[b] = reply[b]
    BY <1>0, <2>1 DEF IInv, TypeOK, Answered
  <2>5. p \in OrderIds => reply[p] = "none" /\ step[p] \in {"waiting", "unavailable", "crashed"}
    BY <2>1 DEF Answered, JInv, CallsArePending
  <2>6. \A k \in IdemKeys : OrdersOfKey(k)' = OrdersOfKey(k)
    BY <2>2 DEF OrdersOfKey, Exists
  <2>7. CASE ServeEffect(p) /\ p \in OrderIds
    <3>1. booked' = [booked EXCEPT ![key[p]] = lines[p]]
      BY <2>7 DEF ServeEffect
    <3>2. step[p] = "waiting" => reply'[p] = "ok"
      BY <1>0, <2>7 DEF IInv, TypeOK, ServeEffect, Answered
    <3>3. \A k \in IdemKeys : k # key[p] => booked'[k] = booked[k]
      BY <1>0, <3>1 DEF IInv, TypeOK
    <3>4. ASSUME NEW k \in IdemKeys, booked'[k] # Nothing, OrdersOfKey(k)' = {}
          PROVE  \E a \in OrderIds :
                    /\ key'[a] = k
                    /\ \/ step'[a] = "waiting" /\ reply'[a] = "ok"
                       \/ step'[a] \in {"unavailable", "crashed"}
      <4>1. CASE k = key[p]
        BY <2>2, <2>5, <2>7, <3>2, <4>1
      <4>2. CASE k # key[p]
        <5>1. PICK a \in OrderIds :
                /\ key[a] = k
                /\ \/ step[a] = "waiting" /\ reply[a] = "ok"
                   \/ step[a] \in {"unavailable", "crashed"}
          BY <2>6, <3>3, <3>4, <4>2 DEF JInv, BookersRemain
        <5> QED
          BY <2>2, <2>4, <4>2, <5>1
      <4> QED
        BY <4>1, <4>2
    <3>5. BookersRemain'
      BY <3>4 DEF BookersRemain
    <3> QED
      BY <1>0, <2>3, <3>5 DEF JInv
  <2>8. CASE ~(ServeEffect(p) /\ p \in OrderIds)
    <3>1. booked' = booked
      BY <1>5, <2>8 DEF Serve, ServeEffect, ServeRepeat, ServeConflict, ServeError
    <3>2. BookersRemain'
      BY <2>2, <2>4, <2>5, <2>6, <3>1 DEF JInv, BookersRemain
    <3> QED
      BY <1>0, <2>3, <3>2 DEF JInv
  <2> QED
    BY <2>7, <2>8
<1>6. ASSUME NEW p \in Procs, Crash(p) PROVE JInv'
  <2>1. UNCHANGED <<key, booked, reply, net, status>>
    BY <1>6 DEF Crash
  <2>2. \A b \in OrderIds : step'[b] = step[b] \/ step'[b] = "crashed"
    BY <1>0, <1>6 DEF IInv, TypeOK, Crash
  <2>3. CallsArePending'
    BY <2>1, <2>2, <1>6, <1>0 DEF IInv, TypeOK, JInv, CallsArePending, Crash
  <2> QED
    BY <1>0, <2>1, <2>2, <2>3, QuietStepKeepsJInv
<1>7. CASE EditCart
  <2>1. UNCHANGED <<key, booked, reply, net, status, step>>
    BY <1>7 DEF EditCart
  <2>2. CallsArePending'
    BY <2>1 DEF JInv, CallsArePending
  <2> QED
    BY <1>0, <2>1, <2>2, QuietStepKeepsJInv
<1> QED
  BY <1>1, <1>2, <1>3, <1>4, <1>5, <1>6, <1>7 DEF Next

\* create_order.py: stock stays reserved without an order only behind a checkout
\* that died or was answered 503; 422 and 409 leave nothing reserved.
THEOREM OrphansAreExplained == Spec => []OrphanReserveExplained
<1>1. JInv => OrphanReserveExplained
  BY DEF JInv, BookersRemain, OrphanReserveExplained
<1> QED
  BY <1>1, InitJInv, NextKeepsJInv, PTL DEF Spec

-----------------------------------------------------------------------------
(* What the stock has reserved, and for whom. *)

\* How much of SKU s order o has given back, by a cancellation or a delivery.
Given(o, s) == (IF o \in processed THEN lines[o][s] ELSE 0) + fulfilled[o][s]

\* The order of a key, and what it has given back; 0 while there is none.
OrderOf(k) == CHOOSE o \in OrdersOfKey(k) : TRUE
Taken(k, s) == IF OrdersOfKey(k) = {} THEN 0 ELSE Given(OrderOf(k), s)

\* What was booked under each key less what its order has given back.
Balance(s) == [k \in IdemKeys |-> booked[k][s] - Taken(k, s)]

BooksAgree == \A s \in SKUs : reserved[s] = SumOver(Balance(s), IdemKeys)

\* Only an order that exists gives back, and each line once or not at all.
OrdersGive ==
    /\ \A o \in OrderIds : o \in processed => Exists(o)
    /\ \A o \in OrderIds, s \in SKUs :
          fulfilled[o][s] # 0 => Exists(o) /\ fulfilled[o][s] = lines[o][s]
    /\ \A k \in IdemKeys : k \notin processed => booked[k] = Nothing
    /\ rows = SKUs

KInv == IInv /\ OrdersGive /\ BooksAgree

LEMMA QuantitiesAreNatural == \A q \in Quantities, s \in SKUs : q[s] \in Nat
  BY StockAssumption DEF Quantities

LEMMA OrderOfKey ==
    ASSUME NEW k, OrdersOfKey(k) # {}
    PROVE  OrderOf(k) \in OrdersOfKey(k)
  BY Zenon DEF OrderOf

LEMMA BalanceType ==
    ASSUME TypeOK, NEW s \in SKUs, NEW k \in IdemKeys
    PROVE  Balance(s)[k] \in Int /\ booked[k][s] \in Nat /\ Taken(k, s) \in Nat
<1>1. \A o \in OrderIds : Given(o, s) \in Nat
  BY QuantitiesAreNatural DEF TypeOK, StockTypeOK, OrderItems, Given
<1>2. booked[k][s] \in Nat
  BY QuantitiesAreNatural DEF TypeOK
<1>3. Taken(k, s) \in Nat
  BY <1>1, OrderOfKey DEF Taken, OrdersOfKey
<1> QED
  BY <1>2, <1>3 DEF Balance

\* The sum follows the one summand that a step changes.
LEMMA BooksFollow ==
    ASSUME KInv, TypeOK', NEW s \in SKUs, NEW k \in IdemKeys, NEW n \in Int,
           reserved'[s] = reserved[s] + n,
           Balance(s)'[k] = Balance(s)[k] + n,
           \A j \in IdemKeys : j # k => Balance(s)'[j] = Balance(s)[j]
    PROVE  reserved'[s] = SumOver(Balance(s)', IdemKeys)
<1> DEFINE g == Balance(s)
           h == Balance(s)'
<1>1. \A j \in IdemKeys : g[j] \in Int
  BY BalanceType DEF KInv, IInv
<1>2. \A j \in IdemKeys : h[j] \in Int
  <2>1. \A j \in IdemKeys : j # k => h[j] \in Int
    BY <1>1
  <2>2. h[k] \in Int
    BY <1>1
  <2> QED
    BY <2>1, <2>2
<1>3. reserved[s] = SumOver(g, IdemKeys)
  BY DEF KInv, BooksAgree
<1>4. \A j \in IdemKeys \ {k} : h[j] = g[j]
  OBVIOUS
<1>5. h[k] = g[k] + n
  OBVIOUS
<1>6. IsFiniteSet(IdemKeys)
  BY OrdersAssumption
<1> HIDE DEF g, h
<1>7. SumOver(h, IdemKeys) = SumOver(g, IdemKeys) + h[k] - g[k]
  BY <1>1, <1>2, <1>4, <1>6, SumChange
<1>8. SumOver(g, IdemKeys) \in Int
  BY <1>1, <1>6, SumType
<1> QED
  BY <1>1, <1>3, <1>5, <1>7, <1>8 DEF h

\* A step that leaves the stock alone and the lines of every order.
LEMMA QuietStepKeepsBooks ==
    ASSUME KInv, IInv', UNCHANGED <<tables, booked, key>>,
           \A o \in OrderIds : Exists(o) => Exists(o)' /\ lines'[o] = lines[o]
    PROVE  KInv'
<1>1. UNCHANGED <<rows, reserved, processed, fulfilled>>
  BY DEF tables
<1>2. OrdersGive'
  BY <1>1 DEF KInv, OrdersGive
<1>3. ASSUME NEW k \in IdemKeys, NEW s \in SKUs PROVE Taken(k, s)' = Taken(k, s)
  <2>1. CASE OrdersOfKey(k) # {}
    <3>1. PICK o \in OrdersOfKey(k) : o = OrderOf(k)
      BY <2>1, OrderOfKey
    <3>2. o \in OrderIds /\ Exists(o)' /\ key'[o] = k /\ lines'[o] = lines[o]
      BY <3>1 DEF OrdersOfKey
    <3>3. OrdersOfKey(k)' = {o}
      BY <3>2 DEF IInv, KeysAreUnique, OrdersOfKey
    <3>4. OrderOf(k)' = o
      BY <3>3 DEF OrderOf
    <3>5. Taken(k, s) = Given(o, s)
      BY <2>1, <3>1 DEF Taken
    <3>6. Taken(k, s)' = (IF o \in processed' THEN lines'[o][s] ELSE 0) + fulfilled'[o][s]
      BY <3>3, <3>4 DEF Taken, Given
    <3> QED
      BY <1>1, <3>2, <3>5, <3>6 DEF Given
  <2>2. CASE OrdersOfKey(k) = {} /\ OrdersOfKey(k)' = {}
    BY <2>2 DEF Taken
  <2>3. CASE OrdersOfKey(k) = {} /\ OrdersOfKey(k)' # {}
    <3>1. PICK o \in OrdersOfKey(k)' : o = OrderOf(k)'
      BY <2>3, Zenon DEF OrderOf
    <3>2. o \in OrderIds /\ ~Exists(o)
      BY <2>3, <3>1 DEF OrdersOfKey
    <3>3. Taken(k, s)' = (IF o \in processed' THEN lines'[o][s] ELSE 0) + fulfilled'[o][s]
      BY <2>3, <3>1 DEF Taken, Given
    <3>4. o \notin processed' /\ fulfilled'[o][s] = 0
      BY <1>1, <3>2 DEF KInv, OrdersGive
    <3> QED
      BY <2>3, <3>3, <3>4 DEF Taken
  <2> QED
    BY <2>1, <2>2, <2>3
<1>4. ASSUME NEW s \in SKUs PROVE Balance(s)' = Balance(s)
  BY <1>3 DEF Balance
<1>5. BooksAgree'
  BY <1>1, <1>4 DEF KInv, BooksAgree
<1> QED
  BY <1>2, <1>5 DEF KInv

\* B2B serves a call of order o: nothing of B2C changes but what is booked.
LEMMA OrdersStand ==
    ASSUME UNCHANGED <<key, status, lines>>
    PROVE  \A k : OrdersOfKey(k)' = OrdersOfKey(k) /\ OrderOf(k)' = OrderOf(k)
<1>1. \A k : OrdersOfKey(k)' = OrdersOfKey(k)
  BY DEF OrdersOfKey, Exists
<1> QED
  BY <1>1 DEF OrderOf

\* Order o gives back n of SKU s.
LEMMA GivingBack ==
    ASSUME KInv, TypeOK', UNCHANGED <<key, status, lines, booked>>,
           NEW o \in OrderIds, Exists(o), NEW s \in SKUs, NEW n \in Int,
           reserved'[s] = reserved[s] - n,
           Given(o, s)' = Given(o, s) + n,
           \A b \in OrderIds : b # o => Given(b, s)' = Given(b, s)
    PROVE  reserved'[s] = SumOver(Balance(s)', IdemKeys)
<1> PICK k \in IdemKeys : k = key[o]
  BY DEF KInv, IInv, TypeOK
<1>1. o \in OrdersOfKey(k) /\ key'[o] = k
  BY DEF OrdersOfKey
<1>2. OrdersOfKey(k) = {o}
  BY <1>1 DEF KInv, IInv, KeysAreUnique, OrdersOfKey
<1>3. Taken(k, s) = Given(o, s) /\ Taken(k, s)' = Given(o, s)'
  <2>1. OrderOf(k) = o
    BY <1>2 DEF OrderOf
  <2> QED
    BY <1>2, <2>1, OrdersStand DEF Taken, Given
<1>4. ASSUME NEW j \in IdemKeys, j # k PROVE Taken(j, s)' = Taken(j, s)
  <2>1. CASE OrdersOfKey(j) = {}
    BY <2>1, OrdersStand DEF Taken
  <2>2. CASE OrdersOfKey(j) # {}
    <3>1. PICK b \in OrdersOfKey(j) : b = OrderOf(j)
      BY <2>2, OrderOfKey
    <3>2. b \in OrderIds /\ b # o
      BY <1>1, <1>4, <3>1 DEF OrdersOfKey
    <3>3. Taken(j, s) = Given(b, s) /\ Taken(j, s)' = Given(b, s)'
      BY <2>2, <3>1, OrdersStand DEF Taken, Given
    <3> QED
      BY <3>2, <3>3
  <2> QED
    BY <2>1, <2>2
<1>5. ASSUME NEW j \in IdemKeys, j # k PROVE Balance(s)'[j] = Balance(s)[j]
  BY <1>4, <1>5 DEF Balance
<1>6. Balance(s)'[k] = Balance(s)[k] + (0 - n)
  <2>1. Balance(s)[k] = booked[k][s] - Given(o, s)
    BY <1>1, <1>3 DEF Balance
  <2>2. Balance(s)'[k] = booked[k][s] - (Given(o, s) + n)
    BY <1>1, <1>3 DEF Balance
  <2>3. booked[k][s] \in Nat /\ Given(o, s) \in Nat
    BY <1>1, <1>3, BalanceType DEF KInv, IInv
  <2> QED
    BY <2>1, <2>2, <2>3
<1>7. reserved'[s] = reserved[s] + (0 - n) /\ 0 - n \in Int
  BY DEF KInv, IInv, TypeOK, StockTypeOK
<1> QED
  BY <1>1, <1>5, <1>6, <1>7, BooksFollow

\* What Move does to reserved_quantity, while every SKU has its row.
LEMMA MoveReserves ==
    ASSUME rows = SKUs, NEW S, NEW items \in Quantities, NEW i, NEW j \in {-1, 1},
           Move(S, items, i, j), NEW s \in SKUs
    PROVE  reserved'[s] = IF s \in S THEN reserved[s] + j * items[s] ELSE reserved[s]
<1>1. s \in S \cap rows <=> s \in S
  OBVIOUS
<1>2. reserved'[s] = IF s \in S \cap rows THEN reserved[s] + j * items[s] ELSE reserved[s]
  BY Zenon DEF Move
<1> QED
  BY <1>1, <1>2

\* A reserve books what it moves.
LEMMA ReserveKeepsBooks ==
    ASSUME KInv, IInv', NEW a \in OrderIds, UNCHANGED <<key, status, lines>>,
           ReserveEffect(key[a], lines[a]), booked' = [booked EXCEPT ![key[a]] = lines[a]]
    PROVE  KInv'
<1> PICK k \in IdemKeys : k = key[a]
  BY DEF KInv, IInv, TypeOK
<1>1. k \in IdemKeys /\ lines[a] \in Quantities /\ TypeOK /\ StockTypeOK /\ TypeOK'
  BY DEF KInv, IInv, TypeOK, OrderItems
<1>2. k \notin processed /\ processed' = processed \cup {k} /\ UNCHANGED <<rows, fulfilled>>
  BY DEF ReserveEffect, KeyFresh
<1>3. booked[k] = Nothing /\ booked' = [booked EXCEPT ![k] = lines[a]]
  BY <1>1, <1>2 DEF KInv, OrdersGive
<1>4. OrdersOfKey(k) = {}
  BY <1>2 DEF KInv, IInv, OrdersAreReserved, OrdersOfKey
<1>5. k \notin OrderIds
  BY <1>1, StockAssumption
<1>6. OrdersGive'
  BY <1>1, <1>2, <1>3, <1>5 DEF KInv, OrdersGive, Exists, TypeOK
<1>7. ASSUME NEW s \in SKUs, NEW j \in IdemKeys PROVE Taken(j, s)' = Taken(j, s)
  <2>1. CASE OrdersOfKey(j) = {}
    BY <2>1, OrdersStand DEF Taken
  <2>2. CASE OrdersOfKey(j) # {}
    <3>1. PICK b \in OrdersOfKey(j) : b = OrderOf(j)
      BY <2>2, OrderOfKey
    <3>2. b \in OrderIds
      BY <3>1 DEF OrdersOfKey
    <3>3. Taken(j, s) = Given(b, s) /\ Taken(j, s)' = Given(b, s)'
      BY <2>2, <3>1, OrdersStand DEF Taken, Given
    <3> QED
      BY <1>2, <1>5, <3>2, <3>3 DEF Given
  <2> QED
    BY <2>1, <2>2
<1>8. ASSUME NEW s \in SKUs PROVE reserved'[s] = SumOver(Balance(s)', IdemKeys)
  <2>1. lines[a][s] \in Nat /\ booked[k][s] = 0
    BY <1>1, <1>3, QuantitiesAreNatural DEF Nothing
  <2>2. reserved'[s] = reserved[s] + lines[a][s]
    <3>1. Move(Wanted(lines[a]), lines[a], -1, 1)
      BY DEF ReserveEffect
    <3>2. reserved'[s] = IF s \in Wanted(lines[a]) THEN reserved[s] + 1 * lines[a][s] ELSE reserved[s]
      BY <1>1, <3>1, MoveReserves DEF KInv, OrdersGive
    <3> QED
      BY <1>1, <2>1, <3>2 DEF Wanted, StockTypeOK
  <2>3. Balance(s)'[k] = Balance(s)[k] + lines[a][s]
    <3>1. booked'[k] = lines[a]
      BY <1>1, <1>3 DEF TypeOK
    <3>2. Taken(k, s) = 0
      BY <1>4 DEF Taken
    <3> QED
      BY <1>1, <1>7, <2>1, <3>1, <3>2 DEF Balance
  <2>4. \A j \in IdemKeys : j # k => Balance(s)'[j] = Balance(s)[j]
    BY <1>1, <1>3, <1>7 DEF Balance, TypeOK
  <2> QED
    BY <1>1, <2>1, <2>2, <2>3, <2>4, BooksFollow
<1> QED
  BY <1>6, <1>8 DEF KInv, BooksAgree

\* A cancellation gives its order's lines back.
LEMMA UnreserveKeepsBooks ==
    ASSUME KInv, IInv', NEW o \in OrderIds, Exists(o), UNCHANGED <<key, status, lines, booked>>,
           UnreserveEffect(o, lines[o])
    PROVE  KInv'
<1>1. lines[o] \in Quantities /\ StockTypeOK /\ TypeOK'
  BY DEF KInv, IInv, TypeOK, OrderItems
<1>2. o \notin processed /\ processed' = processed \cup {o} /\ UNCHANGED <<rows, fulfilled>>
  BY DEF UnreserveEffect, KeyFresh
<1>3. OrdersGive'
  BY <1>2 DEF KInv, OrdersGive, Exists
<1>4. ASSUME NEW s \in SKUs PROVE reserved'[s] = SumOver(Balance(s)', IdemKeys)
  <2>1. lines[o][s] \in Nat /\ reserved[s] \in Int /\ fulfilled[o][s] \in Nat
    BY <1>1, QuantitiesAreNatural DEF StockTypeOK
  <2>2. reserved'[s] = reserved[s] - lines[o][s]
    <3>1. Move(Wanted(lines[o]), lines[o], 1, -1)
      BY DEF UnreserveEffect
    <3>2. reserved'[s] = IF s \in Wanted(lines[o]) THEN reserved[s] + (-1) * lines[o][s] ELSE reserved[s]
      BY <1>1, <3>1, MoveReserves DEF KInv, OrdersGive
    <3> QED
      BY <2>1, <3>2 DEF Wanted
  <2>3. Given(o, s)' = Given(o, s) + lines[o][s]
    BY <1>2, <2>1 DEF Given
  <2>4. \A b \in OrderIds : b # o => Given(b, s)' = Given(b, s)
    BY <1>2 DEF Given
  <2> QED
    BY <1>1, <2>1, <2>2, <2>3, <2>4, GivingBack
<1> QED
  BY <1>3, <1>4 DEF KInv, BooksAgree

\* A delivery gives back the lines it finds unfulfilled.
LEMMA FulfillKeepsBooks ==
    ASSUME KInv, IInv', NEW o \in OrderIds, Exists(o), UNCHANGED <<key, status, lines, booked>>,
           FulfillEffect(o, lines[o])
    PROVE  KInv'
<1>1. lines[o] \in Quantities /\ StockTypeOK /\ TypeOK'
  BY DEF KInv, IInv, TypeOK, OrderItems
<1>2. UNCHANGED <<rows, processed>>
  BY DEF FulfillEffect
<1>3. ASSUME NEW s \in SKUs
      PROVE  fulfilled'[o][s] = IF s \in NotYetFulfilled(o, lines[o]) THEN lines[o][s] ELSE fulfilled[o][s]
  BY <1>1 DEF FulfillEffect, StockTypeOK
<1>4. ASSUME NEW b \in OrderIds, b # o PROVE fulfilled'[b] = fulfilled[b]
  BY <1>1, <1>4 DEF FulfillEffect, StockTypeOK
<1>5. OrdersGive'
  BY <1>2, <1>3, <1>4 DEF KInv, OrdersGive, Exists
<1>6. ASSUME NEW s \in SKUs PROVE reserved'[s] = SumOver(Balance(s)', IdemKeys)
  <2> DEFINE n == fulfilled'[o][s] - fulfilled[o][s]
  <2>1. lines[o][s] \in Nat /\ reserved[s] \in Int /\ fulfilled[o][s] \in Nat /\ fulfilled'[o][s] \in Nat
    BY <1>1, QuantitiesAreNatural DEF TypeOK, StockTypeOK
  <2>2. reserved'[s] = reserved[s] - n
    <3>1. Move(NotYetFulfilled(o, lines[o]), lines[o], 0, -1)
      BY DEF FulfillEffect
    <3>2. reserved'[s] = IF s \in NotYetFulfilled(o, lines[o])
                         THEN reserved[s] + (-1) * lines[o][s] ELSE reserved[s]
      BY <1>1, <3>1, MoveReserves DEF KInv, OrdersGive
    <3> QED
      BY <1>3, <2>1, <3>2 DEF NotYetFulfilled
  <2>3. Given(o, s)' = Given(o, s) + n
    BY <1>2, <2>1 DEF Given
  <2>4. \A b \in OrderIds : b # o => Given(b, s)' = Given(b, s)
    BY <1>2, <1>4 DEF Given
  <2>5. n \in Int
    BY <2>1
  <2> HIDE DEF n
  <2> QED
    BY <1>1, <2>2, <2>3, <2>4, <2>5, GivingBack
<1> QED
  BY <1>5, <1>6 DEF KInv, BooksAgree

LEMMA InitKInv == Init => KInv
<1> SUFFICES ASSUME Init PROVE KInv
  OBVIOUS
<1>1. IInv
  BY InitIInv
<1>2. OrdersGive
  BY DEF Init, StockInit, OrdersGive
<1>3. ASSUME NEW s \in SKUs PROVE reserved[s] = SumOver(Balance(s), IdemKeys)
  <2> DEFINE g == Balance(s)
  <2>1. \A k \in IdemKeys : OrdersOfKey(k) = {} /\ booked[k][s] = 0
    BY DEF Init, OrdersOfKey, Exists, Nothing
  <2>2. \A k \in IdemKeys : g[k] = 0
    BY <2>1 DEF Balance, Taken
  <2>3. reserved[s] = 0
    BY DEF Init, StockInit
  <2> HIDE DEF g
  <2>4. SumOver(g, IdemKeys) = 0
    BY <2>2, OrdersAssumption, SumOfZeros
  <2> QED
    BY <2>3, <2>4 DEF g
<1> QED
  BY <1>1, <1>2, <1>3 DEF KInv, BooksAgree

LEMMA NextKeepsKInv == KInv /\ [Next]_vars => KInv'
<1> SUFFICES ASSUME KInv, [Next]_vars PROVE KInv'
  OBVIOUS
<1> USE ProcsAreApart DEF Procs, Clients
<1>0. IInv /\ IInv'
  BY NextKeeps DEF KInv
<1>1. CASE UNCHANGED vars
  BY <1>0, <1>1, QuietStepKeepsBooks DEF vars, b2c, Exists
<1>2. ASSUME NEW a \in OrderIds, Checkout(a) \/ Operate(a) PROVE KInv'
  <2>1. UNCHANGED <<tables, booked, key>>
    BY <1>2 DEF Checkout, LookUpKey, ReadCart, Refuse, SendReserve, CreateOrder, RereadOrder,
       ReserveFailed, CheckoutTimeout, Operate
  <2>2. \A o \in OrderIds : Exists(o) => Exists(o)'
    BY <1>0, <1>2 DEF IInv, TypeOK, Exists, Checkout, LookUpKey, ReadCart, Refuse, SendReserve,
       CreateOrder, RereadOrder, ReserveFailed, CheckoutTimeout, Operate
  <2>3. \A o \in OrderIds : Exists(o) => lines'[o] = lines[o]
    BY <1>0, <1>2 DEF IInv, TypeOK, OrderItems, CreatedExist, Checkout, LookUpKey, ReadCart, Refuse,
       SendReserve, CreateOrder, RereadOrder, ReserveFailed, CheckoutTimeout, Operate
  <2> QED
    BY <1>0, <2>1, <2>2, <2>3, QuietStepKeepsBooks
<1>3. ASSUME NEW c \in Cancels,
             FinishCancel(c) \/ \E o \in OrderIds : SendUnreserve(c, o) \/ CancelRefused(c, o)
      PROVE  KInv'
  <2>1. UNCHANGED <<tables, booked, key, lines>>
    BY <1>3 DEF FinishCancel, SendUnreserve, CancelRefused
  <2>2. \A o \in OrderIds : Exists(o) => Exists(o)'
    BY <1>0, <1>3 DEF IInv, TypeOK, Exists, FinishCancel, SendUnreserve, CancelRefused
  <2> QED
    BY <1>0, <2>1, <2>2, QuietStepKeepsBooks
<1>4. ASSUME NEW d \in Deliveries,
             EnqueueFulfill(d) \/ SetDelivered(d) \/ GiveUp(d) \/ \E o \in OrderIds : ReadForDelivery(d, o)
      PROVE  KInv'
  <2>1. UNCHANGED <<tables, booked, key, lines>>
    BY <1>4 DEF EnqueueFulfill, SetDelivered, GiveUp, ReadForDelivery
  <2>2. \A o \in OrderIds : Exists(o) => Exists(o)'
    BY <1>0, <1>4 DEF IInv, TypeOK, Exists, EnqueueFulfill, SetDelivered, GiveUp, ReadForDelivery
  <2> QED
    BY <1>0, <2>1, <2>2, QuietStepKeepsBooks
<1>5. ASSUME NEW d \in Deliveries, Dispatch(d) PROVE KInv'
  <2>1. UNCHANGED <<key, status, lines, booked>> /\ row[d] = "PENDING"
    BY <1>5 DEF Dispatch
  <2>2. target[d] \in OrderIds /\ Exists(target[d])
    BY <1>0, <2>1 DEF IInv, TypeOK, IdleIsClean, TargetsExist
  <2>3. FulfillEffect(target[d], lines[target[d]]) \/ UNCHANGED tables
    BY <1>5 DEF Dispatch, TakesEffect
  <2>4. CASE UNCHANGED tables
    BY <1>0, <2>1, <2>4, QuietStepKeepsBooks DEF Exists
  <2> QED
    BY <1>0, <2>1, <2>2, <2>3, <2>4, FulfillKeepsBooks
<1>6. ASSUME NEW p \in Clients, Serve(p) PROVE KInv'
  <2>1. UNCHANGED <<key, status, lines>> /\ p \in net
    BY <1>6 DEF Serve, ServeEffect, ServeRepeat, ServeConflict, ServeError, Answered
  <2>2. CASE ~ServeEffect(p)
    <3>1. UNCHANGED <<tables, booked>>
      BY <1>6, <2>2 DEF Serve, ServeRepeat, ServeConflict, ServeError
    <3> QED
      BY <1>0, <2>1, <3>1, QuietStepKeepsBooks DEF Exists
  <2>3. CASE ServeEffect(p) /\ p \in OrderIds
    <3>1. ReserveEffect(key[p], lines[p]) /\ booked' = [booked EXCEPT ![key[p]] = lines[p]]
      BY <2>3 DEF ServeEffect, CallOf, TakesEffect
    <3> QED
      BY <1>0, <2>1, <2>3, <3>1, ReserveKeepsBooks
  <2>4. CASE ServeEffect(p) /\ p \in Cancels
    <3>1. UnreserveEffect(target[p], lines[target[p]]) /\ booked' = booked
      BY <2>4 DEF ServeEffect, CallOf, TakesEffect
    <3>2. target[p] \in OrderIds /\ Exists(target[p])
      BY <1>0, <2>1, <2>4 DEF IInv, TypeOK, IdleIsClean, TargetsExist
    <3> QED
      BY <1>0, <2>1, <3>1, <3>2, UnreserveKeepsBooks
  <2> QED
    BY <2>2, <2>3, <2>4
<1>7. ASSUME NEW p \in Procs, Crash(p) PROVE KInv'
  <2>1. UNCHANGED <<tables, booked, key, lines, status>>
    BY <1>7 DEF Crash
  <2> QED
    BY <1>0, <2>1, QuietStepKeepsBooks DEF Exists
<1>8. CASE EditCart
  BY <1>0, <1>8, QuietStepKeepsBooks DEF EditCart, Exists
<1> QED
  BY <1>1, <1>2, <1>3, <1>4, <1>5, <1>6, <1>7, <1>8 DEF Next

\* Unless an order is not what its key booked, or was cancelled and delivered,
\* no order has given back more than was booked.
LEMMA BalancesAreNatural ==
    ASSUME KInv, NEW s \in SKUs, NEW k \in IdemKeys,
           \A o \in OrderIds : Exists(o) =>
                lines[o] = booked[key[o]] /\ ~(Unreserved(o) /\ Shipped(o))
    PROVE  Balance(s)[k] \in Nat
<1>1. booked[k][s] \in Nat
  BY BalanceType DEF KInv, IInv
<1>2. CASE OrdersOfKey(k) = {}
  BY <1>1, <1>2 DEF Balance, Taken
<1>3. CASE OrdersOfKey(k) # {}
  <2>1. PICK o \in OrdersOfKey(k) : o = OrderOf(k)
    BY <1>3, OrderOfKey
  <2>2. o \in OrderIds /\ Exists(o) /\ key[o] = k
    BY <2>1 DEF OrdersOfKey
  <2>3. Balance(s)[k] = lines[o][s] - Given(o, s)
    BY <1>3, <2>1, <2>2 DEF Balance, Taken
  <2>4. fulfilled[o][s] \in Nat /\ (fulfilled[o][s] # 0 => fulfilled[o][s] = lines[o][s])
    BY <2>2 DEF KInv, IInv, TypeOK, StockTypeOK, OrdersGive
  <2>5. o \in processed => fulfilled[o][s] = 0
    BY <2>2, <2>4 DEF Unreserved, Shipped
  <2>6. lines[o][s] \in Nat
    BY <1>1, <2>2
  <2> QED
    BY <2>3, <2>4, <2>5, <2>6 DEF Given
<1> QED
  BY <1>2, <1>3

\* inventory_repository.py: reserved_quantity, which fulfill and unreserve reduce
\* unchecked, is negative only behind an order that is not what was reserved, or
\* that was both cancelled and delivered.
THEOREM NegativeReservesExplained == Spec => []NegativeReserveExplained
<1>1. KInv => NegativeReserveExplained
  <2> SUFFICES ASSUME KInv, NEW s \in SKUs,
                      \A o \in OrderIds : Exists(o) =>
                          lines[o] = booked[key[o]] /\ ~(Unreserved(o) /\ Shipped(o))
               PROVE  ~(reserved[s] < 0)
    BY DEF NegativeReserveExplained
  <2> DEFINE g == Balance(s)
  <2>1. \A k \in IdemKeys : g[k] \in Nat
    BY BalancesAreNatural
  <2>2. reserved[s] = SumOver(g, IdemKeys)
    BY DEF KInv, BooksAgree
  <2> HIDE DEF g
  <2>3. SumOver(g, IdemKeys) \in Nat
    BY <2>1, OrdersAssumption, SumCovers
  <2> QED
    BY <2>2, <2>3
<1> QED
  BY <1>1, InitKInv, NextKeepsKInv, PTL DEF Spec

-----------------------------------------------------------------------------
(* The cart. *)

\* A row that is there has a name and a writer.
LinesHaveNames ==
    \A o \in Owners, s \in Skus :
        /\ line[o][s].id = None <=> line[o][s].quantity = 0
        /\ line[o][s].by = None <=> line[o][s].quantity = 0

Writes(q) == q.op \in {"add", "update", "remove"}

\* Each kind of request is about its kind of thing, and passes its stages.
RequestFits(q) ==
    /\ q.pc = "idle" => q = Idle
    /\ q.pc \in Running => q.op # "none"
    /\ Writes(q) => q.sku \in Skus
    /\ q.op \in {"add", "update"} => q.amount \in Amounts
    /\ q.op \in {"remove", "clear"} => q.amount = 0
    /\ q.op = "merge" => q.owner = "buyer"
    /\ q.pc \in {"read", "write"} => Writes(q)
    /\ q.pc = "create" => q.op \in {"add", "merge"}
    /\ q.pc = "clear" => q.op = "clear"
    /\ q.pc \in {"read", "write", "clear", "list", "next", "merge"} => q.cart # None
    /\ q.pc \in {"find", "list", "next", "merge"} => q.op = "merge"
    /\ q.pc \in {"write", "merge"} => (q.item = None => q.seen = 0)
    /\ q.pc = "write" => (q.item = None => q.op = "add")
    /\ q.pc = "merge" => /\ q.sku \in Skus \ q.todo
                         /\ q.seen < q.listed[q.sku]

RequestsFit == \A r \in Requests : RequestFits(req[r])

RequestType ==
    [op : Ops \cup {"none"}, owner : Owners, sku : Skus \cup {None},
     amount : Nat, cart : Names \cup {None},
     guest : Names \cup {None}, item : Names \cup {None}, seen : Nat,
     listed : [Skus -> Nat], todo : SUBSET Skus, before : SUBSET Names,
     pc : Running \cup Finished \cup {"idle"}]

ReqsOK == req \in [Requests -> RequestType] /\ RequestsFit

LineType == [id : Names \cup {None}, by : Names \cup {None}, quantity : Nat]

TablesOK ==
    /\ carts \in [Owners -> Names \cup {None}]
    /\ line \in [Owners -> [Skus -> LineType]]
    /\ LinesHaveNames
    /\ \A o \in Owners, s \in Skus : line[o][s].quantity # 0 => carts[o] # None

-----------------------------------------------------------------------------
LEMMA Apart ==
    /\ None \notin Requests /\ None # Old /\ Old \notin Requests /\ None \notin Skus
    /\ None \notin Names /\ Requests \subseteq Names /\ Old \in Names
    /\ Amounts \subseteq Nat /\ 0 \notin Amounts
BY CartAssumption DEF Names

LEMMA NoLineFacts ==
    /\ NoLine \in LineType /\ NoLine.id = None /\ NoLine.by = None /\ NoLine.quantity = 0
    /\ \A id, by, n : Row(id, by, n).id = id /\ Row(id, by, n).by = by /\ Row(id, by, n).quantity = n
BY DEF NoLine, Row, LineType

LEMMA IdleFacts ==
    /\ Idle \in RequestType
    /\ Idle.op = "none" /\ Idle.pc = "idle" /\ Idle.sku = None /\ Idle.owner = "buyer"
    /\ Idle.item = None /\ Idle.seen = 0 /\ Idle.todo = {} /\ Idle.before = {}
    /\ Idle.amount = 0 /\ Idle.cart = None /\ Idle.guest = None
    /\ Idle.listed = [s \in Skus |-> 0]
<1> USE DEF Idle
<1>1. Idle \in RequestType
  BY DEF RequestType, Owners, Ops
<1> QED
  BY <1>1

\* A row is NoLine exactly when there is nothing in it.
LEMMA NoLineIsEmpty ==
    ASSUME TablesOK, NEW o \in Owners, NEW s \in Skus
    PROVE  /\ line[o][s] \in LineType
           /\ line[o][s] = NoLine <=> line[o][s].quantity = 0
           /\ line[o][s].id = None <=> line[o][s] = NoLine
<1>1. line[o][s] \in LineType
  BY DEF TablesOK
<1>2. line[o][s] = [id |-> line[o][s].id, by |-> line[o][s].by, quantity |-> line[o][s].quantity]
  BY <1>1 DEF LineType
<1> QED
  BY <1>1, <1>2 DEF TablesOK, LinesHaveNames, NoLine, Row

LEMMA TypesAreOK == TablesOK /\ req \in [Requests -> RequestType] => CartTypeOK
<1> SUFFICES ASSUME TablesOK, req \in [Requests -> RequestType] PROVE CartTypeOK
  OBVIOUS
<1>1. \A o \in Owners, s \in Skus : line[o][s] = NoLine <=> line[o][s].quantity = 0
  BY NoLineIsEmpty
<1> QED
  BY <1>1 DEF TablesOK, CartTypeOK, RequestType, LineType

-----------------------------------------------------------------------------
(* How requests go on. *)

\* r goes on to q, no one else moves.
Turns(r, q) ==
    /\ req[r].pc \notin Finished
    /\ req'[r] = q
    /\ q.pc # "idle"
    /\ \A p \in Requests \ {r} : req'[p] = req[p]

LEMMA TurnsAreOK ==
    ASSUME ReqsOK, NEW r \in Requests, NEW q \in RequestType, RequestFits(q),
           req[r].pc \notin Finished, q.pc # "idle", req' = [req EXCEPT ![r] = q]
    PROVE  ReqsOK' /\ Turns(r, q) /\ req'[r] = q
<1>1. req'[r] = q /\ \A p \in Requests \ {r} : req'[p] = req[p]
  BY DEF ReqsOK
<1>2. req' \in [Requests -> RequestType]
  BY DEF ReqsOK
<1>3. \A p \in Requests : RequestFits(req'[p])
  BY <1>1 DEF ReqsOK, RequestsFit
<1>4. RequestsFit'
  BY <1>3 DEF RequestsFit, RequestFits, Writes
<1> QED
  BY <1>1, <1>2, <1>4 DEF ReqsOK, Turns

\* A request under way remembers what it is about.
Keeps(r) ==
    /\ req[r].op # "none"
    /\ req'[r].op = req[r].op
    /\ req'[r].owner = req[r].owner
    /\ req'[r].amount = req[r].amount
    /\ req'[r].before = req[r].before
    /\ req[r].op # "merge" => req'[r].sku = req[r].sku

\* One that ended without an effect forgets everything.
Drops(r) ==
    /\ req[r].op # "merge"
    /\ req'[r].op = "none"
    /\ req'[r].pc \in Finished \ {"ok"}
    /\ req'[r].listed = [s \in Skus |-> 0]
    /\ req'[r].before = {}

LEMMA EndTurns ==
    ASSUME ReqsOK, NEW r \in Requests, NEW how \in Finished, req[r].pc \in Running,
           how = "ok" \/ req[r].op # "none", End(r, how)
    PROVE  /\ ReqsOK' /\ Turns(r, req'[r]) /\ req'[r].pc = how
           /\ \/ (how = "ok" \/ req[r].op = "merge") /\ Keeps(r) /\ req'[r].listed = req[r].listed
              \/ how # "ok" /\ Drops(r)
<1> DEFINE p == req[r]
           kept == [Idle EXCEPT !.op = p.op, !.owner = p.owner, !.amount = p.amount,
                                !.sku = IF p.op = "merge" THEN None ELSE p.sku,
                                !.listed = p.listed, !.before = p.before, !.pc = how]
           none == [Idle EXCEPT !.pc = how]
<1>1. p \in RequestType /\ RequestFits(p) /\ p.op # "none"
  BY DEF ReqsOK, RequestsFit, RequestFits, Running
<1>2. how \notin Running /\ how # "idle"
  BY DEF Finished, Running
<1>3. p.pc \notin Finished
  BY DEF Finished, Running
<1>4. CASE how # "ok" /\ p.op # "merge"
  <2>1. none \in RequestType
    BY IdleFacts DEF RequestType
  <2>2. none.op = "none" /\ none.pc = how /\ none.listed = [s \in Skus |-> 0] /\ none.before = {}
    BY IdleFacts DEF RequestType
  <2>3. RequestFits(none)
    BY <1>2, <2>2 DEF RequestFits, Writes, Running, Finished
  <2>4. req' = [req EXCEPT ![r] = none]
    BY <1>4 DEF End
  <2> HIDE DEF none
  <2>5. ReqsOK' /\ Turns(r, none) /\ req'[r] = none
    BY <1>2, <1>3, <2>1, <2>2, <2>3, <2>4, TurnsAreOK
  <2> QED
    BY <1>4, <2>2, <2>5 DEF Drops
<1>5. CASE how = "ok" \/ p.op = "merge"
  <2>1. kept \in RequestType
    <3>1. /\ p.op \in Ops \cup {"none"} /\ p.owner \in Owners /\ p.amount \in Nat
          /\ p.sku \in Skus \cup {None} /\ p.listed \in [Skus -> Nat] /\ p.before \in SUBSET Names
      BY <1>1 DEF RequestType
    <3>2. (IF p.op = "merge" THEN None ELSE p.sku) \in Skus \cup {None}
      BY <3>1
    <3> HIDE DEF p
    <3> QED
      BY <3>1, <3>2 DEF Idle, RequestType
  <2>2. /\ kept.op = p.op /\ kept.owner = p.owner /\ kept.amount = p.amount /\ kept.pc = how
        /\ kept.listed = p.listed /\ kept.before = p.before
        /\ kept.sku = IF p.op = "merge" THEN None ELSE p.sku
    BY IdleFacts DEF RequestType
  <2>3. RequestFits(kept)
    BY <1>1, <1>2, <2>2 DEF RequestFits, Writes, Running, Finished
  <2>4. req' = [req EXCEPT ![r] = kept]
    BY <1>5 DEF End
  <2> HIDE DEF kept
  <2>5. ReqsOK' /\ Turns(r, kept) /\ req'[r] = kept
    BY <1>2, <1>3, <2>1, <2>2, <2>3, <2>4, TurnsAreOK
  <2> QED
    BY <1>1, <1>5, <2>2, <2>5 DEF Keeps
<1> QED
  BY <1>4, <1>5

LEMMA ToTurns ==
    ASSUME ReqsOK, NEW r \in Requests, NEW to \in {"next"}, req[r].pc = "merge", To(r, to)
    PROVE  /\ ReqsOK' /\ Turns(r, req'[r]) /\ req'[r] = [req[r] EXCEPT !.pc = to]
           /\ Keeps(r) /\ req'[r].listed = req[r].listed
<1> DEFINE q == [req[r] EXCEPT !.pc = to]
<1>1. req[r] \in RequestType /\ RequestFits(req[r]) /\ req[r].op = "merge"
  BY DEF ReqsOK, RequestsFit, RequestFits
<1>2. q \in RequestType /\ q.pc = "next" /\ q.op = "merge" /\ q.owner = req[r].owner
      /\ q.amount = req[r].amount /\ q.listed = req[r].listed /\ q.before = req[r].before
      /\ q.cart = req[r].cart
  BY <1>1 DEF RequestType, Running
<1>3. RequestFits(q)
  BY <1>1, <1>2 DEF RequestFits, Writes
<1>4. req' = [req EXCEPT ![r] = q] /\ req[r].pc \notin Finished
  BY DEF To, ReqsOK, Finished
<1> HIDE DEF q
<1>5. ReqsOK' /\ Turns(r, q) /\ req'[r] = q
  BY <1>2, <1>3, <1>4, TurnsAreOK
<1> QED
  BY <1>1, <1>2, <1>5 DEF Keeps, q

-----------------------------------------------------------------------------
(* What each action does to the request. *)

About(q) ==
    /\ q \in RequestType
    /\ q.op # "none"
    /\ Writes(q) => q.sku \in Skus
    /\ q.op \in {"add", "update"} => q.amount \in Amounts
    /\ q.op \in {"remove", "clear"} => q.amount = 0
    /\ q.op = "merge" => q.owner = "buyer"

LEMMA EntryFacts ==
    ASSUME NEW q, About(q)
    PROVE  /\ q.op \in {"add", "update", "remove"} => Entry(q) = "read"
           /\ q.op = "clear" => Entry(q) = "clear"
           /\ q.op = "merge" => Entry(q) = IF q.guest = None THEN "ok" ELSE "list"
           /\ Entry(q) \in Running \cup Finished
BY DEF Entry, About, Running, Finished, RequestType, Ops

LEMMA EntryFits ==
    ASSUME NEW q, About(q), NEW c \in Names
    PROVE  LET w == [q EXCEPT !.cart = c, !.pc = Entry(q)]
           IN  /\ w \in RequestType /\ RequestFits(w)
               /\ w.op = q.op /\ w.owner = q.owner /\ w.sku = q.sku /\ w.amount = q.amount
               /\ w.listed = q.listed /\ w.before = q.before /\ w.guest = q.guest
               /\ w.cart = c /\ w.pc = Entry(q) /\ w.pc # "idle"
<1> DEFINE w == [q EXCEPT !.cart = c, !.pc = Entry(q)]
<1>1. w \in RequestType
  BY EntryFacts DEF About, RequestType
<1>2. /\ w.op = q.op /\ w.owner = q.owner /\ w.sku = q.sku /\ w.amount = q.amount
      /\ w.listed = q.listed /\ w.before = q.before /\ w.guest = q.guest
      /\ w.cart = c /\ w.pc = Entry(q)
  BY DEF About, RequestType
<1> HIDE DEF w
<1>3. RequestFits(w)
  <2>1. CASE q.op \in {"add", "update", "remove"}
    BY <1>2, <2>1, EntryFacts, Apart DEF RequestFits, About, Writes, Running
  <2>2. CASE q.op = "clear"
    BY <1>2, <2>2, EntryFacts, Apart DEF RequestFits, About, Writes, Running
  <2>3. CASE q.op = "merge"
    BY <1>2, <2>3, EntryFacts, Apart DEF RequestFits, About, Writes, Running
  <2> QED
    BY <2>1, <2>2, <2>3 DEF About, RequestType, Ops
<1>4. w.pc # "idle"
  BY <1>2, EntryFacts DEF Running, Finished
<1> QED
  BY <1>1, <1>2, <1>3, <1>4 DEF w

\* The ways a request goes on with the cart it found, or without.
GotCart(q, w) ==
    LET c == carts[q.owner]
    IN  \/ /\ c # None
           /\ w.cart = c /\ w.pc = Entry(q)
        \/ c = None /\ w.pc = "create" /\ q.op \in {"add", "merge"}
        \/ c = None /\ w.pc = "ok" /\ q.op = "clear"

LEMMA WithCartFits ==
    ASSUME TablesOK, NEW q, About(q)
    PROVE  LET w == WithCart(q)
           IN  /\ w \in RequestType /\ RequestFits(w) /\ w.pc # "idle"
               /\ \/ /\ w.op = q.op /\ w.owner = q.owner /\ w.sku = q.sku /\ w.amount = q.amount
                     /\ w.listed = q.listed /\ w.before = q.before /\ w.guest = q.guest
                     /\ GotCart(q, w)
                  \/ /\ q.op \in {"update", "remove"}
                     /\ w = [Idle EXCEPT !.pc = "refused"]
<1> DEFINE c == carts[q.owner]
<1>1. c \in Names \cup {None}
  BY DEF TablesOK, About, RequestType
<1>2. CASE c # None
  <2> DEFINE w == [q EXCEPT !.cart = c, !.pc = Entry(q)]
  <2>1. WithCart(q) = w
    BY <1>2 DEF WithCart
  <2>2. c \in Names
    BY <1>1, <1>2
  <2> HIDE DEF c
  <2>3. /\ w \in RequestType /\ RequestFits(w)
        /\ w.op = q.op /\ w.owner = q.owner /\ w.sku = q.sku /\ w.amount = q.amount
        /\ w.listed = q.listed /\ w.before = q.before /\ w.guest = q.guest
        /\ w.cart = c /\ w.pc = Entry(q) /\ w.pc # "idle"
    BY <2>2, EntryFits
  <2> HIDE DEF w
  <2>4. GotCart(q, w)
    BY <1>2, <2>3 DEF GotCart, c
  <2> QED
    BY <2>1, <2>3, <2>4
<1>3. CASE c = None /\ q.op \in {"add", "merge"}
  <2> DEFINE w == [q EXCEPT !.pc = "create"]
  <2>1. WithCart(q) = w
    BY <1>3 DEF WithCart
  <2>2. w \in RequestType
    BY DEF About, RequestType, Running
  <2>3. /\ w.op = q.op /\ w.owner = q.owner /\ w.sku = q.sku /\ w.amount = q.amount
        /\ w.listed = q.listed /\ w.before = q.before /\ w.guest = q.guest /\ w.pc = "create"
    BY DEF About, RequestType
  <2> HIDE DEF w
  <2>4. RequestFits(w)
    BY <1>3, <2>3 DEF RequestFits, About, Writes
  <2> QED
    BY <1>3, <2>1, <2>2, <2>3, <2>4 DEF GotCart
<1>4. CASE c = None /\ q.op = "clear"
  <2> DEFINE w == [q EXCEPT !.pc = "ok"]
  <2>1. WithCart(q) = w
    BY <1>4 DEF WithCart
  <2>2. w \in RequestType
    BY DEF About, RequestType, Finished
  <2>3. /\ w.op = q.op /\ w.owner = q.owner /\ w.sku = q.sku /\ w.amount = q.amount
        /\ w.listed = q.listed /\ w.before = q.before /\ w.guest = q.guest /\ w.pc = "ok"
    BY DEF About, RequestType
  <2> HIDE DEF w
  <2>4. RequestFits(w)
    BY <1>4, <2>3 DEF RequestFits, About, Writes, Running
  <2> QED
    BY <1>4, <2>1, <2>2, <2>3, <2>4 DEF GotCart
<1>5. CASE c = None /\ q.op \in {"update", "remove"}
  <2> DEFINE w == [Idle EXCEPT !.pc = "refused"]
  <2>1. WithCart(q) = w
    BY <1>5 DEF WithCart
  <2>2. w \in RequestType
    BY IdleFacts DEF RequestType, Finished
  <2>3. w.op = "none" /\ w.pc = "refused"
    BY IdleFacts DEF RequestType
  <2> HIDE DEF w
  <2>4. RequestFits(w)
    BY <2>3 DEF RequestFits, Writes, Running
  <2> QED
    BY <1>5, <2>1, <2>2, <2>3, <2>4 DEF w
<1> QED
  BY <1>2, <1>3, <1>4, <1>5 DEF About, RequestType, Ops

NothingListed == [s \in Skus |-> 0]

\* How a request begins that is not turned away at once.
Begun(r) ==
    /\ req[r].op = "none"
    /\ req'[r].op # "none"
    /\ req'[r].listed = NothingListed
    /\ req'[r].before = {Old} \cup {p \in Requests : req[p].pc \in Finished}
    /\ IF req'[r].op = "merge" THEN req'[r].pc = "find" /\ req'[r].guest = carts["guest"]
       ELSE GotCart(req'[r], req'[r])

LEMMA BeginStep ==
    ASSUME TablesOK, ReqsOK, NEW r \in Requests, Begin(r)
    PROVE  /\ ReqsOK' /\ Turns(r, req'[r])
           /\ req[r].pc = "idle" /\ (Begun(r) \/ Drops(r))
           /\ UNCHANGED <<carts, line>>
<1>1. /\ req[r] = Idle /\ req[r].op = "none" /\ req[r].op # "merge" /\ req[r].pc = "idle"
      /\ req[r].pc \notin Finished
  BY IdleFacts DEF Begin, ReqsOK, RequestsFit, RequestFits, Finished
<1>2. PICK op \in Ops, o \in Owners, s \in Skus \cup {None}, n \in Amounts \cup {0} :
        LET q == [Idle EXCEPT !.op = op, !.owner = o, !.sku = s, !.amount = n,
                              !.before = {Old} \cup {p \in Requests : req[p].pc \in Finished}]
        IN  /\ op \in {"clear", "merge"} <=> s = None
            /\ op \in {"add", "update"} <=> n # 0
            /\ op = "merge" => o = "buyer"
            /\ req' = [req EXCEPT ![r] =
                    IF op = "merge" THEN [q EXCEPT !.guest = carts["guest"], !.pc = "find"]
                    ELSE WithCart(q)]
  BY Zenon DEF Begin
<1> DEFINE b == {Old} \cup {p \in Requests : req[p].pc \in Finished}
           q == [Idle EXCEPT !.op = op, !.owner = o, !.sku = s, !.amount = n, !.before = b]
<1>3. b \in SUBSET Names
  BY Apart
<1>4. q \in RequestType
  <2> HIDE DEF b
  <2> QED
    BY <1>3, Apart, IdleFacts DEF RequestType
<1>5. /\ q.op = op /\ q.owner = o /\ q.sku = s /\ q.amount = n /\ q.before = b
      /\ q.listed = NothingListed
  <2> HIDE DEF b
  <2> QED
    BY DEF Idle, NothingListed
<1>6. /\ op \in {"clear", "merge"} <=> s = None
      /\ op \in {"add", "update"} <=> n # 0
      /\ op = "merge" => o = "buyer"
      /\ req' = [req EXCEPT ![r] =
                    IF op = "merge" THEN [q EXCEPT !.guest = carts["guest"], !.pc = "find"]
                    ELSE WithCart(q)]
  BY <1>2
<1>7. UNCHANGED <<carts, line>>
  BY DEF Begin
<1> HIDE DEF q, b
<1>8. About(q)
  BY <1>4, <1>5, <1>6 DEF About, Writes, Ops
<1>9. CASE op = "merge"
  <2> DEFINE w == [q EXCEPT !.guest = carts["guest"], !.pc = "find"]
  <2>1. w \in RequestType
    BY <1>4 DEF TablesOK, RequestType, Owners, Running
  <2>2. /\ w.op = "merge" /\ w.owner = "buyer" /\ w.pc = "find" /\ w.guest = carts["guest"]
        /\ w.listed = NothingListed /\ w.before = b
    BY <1>4, <1>5, <1>6, <1>9 DEF RequestType
  <2>3. req' = [req EXCEPT ![r] = w]
    BY <1>6, <1>9
  <2> HIDE DEF w
  <2>4. RequestFits(w)
    BY <2>2 DEF RequestFits, Writes
  <2>5. w.pc # "idle"
    BY <2>2
  <2>6. ReqsOK' /\ Turns(r, w) /\ req'[r] = w
    BY <1>1, <2>1, <2>3, <2>4, <2>5, TurnsAreOK
  <2>7. Begun(r)
    BY <1>1, <2>2, <2>6 DEF Begun, b
  <2> QED
    BY <1>1, <1>7, <2>6, <2>7
<1>10. CASE op # "merge"
  <2> DEFINE w == WithCart(q)
  <2>1. /\ w \in RequestType /\ RequestFits(w) /\ w.pc # "idle"
        /\ \/ /\ w.op = q.op /\ w.owner = q.owner /\ w.sku = q.sku /\ w.amount = q.amount
              /\ w.listed = q.listed /\ w.before = q.before /\ w.guest = q.guest
              /\ GotCart(q, w)
           \/ /\ q.op \in {"update", "remove"}
              /\ w = [Idle EXCEPT !.pc = "refused"]
    BY <1>8, WithCartFits
  <2>2. req' = [req EXCEPT ![r] = w]
    BY <1>6, <1>10
  <2> HIDE DEF w
  <2>3. ReqsOK' /\ Turns(r, w) /\ req'[r] = w
    BY <1>1, <2>1, <2>2, TurnsAreOK
  <2>4. CASE GotCart(q, w) /\ w.op = q.op /\ w.owner = q.owner /\ w.listed = q.listed
              /\ w.before = q.before
    <3>1. Entry(w) = Entry(q)
      BY <1>5, <1>10, <2>4 DEF Entry
    <3>2. GotCart(w, w)
      BY <2>4, <3>1 DEF GotCart
    <3>3. Begun(r)
      BY <1>1, <1>5, <1>8, <1>10, <2>3, <2>4, <3>2 DEF Begun, About, b
    <3> QED
      BY <1>1, <1>7, <2>3, <3>3
  <2>5. CASE w = [Idle EXCEPT !.pc = "refused"]
    <3>1. w.op = "none" /\ w.pc = "refused" /\ w.listed = NothingListed /\ w.before = {}
      BY <2>5 DEF Idle, NothingListed
    <3>2. Drops(r)
      BY <1>1, <2>3, <3>1 DEF Drops, Finished, NothingListed
    <3> QED
      BY <1>1, <1>7, <2>3, <3>2
  <2> QED
    BY <2>1, <2>4, <2>5
<1> QED
  BY <1>9, <1>10

\* A request under way is about something.
LEMMA UnderWay ==
    ASSUME ReqsOK, NEW r \in Requests, req[r].pc \in Running
    PROVE  About(req[r]) /\ RequestFits(req[r]) /\ req[r].pc \notin Finished
<1>1. req[r] \in RequestType /\ RequestFits(req[r])
  BY DEF ReqsOK, RequestsFit
<1>2. req[r].pc \notin Finished
  BY DEF Running, Finished
<1> QED
  BY <1>1, <1>2 DEF About, RequestFits

LEMMA FindStep ==
    ASSUME TablesOK, ReqsOK, NEW r \in Requests, FindCart(r)
    PROVE  /\ ReqsOK' /\ Turns(r, req'[r]) /\ UNCHANGED <<carts, line>>
           /\ req[r].pc = "find" /\ req'[r].pc \in {"list", "create", "ok"}
           /\ Keeps(r) /\ req'[r].listed = req[r].listed /\ req'[r].guest = req[r].guest
<1> DEFINE q == req[r]
           w == WithCart(q)
<1>1. q.pc = "find" /\ req' = [req EXCEPT ![r] = w] /\ UNCHANGED <<carts, line>>
  BY DEF FindCart, ReqsOK
<1>2. About(q) /\ q.op = "merge" /\ q.pc \notin Finished
  <2>1. q.pc \in Running
    BY <1>1 DEF Running
  <2> QED
    BY <1>1, <2>1, UnderWay DEF RequestFits
<1> HIDE DEF q
<1>3. /\ w \in RequestType /\ RequestFits(w) /\ w.pc # "idle"
      /\ w.op = q.op /\ w.owner = q.owner /\ w.sku = q.sku /\ w.amount = q.amount
      /\ w.listed = q.listed /\ w.before = q.before /\ w.guest = q.guest
      /\ GotCart(q, w)
  BY <1>2, WithCartFits
<1> HIDE DEF w
<1>4. ReqsOK' /\ Turns(r, w) /\ req'[r] = w
  BY <1>1, <1>2, <1>3, TurnsAreOK DEF q
<1>5. w.pc \in {"list", "create", "ok"}
  BY <1>2, <1>3, EntryFacts DEF GotCart
<1> QED
  BY <1>1, <1>2, <1>3, <1>4, <1>5 DEF Keeps, q

LEMMA CreateStep ==
    ASSUME TablesOK, ReqsOK, NEW r \in Requests, CreateCart(r)
    PROVE  /\ ReqsOK' /\ Turns(r, req'[r]) /\ UNCHANGED line
           /\ req[r].pc = "create"
           /\ \/ carts' = carts /\ (Keeps(r) \/ Drops(r)) /\ req'[r].pc = "failed"
              \/ /\ carts[req[r].owner] = None
                 /\ carts' = [carts EXCEPT ![req[r].owner] = r]
                 /\ Keeps(r) /\ req'[r].guest = req[r].guest /\ req'[r].pc \in {"read", "list", "ok"}
           /\ req'[r].op = "none" \/ req'[r].listed = req[r].listed
<1> DEFINE q == req[r]
           w == [q EXCEPT !.cart = r, !.pc = Entry(q)]
<1>1. q.pc = "create" /\ q.pc \in Running /\ UNCHANGED line
  BY DEF CreateCart, Running
<1>2. About(q) /\ RequestFits(q) /\ q.pc \notin Finished
  BY <1>1, UnderWay
<1>3. CASE carts[q.owner] = None
  <2>1. carts' = [carts EXCEPT ![q.owner] = r] /\ req' = [req EXCEPT ![r] = w]
    BY <1>3 DEF CreateCart, ReqsOK
  <2>2. q.op \in {"add", "merge"}
    BY <1>1, <1>2 DEF RequestFits
  <2> HIDE DEF q
  <2>3. r \in Names
    BY Apart
  <2>4. /\ w \in RequestType /\ RequestFits(w)
        /\ w.op = q.op /\ w.owner = q.owner /\ w.sku = q.sku /\ w.amount = q.amount
        /\ w.listed = q.listed /\ w.before = q.before /\ w.guest = q.guest
        /\ w.cart = r /\ w.pc = Entry(q) /\ w.pc # "idle"
    BY <1>2, <2>3, EntryFits
  <2> HIDE DEF w
  <2>5. ReqsOK' /\ Turns(r, w) /\ req'[r] = w
    BY <1>2, <2>1, <2>4, TurnsAreOK DEF q
  <2>6. w.pc \in {"read", "list", "ok"}
    BY <1>2, <2>2, <2>4, EntryFacts
  <2> QED
    BY <1>1, <1>2, <1>3, <2>1, <2>4, <2>5, <2>6 DEF Keeps, q, About
<1>4. CASE carts[q.owner] # None
  <2>1. carts' = carts /\ GoOn(r, "failed")
    BY <1>4 DEF CreateCart
  <2>2. End(r, "failed") /\ "failed" \in Finished /\ q.op # "none"
    BY <1>2, <2>1 DEF GoOn, Finished, About
  <2> QED
    BY <1>1, <2>1, <2>2, EndTurns DEF Drops
<1> QED
  BY <1>3, <1>4

\* A cart that is not there any more has no items.
LEMMA ItemFacts ==
    ASSUME TablesOK, NEW c, NEW o \in Owners, NEW s \in Skus
    PROVE  LET l == ItemsOf(c, o)[s]
           IN  /\ l \in LineType
               /\ l = NoLine <=> l.quantity = 0
               /\ l.id = None <=> l.quantity = 0
               /\ \/ l = line[o][s] /\ carts[o] = c
                  \/ l = NoLine /\ carts[o] # c
<1>1. CASE carts[o] = c
  <2>1. ItemsOf(c, o)[s] = line[o][s]
    BY <1>1 DEF ItemsOf
  <2> QED
    BY <1>1, <2>1, NoLineIsEmpty
<1>2. CASE carts[o] # c
  <2>1. ItemsOf(c, o)[s] = NoLine
    BY <1>2 DEF ItemsOf
  <2> QED
    BY <1>2, <2>1, NoLineFacts
<1> QED
  BY <1>1, <1>2

LEMMA ReadStep ==
    ASSUME TablesOK, ReqsOK, NEW r \in Requests, ReadItem(r)
    PROVE  /\ ReqsOK' /\ Turns(r, req'[r]) /\ UNCHANGED <<carts, line>>
           /\ req[r].pc = "read"
           /\ \/ Drops(r)
              \/ /\ Keeps(r) /\ req'[r].pc = "write" /\ req'[r].listed = req[r].listed
                 /\ LET o == req[r].owner
                        s == req[r].sku
                        l == ItemsOf(req[r].cart, o)[s]
                    IN  /\ o \in Owners /\ s \in Skus
                        /\ req'[r].item = l.id /\ req'[r].seen = l.quantity
                        /\ req[r].op # "add" => l # NoLine
                        /\ req[r].amount + (IF req[r].op = "add" THEN l.quantity ELSE 0) <= Shelf[s]
<1> DEFINE q == req[r]
           l == ItemsOf(q.cart, q.owner)[q.sku]
           total == q.amount + IF q.op = "add" THEN l.quantity ELSE 0
           w == [q EXCEPT !.item = l.id, !.seen = l.quantity, !.pc = "write"]
<1>1. q.pc = "read" /\ q.pc \in Running /\ UNCHANGED <<carts, line>>
  BY DEF ReadItem, Running
<1>2. About(q) /\ RequestFits(q) /\ q.pc \notin Finished /\ Writes(q)
  BY <1>1, UnderWay DEF RequestFits
<1>3. q.owner \in Owners /\ q.sku \in Skus
  BY <1>2 DEF About, RequestType
<1>4. \/ /\ total <= Shelf[q.sku]
         /\ q.op = "add" \/ l # NoLine
         /\ req' = [req EXCEPT ![r] = w]
      \/ GoOn(r, "refused")
  BY DEF ReadItem, ReqsOK
<1>5. /\ l \in LineType
      /\ l = NoLine <=> l.quantity = 0
      /\ l.id = None <=> l.quantity = 0
  BY <1>3, ItemFacts
<1>6. CASE GoOn(r, "refused")
  <2>1. End(r, "refused") /\ "refused" \in Finished /\ q.op # "none" /\ q.op # "merge"
    BY <1>2, <1>6 DEF GoOn, Finished, Writes
  <2>2. ReqsOK' /\ Turns(r, req'[r]) /\ Drops(r)
    BY <1>1, <2>1, EndTurns
  <2> QED
    BY <1>1, <2>2
<1>7. CASE /\ total <= Shelf[q.sku]
           /\ q.op = "add" \/ l # NoLine
           /\ req' = [req EXCEPT ![r] = w]
  <2> HIDE DEF l
  <2>1. w \in RequestType
    BY <1>2, <1>5 DEF About, RequestType, LineType, Running
  <2>2. /\ w.op = q.op /\ w.owner = q.owner /\ w.sku = q.sku /\ w.amount = q.amount
        /\ w.listed = q.listed /\ w.before = q.before /\ w.pc = "write"
        /\ w.item = l.id /\ w.seen = l.quantity /\ w.cart = q.cart
    BY <1>2 DEF About, RequestType
  <2>3. RequestFits(w)
    <3> HIDE DEF w, q
    <3> QED
      BY <1>1, <1>2, <1>5, <1>7, <2>2 DEF RequestFits, q, Writes, About
  <2>4. ReqsOK' /\ Turns(r, w) /\ req'[r] = w
    <3> HIDE DEF w
    <3>1. w.pc # "idle"
      BY <2>2
    <3> QED
      BY <1>2, <1>7, <2>1, <2>3, <3>1, TurnsAreOK DEF q
  <2>5. Keeps(r)
    <3> HIDE DEF w
    <3> QED
      BY <1>2, <2>2, <2>4 DEF Keeps, About
  <2> HIDE DEF w
  <2> QED
    BY <1>1, <1>3, <1>7, <2>2, <2>4, <2>5 DEF l
<1> QED
  BY <1>4, <1>6, <1>7

-----------------------------------------------------------------------------
(* What each action does to the tables. *)

MayStand(o, l) ==
    /\ l.id = None <=> l.quantity = 0
    /\ l.by = None <=> l.quantity = 0
    /\ l.quantity # 0 => carts[o] # None

LEMMA LinePut ==
    ASSUME TablesOK, UNCHANGED carts, NEW o \in Owners, NEW s \in Skus, NEW l \in LineType,
           Put(o, s, l), MayStand(o, l)
    PROVE  /\ TablesOK'
           /\ line'[o][s] = l
           /\ \A p \in Owners, x \in Skus : <<p, x>> # <<o, s>> => line'[p][x] = line[p][x]
<1>1. line \in [Owners -> [Skus -> LineType]]
  BY DEF TablesOK
<1>2. line' \in [Owners -> [Skus -> LineType]]
  BY <1>1 DEF Put
<1>3. line'[o][s] = l /\ \A p \in Owners, x \in Skus : <<p, x>> # <<o, s>> => line'[p][x] = line[p][x]
  BY <1>1 DEF Put
<1>4. ASSUME NEW p \in Owners, NEW x \in Skus
      PROVE  LET k == line'[p][x]
             IN  /\ k.id = None <=> k.quantity = 0
                 /\ k.by = None <=> k.quantity = 0
                 /\ k.quantity # 0 => carts[p] # None
  <2>1. CASE <<p, x>> = <<o, s>>
    BY <1>3, <2>1 DEF MayStand
  <2>2. CASE <<p, x>> # <<o, s>>
    BY <1>3, <2>2 DEF TablesOK, LinesHaveNames
  <2> QED
    BY <2>1, <2>2
<1> QED
  BY <1>2, <1>3, <1>4 DEF TablesOK, LinesHaveNames

LEMMA LinesGone ==
    ASSUME TablesOK, NEW o \in Owners,
           line' = [line EXCEPT ![o] = [s \in Skus |-> NoLine]],
           carts' \in [Owners -> Names \cup {None}], \A p \in Owners \ {o} : carts'[p] = carts[p]
    PROVE  /\ TablesOK'
           /\ \A s \in Skus : line'[o][s] = NoLine
           /\ \A p \in Owners \ {o} : line'[p] = line[p]
<1>1. line \in [Owners -> [Skus -> LineType]]
  BY DEF TablesOK
<1>2. /\ \A s \in Skus : line'[o][s] = NoLine
      /\ \A p \in Owners \ {o} : line'[p] = line[p]
  BY <1>1
<1>3. line' \in [Owners -> [Skus -> LineType]]
  BY <1>1, NoLineFacts
<1>4. \A s \in Skus : line'[o][s].id = None /\ line'[o][s].by = None /\ line'[o][s].quantity = 0
  BY <1>2, NoLineFacts
<1> QED
  BY <1>2, <1>3, <1>4 DEF TablesOK, LinesHaveNames

NewQuantity(q) ==
    IF q.op = "merge" THEN q.listed[q.sku]
    ELSE IF q.op = "update" THEN q.amount ELSE q.seen + q.amount

\* r writes the item it is about, with what it computed.
Applies(r) ==
    LET o == req[r].owner
        s == req[r].sku
        l == line[o][s]
    IN  /\ UNCHANGED carts
        /\ line'[o][s] = Row(IF req[r].item = None THEN r ELSE req[r].item, r, NewQuantity(req[r]))
        /\ \A p \in Owners, x \in Skus : <<p, x>> # <<o, s>> => line'[p][x] = line[p][x]
        /\ IF req[r].item = None THEN l = NoLine ELSE l.id = req[r].item

AtWrite(r) ==
    /\ req[r].op \in {"add", "update", "merge"}
    /\ req[r].pc = IF req[r].op = "merge" THEN "merge" ELSE "write"

LEMMA WritersFacts ==
    ASSUME TablesOK, ReqsOK, NEW r \in Requests, AtWrite(r)
    PROVE  /\ About(req[r]) /\ RequestFits(req[r])
           /\ req[r].pc \notin Finished /\ req[r].pc \in Running
           /\ req[r].owner \in Owners /\ req[r].sku \in Skus
           /\ NewQuantity(req[r]) \in Nat \ {0}
           /\ req[r].cart # None
           /\ req[r].item = None => req[r].op # "update" /\ req[r].seen = 0
<1> DEFINE q == req[r]
<1>1. q.pc \in Running
  BY DEF AtWrite, Running
<1>2. About(q) /\ RequestFits(q) /\ q.pc \notin Finished
  BY <1>1, UnderWay
<1>3. /\ q.owner \in Owners /\ q.seen \in Nat /\ q.listed \in [Skus -> Nat] /\ q.amount \in Nat
      /\ q.cart # None
  BY <1>2 DEF About, RequestType, RequestFits, AtWrite
<1>4. CASE q.op = "merge"
  <2>1. q.pc = "merge" /\ q.sku \in Skus /\ q.seen < q.listed[q.sku]
    BY <1>2, <1>4 DEF AtWrite, RequestFits
  <2>2. q.item = None => q.seen = 0
    BY <1>2, <2>1 DEF RequestFits
  <2>3. NewQuantity(q) = q.listed[q.sku]
    BY <1>4 DEF NewQuantity
  <2> HIDE DEF q
  <2>4. NewQuantity(q) \in Nat \ {0}
    BY <1>3, <2>1, <2>3
  <2> QED
    BY <1>1, <1>2, <1>3, <1>4, <2>1, <2>2, <2>4 DEF q
<1>5. CASE q.op \in {"add", "update"}
  <2>1. q.pc = "write" /\ q.sku \in Skus /\ q.amount \in Amounts
    BY <1>2, <1>5 DEF AtWrite, RequestFits, Writes
  <2>2. q.item = None => q.op # "update" /\ q.seen = 0
    BY <1>2, <2>1 DEF RequestFits
  <2>3. NewQuantity(q) = IF q.op = "update" THEN q.amount ELSE q.seen + q.amount
    BY <1>5 DEF NewQuantity
  <2> HIDE DEF q
  <2>4. NewQuantity(q) \in Nat \ {0}
    BY <1>3, <2>1, <2>3, Apart
  <2> QED
    BY <1>1, <1>2, <1>3, <2>1, <2>2, <2>4 DEF q
<1> QED
  BY <1>4, <1>5 DEF AtWrite

LEMMA AppliesKeepsTables ==
    ASSUME TablesOK, ReqsOK, NEW r \in Requests, AtWrite(r),
           LET o == req[r].owner
               s == req[r].sku
           IN  /\ UNCHANGED carts
               /\ Put(o, s, Row(IF req[r].item = None THEN r ELSE req[r].item, r, NewQuantity(req[r])))
               /\ IF req[r].item = None THEN line[o][s] = NoLine /\ carts[o] = req[r].cart
                  ELSE line[o][s].id = req[r].item
               /\ carts[o] # None
    PROVE  TablesOK' /\ Applies(r)
<1> DEFINE o == req[r].owner
           s == req[r].sku
           l == Row(IF req[r].item = None THEN r ELSE req[r].item, r, NewQuantity(req[r]))
<1>1. o \in Owners /\ s \in Skus /\ NewQuantity(req[r]) \in Nat \ {0} /\ req[r].item \in Names \cup {None}
  BY WritersFacts DEF About, RequestType
<1>2. l \in LineType /\ l.id # None /\ l.by # None /\ l.quantity # 0
  BY <1>1, Apart DEF LineType, Row
<1>3. Put(o, s, l) /\ UNCHANGED carts /\ carts[o] # None
  OBVIOUS
<1> HIDE DEF l
<1>4. /\ TablesOK' /\ line'[o][s] = l
      /\ \A p \in Owners, x \in Skus : <<p, x>> # <<o, s>> => line'[p][x] = line[p][x]
  <2> HIDE DEF o, s
  <2>1. MayStand(o, l)
    BY <1>2, <1>3 DEF MayStand
  <2> QED
    BY <1>1, <1>2, <1>3, <2>1, LinePut
<1> QED
  BY <1>3, <1>4 DEF Applies, l

-----------------------------------------------------------------------------
(* The steps that write items. *)

\* r goes on, or ends, after it wrote.
GoesOn(r) ==
    /\ Keeps(r) /\ req'[r].listed = req[r].listed
    /\ IF req[r].op = "merge" THEN req'[r].pc = "next" /\ req'[r].todo = req[r].todo
       ELSE req'[r].pc = "ok"

\* It found nothing to write to.
Misses(r) ==
    /\ UNCHANGED <<carts, line>>
    /\ IF req[r].op = "merge"
       THEN /\ Keeps(r) /\ req'[r].listed = req[r].listed
            /\ req'[r].pc = "failed" \/ (GoesOn(r) /\ req[r].item # None /\ ~Alive(r))
       ELSE Drops(r)

LEMMA GoOnIsOK ==
    ASSUME TablesOK, ReqsOK, NEW r \in Requests, AtWrite(r),
           GoOn(r, IF req[r].op = "merge" THEN "next" ELSE "ok")
    PROVE  ReqsOK' /\ Turns(r, req'[r]) /\ GoesOn(r)
<1>1. About(req[r]) /\ req[r].pc \in Running
  BY WritersFacts
<1>2. CASE req[r].op = "merge"
  <2>1. To(r, "next") /\ req[r].pc = "merge"
    BY <1>2 DEF GoOn, Finished, AtWrite
  <2>2. /\ ReqsOK' /\ Turns(r, req'[r]) /\ req'[r] = [req[r] EXCEPT !.pc = "next"]
        /\ Keeps(r) /\ req'[r].listed = req[r].listed
    BY <2>1, ToTurns
  <2>3. req'[r].pc = "next" /\ req'[r].todo = req[r].todo
    BY <1>1, <2>2 DEF About, RequestType
  <2> QED
    BY <1>2, <2>2, <2>3 DEF GoesOn
<1>3. CASE req[r].op # "merge"
  <2>1. End(r, "ok") /\ "ok" \in Finished
    BY <1>3 DEF GoOn, Finished
  <2> QED
    BY <1>1, <1>3, <2>1, EndTurns DEF GoesOn
<1> QED
  BY <1>2, <1>3

LEMMA EndMisses ==
    ASSUME TablesOK, ReqsOK, NEW r \in Requests, AtWrite(r), UNCHANGED <<carts, line>>,
           NEW how \in {"failed", "refused"}, GoOn(r, how), req[r].op = "merge" => how = "failed"
    PROVE  TablesOK' /\ ReqsOK' /\ Turns(r, req'[r]) /\ Misses(r)
<1>1. About(req[r]) /\ req[r].pc \in Running
  BY WritersFacts
<1>2. End(r, how) /\ how \in Finished /\ how # "ok"
  BY DEF GoOn, Finished
<1>3. /\ ReqsOK' /\ Turns(r, req'[r]) /\ req'[r].pc = how
      /\ \/ req[r].op = "merge" /\ Keeps(r) /\ req'[r].listed = req[r].listed
         \/ Drops(r)
  BY <1>1, <1>2, EndTurns DEF About
<1>4. Misses(r)
  <2>1. CASE req[r].op = "merge"
    <3>1. Keeps(r) /\ req'[r].listed = req[r].listed /\ req'[r].pc = "failed"
      BY <1>3, <2>1 DEF Drops
    <3> QED
      BY <2>1, <3>1 DEF Misses
  <2>2. CASE req[r].op # "merge"
    BY <1>3, <2>2 DEF Misses
  <2> QED
    BY <2>1, <2>2
<1> QED
  BY <1>3, <1>4 DEF TablesOK, LinesHaveNames

LEMMA InsertStep ==
    ASSUME TablesOK, ReqsOK, NEW r \in Requests, AtWrite(r), req[r].item = None,
           UNCHANGED carts,
           Insert(r, NewQuantity(req[r]), IF req[r].op = "merge" THEN "next" ELSE "ok")
    PROVE  /\ TablesOK' /\ ReqsOK' /\ Turns(r, req'[r])
           /\ (Applies(r) /\ GoesOn(r)) \/ Misses(r)
<1> DEFINE o == req[r].owner
           s == req[r].sku
<1>1. CASE carts[o] = req[r].cart /\ line[o][s] = NoLine
  <2>1. /\ Put(o, s, Row(r, r, NewQuantity(req[r])))
        /\ GoOn(r, IF req[r].op = "merge" THEN "next" ELSE "ok")
    BY <1>1 DEF Insert
  <2>2. TablesOK' /\ Applies(r)
    BY <1>1, <2>1, WritersFacts, AppliesKeepsTables
  <2> QED
    BY <2>1, <2>2, GoOnIsOK
<1>2. CASE ~(carts[o] = req[r].cart /\ line[o][s] = NoLine)
  <2>1. GoOn(r, "failed") /\ UNCHANGED <<carts, line>>
    BY <1>2 DEF Insert
  <2> QED
    BY <2>1, EndMisses
<1> QED
  BY <1>1, <1>2

LEMMA UpdateStep ==
    ASSUME TablesOK, ReqsOK, NEW r \in Requests, AtWrite(r), req[r].item # None,
           UNCHANGED carts, NEW gone,
           gone = IF req[r].op = "merge" THEN "next" ELSE IF req[r].op = "add" THEN "failed" ELSE "refused",
           Update(r, NewQuantity(req[r]), IF req[r].op = "merge" THEN "next" ELSE "ok", gone)
    PROVE  /\ TablesOK' /\ ReqsOK' /\ Turns(r, req'[r])
           /\ (Applies(r) /\ GoesOn(r)) \/ Misses(r)
<1> DEFINE o == req[r].owner
           s == req[r].sku
<1>1. CASE Alive(r)
  <2>1. /\ Put(o, s, Row(req[r].item, r, NewQuantity(req[r])))
        /\ GoOn(r, IF req[r].op = "merge" THEN "next" ELSE "ok")
    BY <1>1 DEF Update
  <2>2. o \in Owners /\ s \in Skus
    BY WritersFacts
  <2>3. line[o][s].id = req[r].item
    BY <1>1 DEF Alive
  <2>4. carts[o] # None
    BY <2>2, <2>3 DEF TablesOK, LinesHaveNames
  <2>5. TablesOK' /\ Applies(r)
    BY <2>1, <2>3, <2>4, AppliesKeepsTables
  <2> QED
    BY <2>1, <2>5, GoOnIsOK
<1>2. CASE ~Alive(r)
  <2>1. GoOn(r, gone) /\ UNCHANGED <<carts, line>>
    BY <1>2 DEF Update
  <2>2. CASE req[r].op = "merge"
    <3>1. ReqsOK' /\ Turns(r, req'[r]) /\ GoesOn(r)
      BY <2>1, <2>2, GoOnIsOK
    <3>2. Misses(r)
      BY <1>2, <2>1, <2>2, <3>1 DEF Misses, GoesOn
    <3> QED
      BY <2>1, <3>1, <3>2 DEF TablesOK, LinesHaveNames
  <2>3. CASE req[r].op # "merge"
    BY <2>1, <2>3, EndMisses
  <2> QED
    BY <2>2, <2>3
<1> QED
  BY <1>1, <1>2

LEMMA WriteStep ==
    ASSUME TablesOK, ReqsOK, NEW r \in Requests, Add(r) \/ UpdateItem(r) \/ MergeItem(r)
    PROVE  /\ TablesOK' /\ ReqsOK' /\ Turns(r, req'[r])
           /\ AtWrite(r)
           /\ (Applies(r) /\ GoesOn(r)) \/ Misses(r)
<1>1. UNCHANGED carts
  BY DEF Add, UpdateItem, MergeItem
<1>2. AtWrite(r)
  <2>1. req[r].pc = "merge" => req[r].op = "merge"
    BY DEF ReqsOK, RequestsFit, RequestFits
  <2>2. req[r].pc = "write" => req[r].op # "merge"
    BY DEF ReqsOK, RequestsFit, RequestFits, Writes
  <2> QED
    BY <2>1, <2>2 DEF Add, UpdateItem, MergeItem, AtWrite
<1>3. /\ req[r].item = None => req[r].op # "update" /\ req[r].seen = 0
      /\ req[r].amount \in Nat
  BY <1>2, WritersFacts DEF About, RequestType
<1>4. CASE Add(r)
  <2>1. req[r].op = "add" /\ NewQuantity(req[r]) = req[r].seen + req[r].amount
    BY <1>4 DEF Add, NewQuantity
  <2>2. CASE req[r].item = None
    <3>1. NewQuantity(req[r]) = req[r].amount
      BY <1>3, <2>1, <2>2
    <3>2. Insert(r, NewQuantity(req[r]), "ok")
      BY <1>4, <2>2, <3>1 DEF Add
    <3> QED
      BY <1>1, <1>2, <2>1, <2>2, <3>2, InsertStep
  <2>3. CASE req[r].item # None
    <3>1. Update(r, NewQuantity(req[r]), "ok", "failed")
      BY <1>4, <2>1, <2>3 DEF Add
    <3> QED
      BY <1>1, <1>2, <2>1, <2>3, <3>1, UpdateStep
  <2> QED
    BY <2>2, <2>3
<1>5. CASE UpdateItem(r)
  <2>1. req[r].op = "update" /\ NewQuantity(req[r]) = req[r].amount
    BY <1>5 DEF UpdateItem, NewQuantity
  <2>2. Update(r, NewQuantity(req[r]), "ok", "refused") /\ req[r].item # None
    BY <1>3, <1>5, <2>1 DEF UpdateItem
  <2> QED
    BY <1>1, <1>2, <2>1, <2>2, UpdateStep
<1>6. CASE MergeItem(r)
  <2>1. req[r].op = "merge" /\ NewQuantity(req[r]) = req[r].listed[req[r].sku]
    BY <1>2, <1>6 DEF MergeItem, NewQuantity, AtWrite
  <2>2. CASE req[r].item = None
    <3>1. Insert(r, NewQuantity(req[r]), "next")
      BY <1>6, <2>1, <2>2 DEF MergeItem
    <3> QED
      BY <1>1, <1>2, <2>1, <2>2, <3>1, InsertStep
  <2>3. CASE req[r].item # None
    <3>1. Update(r, NewQuantity(req[r]), "next", "next")
      BY <1>6, <2>1, <2>3 DEF MergeItem
    <3> QED
      BY <1>1, <1>2, <2>1, <2>3, <3>1, UpdateStep
  <2> QED
    BY <2>2, <2>3
<1> QED
  BY <1>4, <1>5, <1>6

-----------------------------------------------------------------------------
(* The other steps. *)

LEMMA TablesStay == TablesOK /\ UNCHANGED <<carts, line>> => TablesOK'
BY DEF TablesOK, LinesHaveNames

LEMMA EndOK ==
    ASSUME ReqsOK, NEW r \in Requests, req[r].pc \in Running, GoOn(r, "ok")
    PROVE  /\ ReqsOK' /\ Turns(r, req'[r])
           /\ Keeps(r) /\ req'[r].listed = req[r].listed /\ req'[r].pc = "ok"
BY EndTurns DEF GoOn, Finished

LEMMA RemoveStep ==
    ASSUME TablesOK, ReqsOK, NEW r \in Requests, RemoveItem(r)
    PROVE  LET o == req[r].owner
               s == req[r].sku
           IN  /\ TablesOK' /\ ReqsOK' /\ Turns(r, req'[r]) /\ UNCHANGED carts
               /\ req[r].pc = "write" /\ req[r].op = "remove" /\ req[r].item # None
               /\ o \in Owners /\ s \in Skus
               /\ Keeps(r) /\ req'[r].listed = req[r].listed /\ req'[r].pc = "ok"
               /\ \/ ~Alive(r) /\ UNCHANGED line
                  \/ /\ Alive(r) /\ line'[o][s] = NoLine
                     /\ \A p \in Owners, x \in Skus : <<p, x>> # <<o, s>> => line'[p][x] = line[p][x]
<1> DEFINE o == req[r].owner
           s == req[r].sku
<1>1. req[r].pc = "write" /\ req[r].op = "remove" /\ req[r].pc \in Running /\ UNCHANGED carts
  BY DEF RemoveItem, Running
<1>2. About(req[r]) /\ RequestFits(req[r])
  BY <1>1, UnderWay
<1>3. o \in Owners /\ s \in Skus /\ req[r].item # None
  BY <1>1, <1>2 DEF About, RequestType, Writes, RequestFits
<1>4. /\ ReqsOK' /\ Turns(r, req'[r])
      /\ Keeps(r) /\ req'[r].listed = req[r].listed /\ req'[r].pc = "ok"
  BY <1>1, EndOK DEF RemoveItem
<1>5. CASE Alive(r)
  <2>1. Put(o, s, NoLine)
    BY <1>5 DEF RemoveItem
  <2>2. MayStand(o, NoLine) /\ NoLine \in LineType
    BY NoLineFacts DEF MayStand
  <2> HIDE DEF o, s
  <2>3. /\ TablesOK' /\ line'[o][s] = NoLine
        /\ \A p \in Owners, x \in Skus : <<p, x>> # <<o, s>> => line'[p][x] = line[p][x]
    BY <1>1, <1>3, <2>1, <2>2, LinePut
  <2> QED
    BY <1>1, <1>3, <1>4, <1>5, <2>3 DEF o, s
<1>6. CASE ~Alive(r)
  <2>1. UNCHANGED line
    BY <1>6 DEF RemoveItem
  <2> QED
    BY <1>1, <1>3, <1>4, <1>6, <2>1, TablesStay
<1> QED
  BY <1>5, <1>6

LEMMA ClearStep ==
    ASSUME TablesOK, ReqsOK, NEW r \in Requests, ClearCart(r)
    PROVE  LET o == req[r].owner
           IN  /\ TablesOK' /\ ReqsOK' /\ Turns(r, req'[r]) /\ UNCHANGED carts
               /\ req[r].pc = "clear" /\ req[r].op = "clear" /\ req[r].cart # None
               /\ o \in Owners
               /\ Keeps(r) /\ req'[r].listed = req[r].listed /\ req'[r].pc = "ok"
               /\ \/ carts[o] # req[r].cart /\ UNCHANGED line
                  \/ /\ carts[o] = req[r].cart
                     /\ \A s \in Skus : line'[o][s] = NoLine
                     /\ \A p \in Owners \ {o} : line'[p] = line[p]
<1> DEFINE o == req[r].owner
<1>1. req[r].pc = "clear" /\ req[r].pc \in Running /\ UNCHANGED carts
  BY DEF ClearCart, Running
<1>2. About(req[r]) /\ RequestFits(req[r])
  BY <1>1, UnderWay
<1>3. o \in Owners /\ req[r].op = "clear" /\ req[r].cart # None
  BY <1>1, <1>2 DEF About, RequestType, RequestFits
<1>4. /\ ReqsOK' /\ Turns(r, req'[r])
      /\ Keeps(r) /\ req'[r].listed = req[r].listed /\ req'[r].pc = "ok"
  BY <1>1, EndOK DEF ClearCart
<1>5. CASE carts[o] = req[r].cart
  <2>1. line' = [line EXCEPT ![o] = [s \in Skus |-> NoLine]]
    BY <1>5 DEF ClearCart
  <2>2. carts' \in [Owners -> Names \cup {None}] /\ \A p \in Owners \ {o} : carts'[p] = carts[p]
    BY <1>1 DEF TablesOK
  <2> HIDE DEF o
  <2>3. /\ TablesOK'
        /\ \A s \in Skus : line'[o][s] = NoLine
        /\ \A p \in Owners \ {o} : line'[p] = line[p]
    BY <1>3, <2>1, <2>2, LinesGone
  <2> QED
    BY <1>1, <1>3, <1>4, <1>5, <2>3 DEF o
<1>6. CASE carts[o] # req[r].cart
  <2>1. UNCHANGED line
    BY <1>6 DEF ClearCart
  <2> QED
    BY <1>1, <1>3, <1>4, <1>6, <2>1, TablesStay
<1> QED
  BY <1>5, <1>6

LEMMA ListStep ==
    ASSUME TablesOK, ReqsOK, NEW r \in Requests, ListItems(r)
    PROVE  /\ TablesOK' /\ ReqsOK' /\ Turns(r, req'[r]) /\ UNCHANGED <<carts, line>>
           /\ req[r].pc = "list" /\ req[r].op = "merge" /\ req'[r].pc = "next"
           /\ Keeps(r)
           /\ \A s \in Skus :
                LET l == ItemsOf(req[r].guest, "guest")[s]
                IN  /\ req'[r].listed[s] = l.quantity
                    /\ s \in req'[r].todo <=> l # NoLine
<1> DEFINE q == req[r]
           l == ItemsOf(q.guest, "guest")
           a == [s \in Skus |-> l[s].quantity]
           b == {s \in Skus : l[s] # NoLine}
           w == [q EXCEPT !.listed = a, !.todo = b, !.pc = "next"]
<1>1. q.pc = "list" /\ q.pc \in Running /\ UNCHANGED <<carts, line>> /\ req' = [req EXCEPT ![r] = w]
  BY DEF ListItems, Running, ReqsOK
<1>2. About(q) /\ RequestFits(q) /\ q.pc \notin Finished /\ q.op = "merge" /\ q.cart # None
  BY <1>1, UnderWay DEF RequestFits
<1>3. \A s \in Skus : l[s] \in LineType
  BY ItemFacts DEF Owners
<1> HIDE DEF q, l
<1>4. a \in [Skus -> Nat] /\ b \in SUBSET Skus
  BY <1>3 DEF LineType
<1>5. \A s \in Skus : a[s] = l[s].quantity /\ (s \in b <=> l[s] # NoLine)
  OBVIOUS
<1> HIDE DEF a, b
<1>6. w \in RequestType
  BY <1>2, <1>4 DEF About, RequestType, Running
<1>7. /\ w.op = "merge" /\ w.owner = q.owner /\ w.amount = q.amount /\ w.before = q.before
      /\ w.pc = "next" /\ w.cart = q.cart /\ w.listed = a /\ w.todo = b
  BY <1>2 DEF About, RequestType
<1> HIDE DEF w
<1>8. RequestFits(w) /\ w.pc # "idle"
  BY <1>2, <1>7 DEF RequestFits, About, Writes
<1>9. ReqsOK' /\ Turns(r, w) /\ req'[r] = w
  BY <1>1, <1>2, <1>6, <1>8, TurnsAreOK DEF q
<1>10. Keeps(r)
  BY <1>2, <1>7, <1>9 DEF Keeps, q
<1> QED
  BY <1>1, <1>2, <1>5, <1>7, <1>9, <1>10, TablesStay DEF q, l

LEMMA NextStep ==
    ASSUME TablesOK, ReqsOK, NEW r \in Requests, NextItem(r)
    PROVE  /\ TablesOK' /\ ReqsOK' /\ Turns(r, req'[r]) /\ UNCHANGED <<carts, line>>
           /\ req[r].pc = "next" /\ req[r].op = "merge" /\ req'[r].pc \in {"next", "merge"}
           /\ Keeps(r) /\ req'[r].listed = req[r].listed
           /\ \E s \in req[r].todo :
                LET l == ItemsOf(req[r].cart, "buyer")[s]
                IN  /\ s \in Skus
                    /\ req'[r].sku = s /\ req'[r].item = l.id /\ req'[r].seen = l.quantity
                    /\ req'[r].todo = req[r].todo \ {s}
                    /\ req'[r].pc = "merge" <=> l.quantity < req[r].listed[s]
<1> DEFINE q == req[r]
<1>1. q.pc = "next" /\ q.pc \in Running /\ UNCHANGED <<carts, line>>
  BY DEF NextItem, Running
<1>2. About(q) /\ RequestFits(q) /\ q.pc \notin Finished /\ q.op = "merge" /\ q.cart # None
  BY <1>1, UnderWay DEF RequestFits
<1>3. PICK s \in req[r].todo :
        LET l == ItemsOf(req[r].cart, "buyer")[s]
        IN  req' = [req EXCEPT ![r].sku = s, ![r].item = l.id, ![r].seen = l.quantity,
                               ![r].todo = @ \ {s},
                               ![r].pc = IF l.quantity < req[r].listed[s] THEN "merge" ELSE "next"]
  BY Zenon DEF NextItem
<1> DEFINE l == ItemsOf(q.cart, "buyer")[s]
           to == IF l.quantity < q.listed[s] THEN "merge" ELSE "next"
           w == [q EXCEPT !.sku = s, !.item = l.id, !.seen = l.quantity, !.todo = q.todo \ {s},
                          !.pc = to]
<1>4. s \in Skus
  BY <1>2 DEF About, RequestType
<1>5. l \in LineType /\ (l.id = None <=> l.quantity = 0)
  BY <1>4, ItemFacts DEF Owners
<1>6. req' = [req EXCEPT ![r] = w]
  BY <1>3
<1> HIDE DEF q, l
<1>7. to \in {"merge", "next"} /\ (to = "merge" <=> l.quantity < q.listed[s])
  OBVIOUS
<1> HIDE DEF to
<1>8. w \in RequestType
  BY <1>2, <1>4, <1>5, <1>7 DEF About, RequestType, LineType, Running
<1>9. /\ w.op = "merge" /\ w.owner = q.owner /\ w.amount = q.amount /\ w.before = q.before
      /\ w.pc = to /\ w.cart = q.cart /\ w.listed = q.listed /\ w.todo = q.todo \ {s}
      /\ w.sku = s /\ w.item = l.id /\ w.seen = l.quantity
  BY <1>2 DEF About, RequestType
<1> HIDE DEF w
<1>10. RequestFits(w) /\ w.pc # "idle"
  BY <1>2, <1>4, <1>5, <1>7, <1>9 DEF RequestFits, About, Writes
<1>11. ReqsOK' /\ Turns(r, w) /\ req'[r] = w
  BY <1>2, <1>6, <1>8, <1>10, TurnsAreOK DEF q
<1>12. Keeps(r)
  BY <1>2, <1>9, <1>11 DEF Keeps, q
<1> QED
  BY <1>1, <1>2, <1>3, <1>4, <1>7, <1>9, <1>11, <1>12, TablesStay DEF q, l

LEMMA DeleteStep ==
    ASSUME TablesOK, ReqsOK, NEW r \in Requests, DeleteGuestCart(r)
    PROVE  /\ TablesOK' /\ ReqsOK' /\ Turns(r, req'[r])
           /\ carts'["guest"] = None /\ carts'["buyer"] = carts["buyer"]
           /\ \A s \in Skus : line'["guest"][s] = NoLine
           /\ line'["buyer"] = line["buyer"]
           /\ req[r].pc = "next" /\ req[r].op = "merge" /\ req[r].todo = {}
           /\ Keeps(r) /\ req'[r].listed = req[r].listed /\ req'[r].pc = "ok"
<1>1. req[r].pc = "next" /\ req[r].pc \in Running /\ req[r].todo = {}
  BY DEF DeleteGuestCart, Running
<1>2. req[r].op = "merge"
  BY <1>1, UnderWay DEF RequestFits
<1>3. /\ ReqsOK' /\ Turns(r, req'[r])
      /\ Keeps(r) /\ req'[r].listed = req[r].listed /\ req'[r].pc = "ok"
  BY <1>1, EndOK DEF DeleteGuestCart
<1>4. line' = [line EXCEPT !["guest"] = [s \in Skus |-> NoLine]]
  BY DEF DeleteGuestCart
<1>5. /\ carts' \in [Owners -> Names \cup {None}] /\ \A p \in Owners \ {"guest"} : carts'[p] = carts[p]
      /\ carts'["guest"] = None
  BY DEF DeleteGuestCart, TablesOK, Owners
<1>6. /\ TablesOK'
      /\ \A s \in Skus : line'["guest"][s] = NoLine
      /\ \A p \in Owners \ {"guest"} : line'[p] = line[p]
  BY <1>4, <1>5, LinesGone DEF Owners
<1> QED
  BY <1>1, <1>2, <1>3, <1>5, <1>6 DEF Owners

LEMMA DieStep ==
    ASSUME TablesOK, ReqsOK, NEW r \in Requests, Die(r)
    PROVE  /\ TablesOK' /\ ReqsOK' /\ Turns(r, req'[r]) /\ UNCHANGED <<carts, line>>
           /\ req[r].pc \in {"list", "next", "merge"} /\ req[r].op = "merge"
           /\ Keeps(r) /\ req'[r].listed = req[r].listed /\ req'[r].pc = "died"
<1>1. req[r].pc \in {"list", "next", "merge"} /\ req[r].pc \in Running /\ UNCHANGED <<carts, line>>
  BY DEF Die, Running
<1>2. req[r].op = "merge"
  BY <1>1, UnderWay DEF RequestFits
<1>3. End(r, "died") /\ "died" \in Finished
  BY DEF Die, GoOn, Finished
<1> QED
  BY <1>1, <1>2, <1>3, EndTurns, TablesStay DEF Drops

-----------------------------------------------------------------------------
(* What the steps have in common. *)

CartStep(r) ==
    \/ Begin(r) \/ FindCart(r) \/ CreateCart(r) \/ ReadItem(r)
    \/ Add(r) \/ UpdateItem(r) \/ RemoveItem(r) \/ ClearCart(r)
    \/ ListItems(r) \/ NextItem(r) \/ MergeItem(r) \/ DeleteGuestCart(r)
    \/ Die(r)

LEMMA CreateKeepsTables ==
    ASSUME TablesOK, NEW r \in Requests, NEW o \in Owners,
           carts' = [carts EXCEPT ![o] = r], UNCHANGED line
    PROVE  TablesOK'
<1>1. carts' \in [Owners -> Names \cup {None}]
  BY Apart DEF TablesOK
<1>2. \A p \in Owners : carts[p] # None => carts'[p] # None
  BY Apart DEF TablesOK
<1> QED
  BY <1>1, <1>2 DEF TablesOK, LinesHaveNames

\* What r has done to an item, or may do to it yet, no one forgets.
Wrote(r, o, s) == Touches(r, o, s) /\ (req[r].op = "merge" \/ req[r].pc = "ok")

\* A line stays, goes, or is written by the request that moves.
LineMoves(r) ==
    \A o \in Owners, s \in Skus :
        \/ line'[o][s] = line[o][s]
        \/ line'[o][s] = NoLine /\ (o = "guest" \/ Wrote(r, o, s)')
        \/ /\ AtWrite(r) /\ Applies(r) /\ GoesOn(r) /\ Wrote(r, o, s)'
           /\ o = req[r].owner /\ s = req[r].sku

LEMMA EndedWell ==
    ASSUME NEW r \in Requests, Keeps(r), req[r].op = "merge" \/ req'[r].pc = "ok",
           NEW o, o = req[r].owner, NEW s, req[r].op \in {"clear", "merge"} \/ req[r].sku = s
    PROVE  Wrote(r, o, s)'
BY DEF Keeps, Wrote, Touches

\* A cart changes only when it is empty before and after.
CartMoves ==
    \A o \in Owners : carts'[o] # carts[o] =>
        /\ \A s \in Skus : line'[o][s] = NoLine
        /\ carts'[o] = None \/ carts[o] = None

LEMMA StepFacts ==
    ASSUME TablesOK, ReqsOK, NEW r \in Requests, CartStep(r)
    PROVE  /\ TablesOK' /\ ReqsOK' /\ Turns(r, req'[r])
           /\ Begun(r) \/ Keeps(r) \/ Drops(r)
           /\ LineMoves(r) /\ CartMoves
<1>1. CASE Begin(r)
  BY <1>1, BeginStep, TablesStay DEF LineMoves, CartMoves
<1>2. CASE FindCart(r)
  BY <1>2, FindStep, TablesStay DEF LineMoves, CartMoves
<1>3. CASE CreateCart(r)
  <2>1. /\ ReqsOK' /\ Turns(r, req'[r]) /\ UNCHANGED line /\ (Keeps(r) \/ Drops(r))
        /\ \/ carts' = carts
           \/ carts[req[r].owner] = None /\ carts' = [carts EXCEPT ![req[r].owner] = r]
    BY <1>3, CreateStep
  <2>2. req[r].owner \in Owners
    BY DEF ReqsOK, RequestType
  <2>3. TablesOK'
    BY <2>1, <2>2, CreateKeepsTables, TablesStay
  <2>4. LineMoves(r)
    BY <2>1 DEF LineMoves
  <2>5. CartMoves
    <3> SUFFICES ASSUME NEW o \in Owners, carts'[o] # carts[o]
                 PROVE  carts[o] = None /\ \A s \in Skus : line'[o][s] = NoLine
      BY DEF CartMoves
    <3>1. carts[o] = None
      BY <2>1 DEF TablesOK
    <3>2. \A s \in Skus : line[o][s] = NoLine
      BY <3>1, NoLineIsEmpty DEF TablesOK
    <3> QED
      BY <2>1, <3>1, <3>2
  <2> QED
    BY <2>1, <2>3, <2>4, <2>5
<1>4. CASE ReadItem(r)
  BY <1>4, ReadStep, TablesStay DEF LineMoves, CartMoves
<1>5. CASE Add(r) \/ UpdateItem(r) \/ MergeItem(r)
  <2>1. /\ TablesOK' /\ ReqsOK' /\ Turns(r, req'[r]) /\ AtWrite(r)
        /\ (Applies(r) /\ GoesOn(r)) \/ Misses(r)
    BY <1>5, WriteStep
  <2>2. Keeps(r) \/ Drops(r)
    BY <2>1 DEF GoesOn, Misses
  <2>3. CASE Applies(r) /\ GoesOn(r)
    <3>1. ASSUME NEW o, o = req[r].owner, NEW s, s = req[r].sku PROVE Wrote(r, o, s)'
      BY <2>3, <3>1, EndedWell DEF GoesOn
    <3>2. LineMoves(r)
      BY <2>1, <2>3, <3>1 DEF Applies, LineMoves
    <3>3. CartMoves
      BY <2>3 DEF Applies, CartMoves
    <3> QED
      BY <2>1, <2>2, <3>2, <3>3
  <2>4. CASE Misses(r)
    BY <2>1, <2>2, <2>4 DEF Misses, LineMoves, CartMoves
  <2> QED
    BY <2>1, <2>3, <2>4
<1>6. CASE RemoveItem(r)
  <2>1. ASSUME NEW o, o = req[r].owner, NEW s, s = req[r].sku PROVE Wrote(r, o, s)'
    BY <1>6, <2>1, RemoveStep, EndedWell
  <2>2. LineMoves(r)
    BY <1>6, <2>1, RemoveStep DEF LineMoves
  <2> QED
    BY <1>6, <2>2, RemoveStep DEF CartMoves
<1>7. CASE ClearCart(r)
  <2>1. ASSUME NEW o, o = req[r].owner, NEW s PROVE Wrote(r, o, s)'
    BY <1>7, <2>1, ClearStep, EndedWell
  <2>2. LineMoves(r)
    BY <1>7, <2>1, ClearStep DEF LineMoves
  <2> QED
    BY <1>7, <2>2, ClearStep DEF CartMoves
<1>8. CASE ListItems(r)
  BY <1>8, ListStep DEF LineMoves, CartMoves
<1>9. CASE NextItem(r)
  BY <1>9, NextStep DEF LineMoves, CartMoves
<1>10. CASE DeleteGuestCart(r)
  BY <1>10, DeleteStep DEF LineMoves, CartMoves, Owners
<1>11. CASE Die(r)
  BY <1>11, DieStep DEF LineMoves, CartMoves
<1> QED
  BY <1>1, <1>2, <1>3, <1>4, <1>5, <1>6, <1>7, <1>8, <1>9, <1>10, <1>11 DEF CartStep

-----------------------------------------------------------------------------
(* The inductive invariant. *)

\* What a request has in before had ended when it began.
BeforeIsFinished ==
    \A r \in Requests : \A q \in req[r].before : q # Old => q \in Requests /\ req[q].pc \in Finished

LEMMA BeforeInduction ==
    ASSUME TablesOK, ReqsOK, BeforeIsFinished, NEW r \in Requests, CartStep(r)
    PROVE  /\ BeforeIsFinished'
           /\ \A p \in Requests : r \notin req[p].before
<1>1. Turns(r, req'[r]) /\ (Begun(r) \/ Keeps(r) \/ Drops(r))
  BY StepFacts
<1>2. \A p \in Requests : r \notin req[p].before
  BY <1>1, Apart DEF Turns, BeforeIsFinished
<1>3. \A p \in Requests \ {r} : req'[p] = req[p]
  BY <1>1 DEF Turns
<1>4. \A p \in Requests : req[p].pc \in Finished => req'[p].pc \in Finished
  BY <1>1, <1>3 DEF Turns
<1>5. \A q \in req'[r].before : q # Old => q \in Requests /\ req[q].pc \in Finished
  BY <1>1 DEF Begun, Keeps, Drops, BeforeIsFinished
<1> QED
  BY <1>2, <1>3, <1>4, <1>5 DEF BeforeIsFinished

\* What a request is about to write, B2B has offered.
WriteFits(r) ==
    /\ \A s \in Skus : req[r].listed[s] <= Shelf[s]
    /\ req[r].pc = "write" /\ req[r].op = "add" => req[r].seen + req[r].amount <= Shelf[req[r].sku]
    /\ req[r].pc = "write" /\ req[r].op = "update" => req[r].amount <= Shelf[req[r].sku]

WritesFit == \A r \in Requests : WriteFits(r)

LEMMA ShelfInduction ==
    ASSUME TablesOK, ReqsOK, WritesFit, LinesFitTheShelf, NEW r \in Requests, CartStep(r)
    PROVE  WritesFit' /\ LinesFitTheShelf'
<1>1. TablesOK' /\ ReqsOK' /\ Turns(r, req'[r]) /\ (Begun(r) \/ Keeps(r) \/ Drops(r)) /\ LineMoves(r)
  BY StepFacts
<1>2. \A s \in Skus : Shelf[s] \in Nat
  BY CartAssumption
<1>3. LinesFitTheShelf'
  <2> SUFFICES ASSUME NEW o \in Owners, NEW s \in Skus PROVE line'[o][s].quantity <= Shelf[s]
    BY DEF LinesFitTheShelf
  <2>1. CASE line'[o][s] = line[o][s]
    BY <2>1 DEF LinesFitTheShelf
  <2>2. CASE line'[o][s] = NoLine
    BY <1>2, <2>2, NoLineFacts
  <2>3. CASE AtWrite(r) /\ Applies(r) /\ o = req[r].owner /\ s = req[r].sku
    <3>1. line'[o][s].quantity = NewQuantity(req[r])
      BY <2>3, NoLineFacts DEF Applies
    <3>2. NewQuantity(req[r]) <= Shelf[s]
      BY <2>3 DEF NewQuantity, AtWrite, WritesFit, WriteFits
    <3> QED
      BY <3>1, <3>2
  <2> QED
    BY <1>1, <2>1, <2>2, <2>3 DEF LineMoves
<1>4. WriteFits(r)'
  <2>1. ASSUME req'[r].listed = NothingListed \/ req'[r].listed = req[r].listed
        PROVE  \A s \in Skus : req'[r].listed[s] <= Shelf[s]
    BY <1>2, <2>1 DEF NothingListed, WritesFit, WriteFits
  <2>2. ASSUME req'[r].pc # "write", req'[r].listed = NothingListed \/ req'[r].listed = req[r].listed
        PROVE  WriteFits(r)'
    BY <2>1, <2>2 DEF WriteFits
  <2>3. ASSUME Drops(r) PROVE WriteFits(r)'
    BY <2>2, <2>3 DEF Drops, NothingListed, Finished
  <2>4. CASE Begin(r)
    <3>1. Begun(r) \/ Drops(r)
      BY <2>4, BeginStep
    <3>2. ASSUME Begun(r) PROVE req'[r].pc # "write"
      <4>1. About(req'[r])
        BY <1>1, <3>2 DEF ReqsOK, RequestsFit, RequestFits, Begun, About
      <4> QED
        BY <3>2, <4>1, EntryFacts DEF Begun, GotCart, About, RequestType, Ops
    <3> QED
      BY <2>2, <2>3, <3>1, <3>2 DEF Begun
  <2>5. CASE FindCart(r)
    BY <2>2, <2>5, FindStep
  <2>6. CASE CreateCart(r)
    <3>1. Drops(r) \/ (Keeps(r) /\ req'[r].listed = req[r].listed)
      BY <2>6, CreateStep DEF Keeps
    <3>2. req'[r].pc # "write"
      BY <2>6, CreateStep
    <3> QED
      BY <2>2, <2>3, <3>1, <3>2
  <2>7. CASE ReadItem(r)
    <3>1. CASE Drops(r)
      BY <2>3, <3>1
    <3>2. CASE ~Drops(r)
      <4> DEFINE l == ItemsOf(req[r].cart, req[r].owner)[req[r].sku]
      <4>1. /\ Keeps(r) /\ req'[r].listed = req[r].listed /\ req[r].pc = "read"
            /\ req[r].owner \in Owners /\ req[r].sku \in Skus
            /\ req'[r].seen = l.quantity
            /\ req[r].amount + (IF req[r].op = "add" THEN l.quantity ELSE 0) <= Shelf[req[r].sku]
        BY <2>7, <3>2, ReadStep
      <4>2. l \in LineType
        BY <4>1, ItemFacts
      <4> HIDE DEF l
      <4>3. l.quantity \in Nat /\ req[r].amount \in Nat
        BY <4>2 DEF LineType, ReqsOK, RequestType
      <4>4. Writes(req[r]) /\ req'[r].sku = req[r].sku /\ req'[r].op = req[r].op
            /\ req'[r].amount = req[r].amount
        BY <4>1 DEF ReqsOK, RequestsFit, RequestFits, Keeps, Writes
      <4> QED
        BY <2>1, <4>1, <4>3, <4>4 DEF WriteFits
    <3> QED
      BY <3>1, <3>2
  <2>8. CASE Add(r) \/ UpdateItem(r) \/ MergeItem(r)
    <3>1. GoesOn(r) \/ Misses(r)
      BY <2>8, WriteStep
    <3>2. ASSUME GoesOn(r) PROVE WriteFits(r)'
      BY <2>2, <3>2 DEF GoesOn
    <3> QED
      BY <2>2, <2>3, <3>1, <3>2 DEF Misses
  <2>9. CASE RemoveItem(r)
    BY <2>2, <2>9, RemoveStep
  <2>10. CASE ClearCart(r)
    BY <2>2, <2>10, ClearStep
  <2>11. CASE ListItems(r)
    <3>1. ASSUME NEW s \in Skus PROVE req'[r].listed[s] <= Shelf[s]
      <4>1. req'[r].listed[s] = ItemsOf(req[r].guest, "guest")[s].quantity
        BY <2>11, ListStep
      <4>2. \/ ItemsOf(req[r].guest, "guest")[s] = line["guest"][s]
            \/ ItemsOf(req[r].guest, "guest")[s] = NoLine
        BY ItemFacts DEF Owners
      <4> QED
        BY <1>2, <4>1, <4>2, NoLineFacts DEF LinesFitTheShelf, Owners
    <3>2. req'[r].pc = "next"
      BY <2>11, ListStep
    <3> QED
      BY <3>1, <3>2 DEF WriteFits
  <2>12. CASE NextItem(r)
    BY <2>2, <2>12, NextStep
  <2>13. CASE DeleteGuestCart(r)
    BY <2>2, <2>13, DeleteStep
  <2>14. CASE Die(r)
    BY <2>2, <2>14, DieStep
  <2> QED
    BY <2>4, <2>5, <2>6, <2>7, <2>8, <2>9, <2>10, <2>11, <2>12, <2>13, <2>14 DEF CartStep
<1>5. \A p \in Requests \ {r} : WriteFits(p)'
  BY <1>1 DEF Turns, WritesFit, WriteFits
<1> QED
  BY <1>3, <1>4, <1>5 DEF WritesFit

\* How a request comes to each of its stages.
LEMMA Arrivals ==
    ASSUME TablesOK, ReqsOK, NEW r \in Requests, CartStep(r)
    PROVE  /\ req'[r].pc = "write" => ReadItem(r) /\ ~Drops(r)
           /\ req'[r].pc = "merge" => NextItem(r)
           /\ req'[r].pc = "clear" => Begin(r)
           /\ req'[r].pc = "next" => ListItems(r) \/ NextItem(r) \/ MergeItem(r)
           /\ req'[r].pc \in {"find", "create", "list"} => Begin(r) \/ FindCart(r) \/ CreateCart(r)
<1> DEFINE to == req'[r].pc
<1>1. CASE Begin(r)
  <2>1. Begun(r) \/ Drops(r)
    BY <1>1, BeginStep
  <2>2. ASSUME Begun(r) PROVE to \in {"find", "read", "create", "clear", "ok"}
    <3>1. About(req'[r])
      BY <2>2, StepFacts DEF ReqsOK, RequestsFit, RequestFits, Begun, About
    <3> QED
      BY <2>2, <3>1, EntryFacts DEF Begun, GotCart, About, RequestType, Ops
  <2>3. to \in {"find", "read", "create", "clear"} \cup Finished
    BY <2>1, <2>2 DEF Drops, Finished
  <2> QED
    BY <1>1, <2>3 DEF Finished
<1>2. CASE FindCart(r) \/ CreateCart(r)
  BY <1>2, FindStep, CreateStep
<1>3. CASE ReadItem(r)
  BY <1>3, ReadStep DEF Drops, Finished
<1>4. CASE Add(r) \/ UpdateItem(r) \/ MergeItem(r)
  <2>1. AtWrite(r) /\ (GoesOn(r) \/ Misses(r))
    BY <1>4, WriteStep
  <2>2. req[r].op = "merge" => MergeItem(r)
    BY <1>4 DEF Add, UpdateItem
  <2>3. to \in Finished \/ (to = "next" /\ req[r].op = "merge")
    BY <2>1 DEF GoesOn, Misses, Drops, Finished
  <2> QED
    BY <2>2, <2>3 DEF Finished
<1>5. CASE RemoveItem(r) \/ ClearCart(r) \/ DeleteGuestCart(r) \/ Die(r)
  BY <1>5, RemoveStep, ClearStep, DeleteStep, DieStep
<1>6. CASE ListItems(r)
  BY <1>6, ListStep
<1>7. CASE NextItem(r)
  BY <1>7, NextStep
<1> QED
  BY <1>1, <1>2, <1>3, <1>4, <1>5, <1>6, <1>7 DEF CartStep

\* q does not insert s any more.
Spent(q, s) ==
    \/ req[q].pc \in Finished
    \/ /\ req[q].pc \in {"next", "merge"}
       /\ s \notin req[q].todo
       /\ req[q].pc = "merge" => req[q].sku # s

LEMMA SpentStays ==
    ASSUME TablesOK, ReqsOK, NEW r \in Requests, CartStep(r),
           NEW q \in Requests, NEW s \in Skus, Spent(q, s)
    PROVE  Spent(q, s)'
<1>1. Turns(r, req'[r])
  BY StepFacts
<1>2. CASE q # r
  BY <1>1, <1>2 DEF Turns, Spent
<1>3. CASE q = r
  <2>1. req[r].pc \in {"next", "merge"} /\ s \notin req[r].todo
    BY <1>1, <1>3 DEF Turns, Spent
  <2>2. NextItem(r) \/ MergeItem(r) \/ DeleteGuestCart(r) \/ Die(r)
    BY <2>1 DEF CartStep, Begin, FindCart, CreateCart, ReadItem, Add, UpdateItem,
                RemoveItem, ClearCart, ListItems
  <2>3. CASE NextItem(r)
    BY <1>3, <2>1, <2>3, NextStep DEF Spent
  <2>4. CASE MergeItem(r)
    <3>1. req[r].op = "merge"
      BY <2>4 DEF MergeItem, ReqsOK, RequestsFit, RequestFits
    <3>2. GoesOn(r) \/ Misses(r)
      BY <2>4, WriteStep
    <3> QED
      BY <1>3, <2>1, <3>1, <3>2 DEF Spent, GoesOn, Misses, Finished
  <2>5. CASE DeleteGuestCart(r) \/ Die(r)
    BY <1>3, <2>5, DeleteStep, DieStep DEF Spent, Finished
  <2> QED
    BY <2>2, <2>3, <2>4, <2>5
<1> QED
  BY <1>2, <1>3

LEMMA WritersGetSpent ==
    ASSUME TablesOK, ReqsOK, NEW r \in Requests, AtWrite(r), NEW s, s = req[r].sku
    PROVE  ~Spent(r, s) /\ (GoesOn(r) => Spent(r, s)')
<1>1. ~Spent(r, s)
  BY DEF AtWrite, Spent, Finished
<1>2. req[r].pc = "merge" => s \notin req[r].todo
  BY WritersFacts DEF RequestFits
<1>3. ASSUME GoesOn(r) PROVE Spent(r, s)'
  <2>1. CASE req[r].op = "merge"
    BY <1>2, <1>3, <2>1 DEF GoesOn, AtWrite, Spent
  <2>2. CASE req[r].op # "merge"
    BY <1>3, <2>2 DEF GoesOn, Spent, Finished
  <2> QED
    BY <2>1, <2>2
<1> QED
  BY <1>1, <1>3

\* Who inserted a row, or the row a request has read, inserts it no second time.
IdsAreSpent ==
    /\ \A o \in Owners, s \in Skus : line[o][s].id \in Requests => Spent(line[o][s].id, s)
    /\ \A r \in Requests :
          req[r].pc = "write" /\ req[r].item \in Requests => Spent(req[r].item, req[r].sku)

LEMMA IdsInduction ==
    ASSUME TablesOK, ReqsOK, IdsAreSpent, NEW r \in Requests, CartStep(r)
    PROVE  IdsAreSpent'
<1>1. TablesOK' /\ ReqsOK' /\ Turns(r, req'[r]) /\ LineMoves(r)
  BY StepFacts
<1>2. ASSUME NEW o \in Owners, NEW s \in Skus, NEW q \in Requests, line'[o][s].id = q
      PROVE  Spent(q, s)'
  <2>1. CASE line'[o][s] = line[o][s]
    BY <1>2, <2>1, SpentStays DEF IdsAreSpent
  <2>2. CASE line'[o][s] = NoLine
    BY <1>2, <2>2, NoLineFacts, Apart
  <2>3. CASE AtWrite(r) /\ Applies(r) /\ GoesOn(r) /\ o = req[r].owner /\ s = req[r].sku
    <3>1. \/ q = r
          \/ q = req[r].item /\ line[o][s].id = q
      BY <1>2, <2>3, NoLineFacts DEF Applies
    <3>2. CASE q = r
      BY <2>3, <3>2, WritersGetSpent
    <3>3. CASE line[o][s].id = q
      BY <3>3, SpentStays DEF IdsAreSpent
    <3> QED
      BY <3>1, <3>2, <3>3
  <2> QED
    BY <1>1, <2>1, <2>2, <2>3 DEF LineMoves
<1>3. ASSUME NEW p \in Requests, req'[p].pc = "write", NEW q \in Requests, req'[p].item = q,
             NEW s \in Skus, req'[p].sku = s
      PROVE  Spent(q, s)'
  <2>1. CASE p # r
    BY <1>1, <1>3, <2>1, SpentStays DEF Turns, IdsAreSpent
  <2>2. CASE p = r
    <3>1. ReadItem(r) /\ ~Drops(r)
      BY <1>3, <2>2, Arrivals
    <3>2. /\ req[r].owner \in Owners /\ req[r].sku \in Skus
          /\ req'[r].item = ItemsOf(req[r].cart, req[r].owner)[req[r].sku].id
          /\ Keeps(r) /\ req[r].pc = "read"
      BY <3>1, ReadStep
    <3>3. req[r].sku = s
      BY <1>3, <2>2, <3>2 DEF Keeps, ReqsOK, RequestsFit, RequestFits, Writes
    <3>4. line[req[r].owner][s].id = q
      BY <1>3, <2>2, <3>2, <3>3, ItemFacts, NoLineFacts, Apart
    <3> QED
      BY <3>2, <3>4, SpentStays DEF IdsAreSpent
  <2> QED
    BY <2>1, <2>2
<1>4. \A p \in Requests : req'[p].pc = "write" => req'[p].sku \in Skus
  BY <1>1 DEF ReqsOK, RequestsFit, RequestFits
<1> QED
  <2>1. \A o \in Owners, s \in Skus : line'[o][s].id \in Requests => Spent(line[o][s].id, s)'
    BY <1>2 DEF Spent
  <2>2. \A p \in Requests :
          req'[p].pc = "write" /\ req'[p].item \in Requests => Spent(req[p].item, req[p].sku)'
    BY <1>3, <1>4 DEF Spent
  <2> QED
    BY <2>1, <2>2 DEF IdsAreSpent

\* An addition knows what is in the item, unless someone wrote it meanwhile.
SeenIsCurrent ==
    \A r \in Requests :
        req[r].pc = "write" /\ req[r].op = "add" /\ Alive(r) =>
            LET l == line[req[r].owner][req[r].sku]
            IN  l.quantity = req[r].seen \/ l.by \notin req[r].before

LEMMA SeenInduction ==
    ASSUME TablesOK, ReqsOK, BeforeIsFinished, SeenIsCurrent, NEW r \in Requests, CartStep(r)
    PROVE  SeenIsCurrent'
<1>1. TablesOK' /\ ReqsOK' /\ Turns(r, req'[r]) /\ LineMoves(r)
  BY StepFacts
<1>2. \A p \in Requests : r \notin req[p].before
  BY BeforeInduction
<1> SUFFICES ASSUME NEW p \in Requests, req'[p].pc = "write", req'[p].op = "add",
                    NEW o, o = req'[p].owner, NEW s, s = req'[p].sku,
                    line'[o][s].id = req'[p].item
             PROVE  line'[o][s].quantity = req'[p].seen \/ line'[o][s].by \notin req'[p].before
  BY DEF SeenIsCurrent, Alive
<1>3. o \in Owners /\ s \in Skus /\ (req'[p].item = None => req'[p].seen = 0)
  BY <1>1 DEF ReqsOK, RequestType, RequestsFit, RequestFits, Writes
<1>4. CASE p # r
  <2>1. req'[p] = req[p]
    BY <1>1, <1>4 DEF Turns
  <2>2. CASE line'[o][s] = line[o][s]
    BY <2>1, <2>2 DEF SeenIsCurrent, Alive
  <2>3. CASE line'[o][s] = NoLine
    BY <1>3, <2>3, NoLineFacts
  <2>4. CASE Applies(r) /\ o = req[r].owner /\ s = req[r].sku
    <3>1. line'[o][s].by = r
      BY <2>4, NoLineFacts DEF Applies
    <3> QED
      BY <1>2, <2>1, <3>1
  <2> QED
    BY <1>1, <1>3, <2>2, <2>3, <2>4 DEF LineMoves
<1>5. CASE p = r
  <2>1. ReadItem(r) /\ ~Drops(r)
    BY <1>5, Arrivals
  <2>2. /\ UNCHANGED line
        /\ req[r].owner \in Owners /\ req[r].sku \in Skus
        /\ req'[r].item = ItemsOf(req[r].cart, req[r].owner)[req[r].sku].id
        /\ req'[r].seen = ItemsOf(req[r].cart, req[r].owner)[req[r].sku].quantity
        /\ Keeps(r) /\ req[r].pc = "read"
    BY <2>1, ReadStep
  <2>3. req[r].owner = o /\ req[r].sku = s
    BY <1>5, <2>2 DEF Keeps
  <2>4. \/ ItemsOf(req[r].cart, o)[s] = line[o][s]
        \/ ItemsOf(req[r].cart, o)[s] = NoLine
    BY <1>3, ItemFacts
  <2>5. line[o][s].id = None => line[o][s].quantity = 0
    BY <1>3 DEF TablesOK, LinesHaveNames
  <2> QED
    BY <1>5, <2>2, <2>3, <2>4, <2>5, NoLineFacts
<1> QED
  BY <1>4, <1>5

LEMMA StepCounts ==
    ASSUME TablesOK, ReqsOK, SeenIsCurrent, NEW r \in Requests, CartStep(r),
           NEW p \in Requests, req[p].op = "add", req[p].pc = "write", req'[p].pc = "ok"
    PROVE  LET o == req[p].owner
               s == req[p].sku
           IN  \/ line'[o][s].quantity = line[o][s].quantity + req[p].amount
               \/ line[o][s].by \notin req[p].before
<1>1. p = r
  BY StepFacts DEF Turns
<1>2. Add(r)
  BY <1>1 DEF CartStep, Begin, FindCart, CreateCart, ReadItem, UpdateItem, RemoveItem,
              ClearCart, ListItems, NextItem, MergeItem, DeleteGuestCart, Die
<1>3. AtWrite(r) /\ ((Applies(r) /\ GoesOn(r)) \/ Misses(r))
  BY <1>2, WriteStep
<1>4. Applies(r)
  BY <1>1, <1>3 DEF Misses, Drops
<1>5. /\ line'[req[r].owner][req[r].sku].quantity = req[r].seen + req[r].amount
      /\ \/ req[r].item = None /\ line[req[r].owner][req[r].sku] = NoLine
         \/ Alive(r)
  BY <1>1, <1>4, NoLineFacts DEF Applies, NewQuantity, Alive
<1>6. req[r].item = None => req[r].seen = 0
  BY <1>3, WritersFacts
<1> QED
  BY <1>1, <1>5, <1>6, NoLineFacts DEF SeenIsCurrent

-----------------------------------------------------------------------------
(* The loop of a merge. *)

LEMMA WroteStays ==
    ASSUME TablesOK, ReqsOK, NEW r \in Requests, CartStep(r),
           NEW q \in Requests, NEW o, NEW s, Wrote(q, o, s)
    PROVE  Wrote(q, o, s)'
<1>1. Turns(r, req'[r]) /\ (Begun(r) \/ Keeps(r) \/ Drops(r))
  BY StepFacts
<1>2. CASE q # r
  BY <1>1, <1>2 DEF Turns, Wrote, Touches
<1>3. CASE q = r
  <2>1. req[r].op = "merge"
    BY <1>1, <1>3 DEF Turns, Wrote, Finished
  <2>2. Keeps(r)
    BY <1>1, <2>1 DEF Begun, Drops
  <2> QED
    BY <1>3, <2>1, <2>2, EndedWell DEF Wrote, Touches
<1> QED
  BY <1>2, <1>3

\* Another request to the buyer's cart was under way during the merge.
Overlapped(m, s) == \E r \in Requests \ (req[m].before \cup {m}) : Wrote(r, "buyer", s)

LEMMA OverlapStays ==
    ASSUME TablesOK, ReqsOK, NEW r \in Requests, CartStep(r),
           NEW m \in Requests, NEW s, Overlapped(m, s), req'[m].before = req[m].before
    PROVE  Overlapped(m, s)'
<1>1. PICK q \in Requests \ (req[m].before \cup {m}) : Wrote(q, "buyer", s)
  BY DEF Overlapped
<1>2. Wrote(q, "buyer", s)'
  BY <1>1, WroteStays
<1> QED
  BY <1>1, <1>2 DEF Overlapped

(***************************************************************************)
(* An item of the guest that was answered before a merge began is in the   *)
(* cart the merge looked up, with the quantity it listed.  What it is done *)
(* with is in the buyer's cart, and the row it read still there, unless    *)
(* another request overlapped.                                             *)
(***************************************************************************)
MergeFits(m) ==
    \A s \in Skus :
        /\ /\ req[m].op = "merge" /\ req[m].pc \in {"find", "create", "list"}
           /\ line["guest"][s].by \in req[m].before
           => carts["guest"] = req[m].guest
        /\ req[m].pc \in {"next", "merge"} /\ line["guest"][s].by \in req[m].before
           => line["guest"][s].quantity = req[m].listed[s]
        /\ req[m].pc \in {"next", "merge"} /\ Spent(m, s)
           => line["buyer"][s].quantity >= req[m].listed[s] \/ Overlapped(m, s)
        /\ req[m].pc = "merge" /\ req[m].sku = s /\ req[m].item # None
           => line["buyer"][s].id = req[m].item \/ Overlapped(m, s)

MergesFit == \A m \in Requests : MergeFits(m)

\* While another request moves.
LEMMA MergeWaits ==
    ASSUME TablesOK, ReqsOK, BeforeIsFinished, MergesFit, NEW r \in Requests, CartStep(r),
           NEW m \in Requests \ {r}
    PROVE  MergeFits(m)'
<1>1. TablesOK' /\ Turns(r, req'[r]) /\ LineMoves(r) /\ CartMoves
  BY StepFacts
<1>2. req'[m] = req[m]
  BY <1>1 DEF Turns
<1>3. r \notin req[m].before /\ None \notin req[m].before
  BY BeforeInduction, Apart DEF BeforeIsFinished
<1> SUFFICES ASSUME NEW s \in Skus
             PROVE  /\ /\ req[m].op = "merge" /\ req[m].pc \in {"find", "create", "list"}
                       /\ line'["guest"][s].by \in req[m].before
                       => carts'["guest"] = req[m].guest
                    /\ req[m].pc \in {"next", "merge"} /\ line'["guest"][s].by \in req[m].before
                       => line'["guest"][s].quantity = req[m].listed[s]
                    /\ req[m].pc \in {"next", "merge"} /\ Spent(m, s)
                       => line'["buyer"][s].quantity >= req[m].listed[s] \/ Overlapped(m, s)'
                    /\ req[m].pc = "merge" /\ req[m].sku = s /\ req[m].item # None
                       => line'["buyer"][s].id = req[m].item \/ Overlapped(m, s)'
  BY <1>2 DEF MergeFits, Spent
<1>4. line'["guest"][s].by \in req[m].before =>
          line'["guest"][s] = line["guest"][s] /\ carts'["guest"] = carts["guest"]
  <2>1. line'["guest"][s] = NoLine => line'["guest"][s].by \notin req[m].before
    BY <1>3, NoLineFacts
  <2>2. carts'["guest"] # carts["guest"] => line'["guest"][s] = NoLine
    BY <1>1 DEF CartMoves, Owners
  <2>3. ASSUME Applies(r), "guest" = req[r].owner, s = req[r].sku
        PROVE  line'["guest"][s].by \notin req[m].before
    BY <1>3, <2>3, NoLineFacts DEF Applies
  <2> QED
    BY <1>1, <2>1, <2>2, <2>3 DEF LineMoves, Owners
<1>5. line'["buyer"][s] = line["buyer"][s] \/ Overlapped(m, s)'
  <2>1. line'["buyer"][s] = line["buyer"][s] \/ Wrote(r, "buyer", s)'
    BY <1>1 DEF LineMoves, Owners
  <2>2. Wrote(r, "buyer", s)' => Overlapped(m, s)'
    BY <1>2, <1>3 DEF Overlapped
  <2> QED
    BY <2>1, <2>2
<1>6. Overlapped(m, s) => Overlapped(m, s)'
  BY <1>2, OverlapStays
<1>7. MergeFits(m)
  BY DEF MergesFit
<1> QED
  BY <1>4, <1>5, <1>6, <1>7 DEF MergeFits

\* While the merge looks for the carts.
LEMMA MergeStarts ==
    ASSUME TablesOK, ReqsOK, BeforeIsFinished, MergesFit, NEW r \in Requests, CartStep(r),
           req'[r].op = "merge", req'[r].pc \in {"find", "create", "list"},
           NEW s \in Skus, line'["guest"][s].by \in req'[r].before
    PROVE  carts'["guest"] = req'[r].guest
<1>1. Begin(r) \/ FindCart(r) \/ CreateCart(r)
  BY Arrivals
<1>2. CASE Begin(r)
  BY <1>2, BeginStep DEF Begun, Drops
<1>3. CASE FindCart(r)
  <2>1. /\ Keeps(r) /\ req[r].pc = "find" /\ req'[r].guest = req[r].guest
        /\ UNCHANGED <<carts, line>>
    BY <1>3, FindStep
  <2> QED
    BY <2>1 DEF Keeps, MergesFit, MergeFits
<1>4. CASE CreateCart(r)
  <2>1. /\ req'[r].guest = req[r].guest /\ req[r].pc = "create" /\ UNCHANGED line /\ Keeps(r)
        /\ carts' = [carts EXCEPT ![req[r].owner] = r]
    BY <1>4, CreateStep DEF Drops
  <2>2. req[r].op = "merge" /\ req[r].owner = "buyer"
    BY <2>1 DEF Keeps, ReqsOK, RequestsFit, RequestFits
  <2>3. carts'["guest"] = carts["guest"]
    BY <2>1, <2>2 DEF TablesOK, Owners
  <2> QED
    BY <2>1, <2>2, <2>3 DEF Keeps, MergesFit, MergeFits
<1> QED
  BY <1>1, <1>2, <1>3, <1>4

LEMMA MergeLists ==
    ASSUME TablesOK, ReqsOK, BeforeIsFinished, MergesFit, NEW r \in Requests, ListItems(r)
    PROVE  MergeFits(r)'
<1>1. /\ UNCHANGED <<carts, line>> /\ Keeps(r)
      /\ req[r].pc = "list" /\ req[r].op = "merge" /\ req'[r].pc = "next"
  BY ListStep
<1> SUFFICES ASSUME NEW s \in Skus
             PROVE  /\ line["guest"][s].by \in req[r].before
                       => line["guest"][s].quantity = req'[r].listed[s]
                    /\ Spent(r, s)' => line["buyer"][s].quantity >= req'[r].listed[s]
  BY <1>1 DEF MergeFits, Keeps
<1>2. LET l == ItemsOf(req[r].guest, "guest")[s]
      IN  /\ req'[r].listed[s] = l.quantity
          /\ s \in req'[r].todo <=> l # NoLine
          /\ \/ l = line["guest"][s] /\ carts["guest"] = req[r].guest
             \/ l = NoLine /\ carts["guest"] # req[r].guest
  BY ListStep, ItemFacts DEF Owners
<1>3. line["guest"][s].by \in req[r].before => line["guest"][s].quantity = req'[r].listed[s]
  BY <1>1, <1>2 DEF MergesFit, MergeFits
<1>4. ASSUME Spent(r, s)' PROVE line["buyer"][s].quantity >= req'[r].listed[s]
  <2>1. s \notin req'[r].todo
    BY <1>1, <1>4 DEF Spent, Finished
  <2>2. req'[r].listed[s] = 0
    BY <1>2, <2>1, NoLineFacts
  <2>3. line["buyer"][s].quantity \in Nat
    BY DEF TablesOK, LineType, Owners
  <2> QED
    BY <2>2, <2>3
<1> QED
  BY <1>3, <1>4

LEMMA MergeTakesItem ==
    ASSUME TablesOK, ReqsOK, BeforeIsFinished, MergesFit, NEW r \in Requests, NextItem(r)
    PROVE  MergeFits(r)'
<1>1. /\ UNCHANGED <<carts, line>> /\ Keeps(r)
      /\ req[r].pc = "next" /\ req'[r].pc \in {"next", "merge"}
      /\ req'[r].listed = req[r].listed
  BY NextStep
<1>2. PICK x \in req[r].todo :
        LET l == ItemsOf(req[r].cart, "buyer")[x]
        IN  /\ x \in Skus
            /\ req'[r].sku = x /\ req'[r].item = l.id /\ req'[r].seen = l.quantity
            /\ req'[r].todo = req[r].todo \ {x}
            /\ req'[r].pc = "merge" <=> l.quantity < req[r].listed[x]
  BY NextStep
<1> DEFINE l == ItemsOf(req[r].cart, "buyer")[x]
<1>3. /\ l \in LineType
      /\ l.id # None => l = line["buyer"][x]
      /\ l = line["buyer"][x] \/ l.quantity = 0
  BY <1>2, ItemFacts, NoLineFacts DEF Owners
<1>4. /\ x \in Skus /\ req'[r].sku = x /\ req'[r].item = l.id
      /\ req'[r].todo = req[r].todo \ {x}
      /\ req'[r].pc = "merge" <=> l.quantity < req[r].listed[x]
  BY <1>2
<1> HIDE DEF l
<1>5. MergeFits(r) /\ req'[r].before = req[r].before
  BY <1>1 DEF MergesFit, Keeps
<1>6. ASSUME NEW s \in Skus, Overlapped(r, s) PROVE Overlapped(r, s)'
  BY <1>5, <1>6, OverlapStays DEF CartStep
<1>7. ASSUME NEW s \in Skus, Spent(r, s)'
      PROVE  line["buyer"][s].quantity >= req[r].listed[s] \/ Overlapped(r, s)'
  <2>1. CASE s = x
    <3>1. ~(l.quantity < req[r].listed[x])
      BY <1>1, <1>4, <1>7, <2>1 DEF Spent, Finished
    <3>2. req[r].listed[x] \in Nat /\ line["buyer"][x].quantity \in Nat /\ l.quantity \in Nat
      BY <1>3, <1>4 DEF ReqsOK, RequestType, TablesOK, LineType, Owners
    <3> QED
      BY <1>3, <2>1, <3>1, <3>2
  <2>2. CASE s # x
    <3>1. Spent(r, s)
      BY <1>1, <1>4, <1>7, <2>2 DEF Spent, Finished
    <3> QED
      BY <1>1, <1>5, <1>6, <3>1 DEF MergeFits
  <2> QED
    BY <2>1, <2>2
<1>8. ASSUME NEW s \in Skus, req'[r].sku = s, req'[r].item # None
      PROVE  line["buyer"][s].id = req'[r].item
  BY <1>3, <1>4, <1>8
<1>9. ASSUME NEW s \in Skus, line["guest"][s].by \in req[r].before
      PROVE  line["guest"][s].quantity = req[r].listed[s]
  BY <1>1, <1>5, <1>9 DEF MergeFits
<1> QED
  BY <1>1, <1>5, <1>7, <1>8, <1>9 DEF MergeFits

LEMMA MergeWritesItem ==
    ASSUME TablesOK, ReqsOK, BeforeIsFinished, MergesFit, NEW r \in Requests, MergeItem(r),
           req'[r].pc = "next"
    PROVE  MergeFits(r)'
<1>1. AtWrite(r) /\ ((Applies(r) /\ GoesOn(r)) \/ Misses(r))
  BY WriteStep
<1>2. req[r].pc = "merge" /\ req[r].op = "merge" /\ req[r].owner = "buyer"
  BY DEF MergeItem, ReqsOK, RequestsFit, RequestFits
<1>3. GoesOn(r) /\ (Applies(r) \/ (UNCHANGED line /\ req[r].item # None /\ ~Alive(r)))
  BY <1>1, <1>2 DEF Misses
<1>4. /\ req'[r].before = req[r].before /\ req'[r].listed = req[r].listed
      /\ req'[r].todo = req[r].todo
  BY <1>2, <1>3 DEF GoesOn, Keeps
<1>5. MergeFits(r) /\ req[r].sku \in Skus
  BY <1>1, WritersFacts DEF MergesFit
<1>6. ASSUME NEW s \in Skus, Overlapped(r, s) PROVE Overlapped(r, s)'
  BY <1>4, <1>6, OverlapStays DEF CartStep
<1>7. ASSUME NEW s \in Skus PROVE line'["guest"][s] = line["guest"][s]
  BY <1>2, <1>3 DEF Applies, Owners
<1>8. ASSUME NEW s \in Skus, Spent(r, s)'
      PROVE  line'["buyer"][s].quantity >= req[r].listed[s] \/ Overlapped(r, s)'
  <2>1. CASE s # req[r].sku
    <3>1. Spent(r, s) /\ line'["buyer"][s] = line["buyer"][s]
      BY <1>2, <1>3, <1>4, <1>8, <2>1 DEF Spent, Applies, Owners, Finished
    <3> QED
      BY <1>2, <1>5, <1>6, <3>1 DEF MergeFits
  <2>2. CASE s = req[r].sku /\ Applies(r)
    <3>1. line'["buyer"][s].quantity = req[r].listed[s]
      BY <1>2, <2>2, NoLineFacts DEF Applies, NewQuantity
    <3>2. req[r].listed[s] \in Nat
      BY DEF ReqsOK, RequestType
    <3> QED
      BY <3>1, <3>2
  <2>3. CASE s = req[r].sku /\ req[r].item # None /\ ~Alive(r)
    <3>1. Overlapped(r, s)
      BY <1>2, <1>5, <2>3 DEF MergeFits, Alive
    <3> QED
      BY <1>6, <3>1
  <2> QED
    BY <1>3, <2>1, <2>2, <2>3
<1> QED
  BY <1>2, <1>4, <1>5, <1>7, <1>8 DEF MergeFits

LEMMA MergeInduction ==
    ASSUME TablesOK, ReqsOK, BeforeIsFinished, MergesFit, NEW r \in Requests, CartStep(r)
    PROVE  MergesFit'
<1>1. ReqsOK'
  BY StepFacts
<1>2. MergeFits(r)'
  <2>1. CASE req'[r].pc \in {"next", "merge"}
    <3>1. ListItems(r) \/ NextItem(r) \/ MergeItem(r)
      BY <2>1, Arrivals
    <3>2. MergeItem(r) => req'[r].pc = "next"
      BY <2>1, Arrivals DEF MergeItem, NextItem
    <3> QED
      BY <3>1, <3>2, MergeLists, MergeTakesItem, MergeWritesItem
  <2>2. CASE req'[r].pc \notin {"next", "merge"}
    BY <2>2, MergeStarts DEF MergeFits
  <2> QED
    BY <2>1, <2>2
<1> QED
  BY <1>2, MergeWaits DEF MergesFit

LEMMA StepMerges ==
    ASSUME TablesOK, ReqsOK, MergesFit, NEW r \in Requests, CartStep(r),
           carts["guest"] # None, carts'["guest"] = None, NEW s \in Skus
    PROVE  /\ req[r].op = "merge" /\ req[r].pc # "ok" /\ req'[r].pc = "ok"
           /\ \/ line["guest"][s].by \notin req[r].before
              \/ line["buyer"][s].quantity >= line["guest"][s].quantity
              \/ \E q \in Requests \ (req[r].before \cup {r}) : Touches(q, "buyer", s)
<1>1. CASE DeleteGuestCart(r)
  <2>1. /\ req[r].pc = "next" /\ req[r].op = "merge" /\ req[r].todo = {}
        /\ req'[r].pc = "ok"
    BY <1>1, DeleteStep
  <2>2. Spent(r, s)
    BY <2>1 DEF Spent
  <2> QED
    BY <2>1, <2>2 DEF MergesFit, MergeFits, Overlapped, Wrote
<1>2. CASE ~DeleteGuestCart(r)
  <2>1. CASE CreateCart(r)
    <3>1. carts' = carts \/ carts' = [carts EXCEPT ![req[r].owner] = r]
      BY <2>1, CreateStep
    <3> QED
      BY <3>1, Apart DEF TablesOK, Owners
  <2>2. CASE ~CreateCart(r)
    <3>1. UNCHANGED carts
      BY <1>2, <2>2 DEF CartStep, Begin, FindCart, ReadItem, Add, UpdateItem, RemoveItem,
                        ClearCart, ListItems, NextItem, MergeItem, Die
    <3> QED
      BY <3>1
  <2> QED
    BY <2>1, <2>2
<1> QED
  BY <1>1, <1>2

-----------------------------------------------------------------------------
(* What is removed stays so. *)

\* A merge has nothing listed before it reads the guest's items.
ListedLater ==
    \A m \in Requests : req[m].pc \in {"find", "create", "list"} => req[m].listed = NothingListed

LEMMA ListedInduction ==
    ASSUME TablesOK, ReqsOK, ListedLater, NEW r \in Requests, CartStep(r)
    PROVE  ListedLater'
<1>1. \A p \in Requests \ {r} : req'[p] = req[p]
  BY StepFacts DEF Turns
<1>2. ASSUME req'[r].pc \in {"find", "create", "list"} PROVE req'[r].listed = NothingListed
  <2>1. Begin(r) \/ FindCart(r) \/ CreateCart(r)
    BY <1>2, Arrivals
  <2>2. CASE Begin(r)
    BY <2>2, BeginStep DEF Begun, Drops, NothingListed
  <2>3. CASE FindCart(r)
    BY <2>3, FindStep DEF ListedLater
  <2>4. CASE CreateCart(r)
    <3>1. req[r].pc = "create" /\ Keeps(r) /\ (req'[r].op = "none" \/ req'[r].listed = req[r].listed)
      BY <1>2, <2>4, CreateStep DEF Drops
    <3> QED
      BY <3>1 DEF Keeps, ListedLater
  <2> QED
    BY <2>1, <2>2, <2>3, <2>4
<1> QED
  BY <1>1, <1>2 DEF ListedLater

\* What the requests that had not ended when d began have asked for, as far as
\* they may have written it.
Weight(d, o, s) ==
    [r \in Requests |-> IF r \notin req[d].before /\ Wrote(r, o, s) THEN Asked(r, s) ELSE 0]

Later(d, o, s) == SumOver(Weight(d, o, s), Requests)

LEMMA AskedGrows ==
    ASSUME TablesOK, ReqsOK, ListedLater, NEW r \in Requests, CartStep(r),
           NEW o, NEW s \in Skus, Wrote(r, o, s)
    PROVE  Asked(r, s) <= Asked(r, s)'
<1>1. /\ ReqsOK' /\ Turns(r, req'[r]) /\ (Begun(r) \/ Keeps(r) \/ Drops(r))
  BY StepFacts
<1>2. req[r].op = "merge" /\ req'[r].op = "merge"
  BY <1>1 DEF Turns, Wrote, Finished, Begun, Keeps, Drops
<1>3. req[r].listed[s] \in Nat /\ req'[r].listed[s] \in Nat
  BY <1>1 DEF ReqsOK, RequestType
<1>4. CASE ListItems(r)
  <2>1. req[r].listed = NothingListed
    BY <1>4, ListStep DEF ListedLater
  <2> QED
    BY <1>2, <1>3, <2>1 DEF Asked, NothingListed
<1>5. CASE ~ListItems(r)
  <2>1. req'[r].listed = req[r].listed
    <3>1. CASE Begin(r)
      BY <1>2, <3>1, BeginStep DEF Begun, Drops
    <3>2. CASE FindCart(r) \/ CreateCart(r)
      BY <1>2, <3>2, FindStep, CreateStep
    <3>3. CASE ReadItem(r)
      BY <1>2, <3>3, ReadStep DEF Drops
    <3>4. CASE Add(r) \/ UpdateItem(r) \/ MergeItem(r)
      BY <1>2, <3>4, WriteStep DEF GoesOn, Misses
    <3>5. CASE RemoveItem(r) \/ ClearCart(r)
      BY <3>5, RemoveStep, ClearStep
    <3>6. CASE NextItem(r) \/ DeleteGuestCart(r) \/ Die(r)
      BY <3>6, NextStep, DeleteStep, DieStep
    <3> QED
      BY <1>5, <3>1, <3>2, <3>3, <3>4, <3>5, <3>6 DEF CartStep
  <2> QED
    BY <1>2, <1>3, <2>1 DEF Asked
<1> QED
  BY <1>4, <1>5

LEMMA LaterGrows ==
    ASSUME TablesOK, ReqsOK, BeforeIsFinished, ListedLater, NEW r \in Requests, CartStep(r),
           NEW d \in Requests, req'[d].before = req[d].before, NEW o, NEW s \in Skus
    PROVE  /\ Later(d, o, s) \in Nat /\ Later(d, o, s)' \in Nat
           /\ Later(d, o, s) <= Later(d, o, s)'
           /\ Wrote(r, o, s)' =>
                /\ Asked(r, s)' <= Later(d, o, s)'
                /\ ~Wrote(r, o, s) => Later(d, o, s)' = Later(d, o, s) + Asked(r, s)'
<1> DEFINE g == Weight(d, o, s)
           h == Weight(d, o, s)'
<1>1. ReqsOK' /\ Turns(r, req'[r])
  BY StepFacts
<1>2. r \notin req[d].before
  BY BeforeInduction
<1>3. ASSUME NEW p \in Requests PROVE g[p] \in Nat /\ h[p] \in Nat
  <2>1. Asked(p, s) \in Nat
    BY DEF Asked, ReqsOK, RequestType
  <2>2. Asked(p, s)' \in Nat
    BY <1>1 DEF Asked, ReqsOK, RequestType
  <2> QED
    BY <2>1, <2>2 DEF Weight
<1>4. ASSUME NEW p \in Requests \ {r} PROVE h[p] = g[p]
  <2>1. req'[p] = req[p]
    BY <1>1 DEF Turns
  <2> QED
    BY <2>1 DEF Weight, Wrote, Touches, Asked
<1>5. g[r] = IF Wrote(r, o, s) THEN Asked(r, s) ELSE 0
  BY <1>2 DEF Weight
<1>6. h[r] = IF Wrote(r, o, s)' THEN Asked(r, s)' ELSE 0
  BY <1>2 DEF Weight
<1>7. Wrote(r, o, s) => Wrote(r, o, s)' /\ Asked(r, s) <= Asked(r, s)'
  BY WroteStays, AskedGrows
<1>8. Later(d, o, s) = SumOver(g, Requests) /\ Later(d, o, s)' = SumOver(h, Requests)
  BY DEF Later
<1> HIDE DEF g, h
<1>9. IsFiniteSet(Requests)
  BY CartAssumption
<1>10. SumOver(g, Requests) \in Nat /\ SumOver(h, Requests) \in Nat /\ h[r] <= SumOver(h, Requests)
  BY <1>3, <1>9, SumCovers
<1>11. SumOver(h, Requests) = SumOver(g, Requests) + h[r] - g[r]
  <2>1. \A p \in Requests : g[p] \in Int /\ h[p] \in Int
    BY <1>3
  <2> QED
    BY <1>4, <1>9, <2>1, SumChange
<1>12. g[r] <= h[r] /\ g[r] \in Nat /\ h[r] \in Nat
  BY <1>3, <1>5, <1>6, <1>7
<1>13. SumOver(g, Requests) <= SumOver(h, Requests)
  BY <1>10, <1>11, <1>12
<1>14. Wrote(r, o, s)' => h[r] = Asked(r, s)'
  BY <1>6
<1>15. ~Wrote(r, o, s) => g[r] = 0
  BY <1>5
<1>16. ASSUME Wrote(r, o, s)', ~Wrote(r, o, s)
       PROVE  SumOver(h, Requests) = SumOver(g, Requests) + Asked(r, s)'
  <2>1. g[r] = 0 /\ h[r] = Asked(r, s)'
    BY <1>14, <1>15, <1>16
  <2> QED
    BY <1>10, <1>11, <1>12, <2>1
<1> QED
  BY <1>8, <1>10, <1>13, <1>14, <1>16

LEMMA LaterStaysNatural ==
    ASSUME ReqsOK', NEW d \in Requests, NEW o, NEW s \in Skus
    PROVE  Later(d, o, s)' \in Nat
<1> DEFINE h == Weight(d, o, s)'
<1>1. ASSUME NEW p \in Requests PROVE h[p] \in Nat
  <2>1. Asked(p, s)' \in Nat
    BY DEF Asked, ReqsOK, RequestType
  <2> QED
    BY <2>1 DEF Weight
<1>2. Later(d, o, s)' = SumOver(h, Requests)
  BY DEF Later
<1> HIDE DEF h
<1> QED
  BY <1>1, <1>2, CartAssumption, SumCovers

(***************************************************************************)
(* Nothing is in item s but what was asked for since d began, and no       *)
(* addition that still finds its row has seen more.                        *)
(***************************************************************************)
Removed(d, o, s) ==
    /\ line[o][s].quantity <= Later(d, o, s)
    /\ \A r \in Requests :
        /\ req[r].pc = "write" /\ req[r].op = "add"
        /\ req[r].owner = o /\ req[r].sku = s /\ Alive(r)
        => req[r].seen <= Later(d, o, s)

LEMMA RemovedStarts ==
    ASSUME ReqsOK', NEW d \in Requests, NEW o \in Owners, NEW s \in Skus, line'[o][s] = NoLine
    PROVE  Removed(d, o, s)'
<1>1. Later(d, o, s)' \in Nat
  BY LaterStaysNatural
<1>2. line'[o][s].quantity = 0 /\ line'[o][s].id = None
  BY NoLineFacts
<1>3. ASSUME NEW p \in Requests, req'[p].pc = "write", line'[o][s].id = req'[p].item
      PROVE  req'[p].seen <= Later(d, o, s)'
  <2>1. req'[p].seen = 0
    BY <1>2, <1>3 DEF ReqsOK, RequestsFit, RequestFits
  <2> QED
    BY <1>1, <2>1
<1> QED
  BY <1>1, <1>2, <1>3 DEF Removed, Alive

LEMMA RemovedStays ==
    ASSUME TablesOK, ReqsOK, BeforeIsFinished, IdsAreSpent, ListedLater,
           NEW r \in Requests, CartStep(r),
           NEW d \in Requests, req'[d].before = req[d].before,
           NEW o \in Owners, NEW s \in Skus, Removed(d, o, s)
    PROVE  Removed(d, o, s)'
<1> DEFINE n == Later(d, o, s)
           m == Later(d, o, s)'
<1>1. ReqsOK' /\ Turns(r, req'[r]) /\ LineMoves(r)
  BY StepFacts
<1>2. /\ n \in Nat /\ m \in Nat /\ n <= m
      /\ Wrote(r, o, s)' => /\ Asked(r, s)' <= m
                            /\ ~Wrote(r, o, s) => m = n + Asked(r, s)'
  BY LaterGrows
<1>3. /\ line[o][s].quantity <= n
      /\ \A p \in Requests :
          /\ req[p].pc = "write" /\ req[p].op = "add"
          /\ req[p].owner = o /\ req[p].sku = s /\ Alive(p)
          => req[p].seen <= n
  BY DEF Removed
<1>4. line[o][s].quantity \in Nat
  BY DEF TablesOK, LineType
<1> HIDE DEF n, m
<1>5. line'[o][s].quantity <= m
  <2>1. CASE line'[o][s] = line[o][s]
    BY <1>2, <1>3, <1>4, <2>1
  <2>2. CASE line'[o][s] = NoLine
    BY <1>2, <2>2, NoLineFacts
  <2>3. CASE /\ AtWrite(r) /\ Applies(r) /\ GoesOn(r) /\ Wrote(r, o, s)'
             /\ o = req[r].owner /\ s = req[r].sku
    <3>1. line'[o][s].quantity = NewQuantity(req[r])
      BY <2>3, NoLineFacts DEF Applies
    <3>2. /\ req'[r].op = req[r].op /\ req'[r].amount = req[r].amount
          /\ req'[r].listed = req[r].listed
      BY <2>3 DEF GoesOn, Keeps
    <3>3. Asked(r, s)' <= m
      BY <1>2, <2>3
    <3>4. CASE req[r].op \in {"merge", "update"}
      <4>1. NewQuantity(req[r]) = Asked(r, s)'
        BY <2>3, <3>2, <3>4 DEF NewQuantity, Asked
      <4> QED
        BY <3>1, <3>3, <4>1
    <3>5. CASE req[r].op = "add"
      <4>1. req[r].pc = "write" /\ NewQuantity(req[r]) = req[r].seen + req[r].amount
        BY <2>3, <3>5 DEF AtWrite, NewQuantity
      <4>2. ~Wrote(r, o, s)
        BY <3>5, <4>1 DEF Wrote
      <4>3. Asked(r, s)' = req[r].amount
        BY <3>2, <3>5 DEF Asked
      <4>4. m = n + req[r].amount
        BY <1>2, <2>3, <4>2, <4>3
      <4>5. req[r].seen <= n
        <5>1. CASE req[r].item = None
          BY <1>2, <2>3, <5>1, WritersFacts
        <5>2. CASE req[r].item # None
          BY <1>3, <2>3, <3>5, <4>1, <5>2 DEF Applies, Alive
        <5> QED
          BY <5>1, <5>2
      <4>6. req[r].seen \in Nat /\ req[r].amount \in Nat
        BY DEF ReqsOK, RequestType
      <4> QED
        BY <1>2, <3>1, <4>1, <4>4, <4>5, <4>6
    <3> QED
      BY <2>3, <3>4, <3>5 DEF AtWrite
  <2> QED
    BY <1>1, <2>1, <2>2, <2>3 DEF LineMoves
<1>6. ASSUME NEW p \in Requests, req'[p].pc = "write", req'[p].op = "add",
             req'[p].owner = o, req'[p].sku = s, line'[o][s].id = req'[p].item
      PROVE  req'[p].seen <= m
  <2>1. req'[p].seen \in Nat /\ (req'[p].item = None => req'[p].seen = 0)
    BY <1>1, <1>6 DEF ReqsOK, RequestType, RequestsFit, RequestFits
  <2>2. CASE p = r
    <3>1. ReadItem(r) /\ ~Drops(r)
      BY <1>6, <2>2, Arrivals
    <3>2. /\ req'[r].seen = ItemsOf(req[r].cart, req[r].owner)[req[r].sku].quantity
          /\ Keeps(r) /\ req[r].pc = "read"
      BY <3>1, ReadStep
    <3>3. req[r].owner = o /\ req[r].sku = s
      BY <1>6, <2>2, <3>2 DEF Keeps
    <3>4. \/ ItemsOf(req[r].cart, o)[s] = line[o][s]
          \/ ItemsOf(req[r].cart, o)[s] = NoLine
      BY ItemFacts
    <3>5. req'[r].seen = line[o][s].quantity \/ req'[r].seen = 0
      BY <3>2, <3>3, <3>4, NoLineFacts
    <3> QED
      BY <1>2, <1>3, <1>4, <2>2, <3>5
  <2>3. CASE p # r
    <3>1. req'[p] = req[p]
      BY <1>1, <2>3 DEF Turns
    <3>2. CASE Alive(p)
      <4>1. req[p].seen <= n
        BY <1>3, <1>6, <3>1, <3>2
      <4> QED
        BY <1>2, <2>1, <3>1, <4>1
    <3>3. CASE ~Alive(p)
      <4>1. line'[o][s].id # line[o][s].id
        BY <1>6, <3>1, <3>3 DEF Alive
      <4>2. CASE line'[o][s] = NoLine
        BY <1>2, <1>6, <2>1, <4>2, NoLineFacts
      <4>3. CASE AtWrite(r) /\ Applies(r) /\ o = req[r].owner /\ s = req[r].sku
        <5>1. line'[o][s].id = r
          BY <4>1, <4>3, NoLineFacts DEF Applies
        <5>2. Spent(r, s)
          BY <1>6, <3>1, <5>1 DEF IdsAreSpent
        <5> QED
          BY <4>3, <5>2, WritersGetSpent
      <4> QED
        BY <1>1, <4>1, <4>2, <4>3 DEF LineMoves
    <3> QED
      BY <3>2, <3>3
  <2> QED
    BY <2>2, <2>3
<1> QED
  BY <1>5, <1>6 DEF Removed, Alive, m

\* What a removal is about to remove is there, or removed already.
RemovalFits(d) ==
    \A s \in Skus :
        /\ req[d].pc = "write" /\ req[d].op = "remove" /\ req[d].sku = s
           => Alive(d) \/ Removed(d, req[d].owner, s)
        /\ req[d].pc = "clear"
           => carts[req[d].owner] = req[d].cart \/ Removed(d, req[d].owner, s)
        /\ req[d].pc = "ok" /\ req[d].op \in {"remove", "clear"} /\ Touches(d, req[d].owner, s)
           => Removed(d, req[d].owner, s)

RemovalsFit == \A d \in Requests : RemovalFits(d)

\* While another request moves.
LEMMA RemovalWaits ==
    ASSUME TablesOK, ReqsOK, BeforeIsFinished, IdsAreSpent, ListedLater, RemovalsFit,
           NEW r \in Requests, CartStep(r), NEW d \in Requests \ {r}
    PROVE  RemovalFits(d)'
<1>1. /\ TablesOK' /\ ReqsOK' /\ Turns(r, req'[r]) /\ LineMoves(r) /\ CartMoves
  BY StepFacts
<1>2. req'[d] = req[d]
  BY <1>1 DEF Turns
<1> SUFFICES ASSUME NEW s \in Skus, NEW o, o = req[d].owner
             PROVE  /\ req[d].pc = "write" /\ req[d].op = "remove" /\ req[d].sku = s
                       => line'[o][s].id = req[d].item \/ Removed(d, o, s)'
                    /\ req[d].pc = "clear" => carts'[o] = req[d].cart \/ Removed(d, o, s)'
                    /\ req[d].pc = "ok" /\ req[d].op \in {"remove", "clear"} /\ Touches(d, o, s)
                       => Removed(d, o, s)'
  BY <1>2 DEF RemovalFits, Alive, Touches, Removed, Later, Weight
<1>3. o \in Owners
  BY DEF ReqsOK, RequestType
<1>4. RemovalFits(d)
  BY DEF RemovalsFit
<1>5. Removed(d, o, s) => Removed(d, o, s)'
  BY <1>2, <1>3, RemovedStays
<1>6. line'[o][s] = NoLine => Removed(d, o, s)'
  BY <1>1, <1>3, RemovedStarts
<1>7. ASSUME req[d].pc = "write", req[d].op = "remove", req[d].sku = s,
             line[o][s].id = req[d].item, line'[o][s] # NoLine
      PROVE  line'[o][s].id = req[d].item
  <2>1. req[d].item # None
    BY <1>7 DEF ReqsOK, RequestsFit, RequestFits
  <2>2. CASE line'[o][s] = line[o][s]
    BY <1>7, <2>2
  <2>3. CASE Applies(r) /\ o = req[r].owner /\ s = req[r].sku
    BY <1>7, <2>1, <2>3, NoLineFacts DEF Applies
  <2> QED
    BY <1>1, <1>3, <1>7, <2>2, <2>3 DEF LineMoves
<1>8. carts'[o] # carts[o] => line'[o][s] = NoLine
  BY <1>1, <1>3 DEF CartMoves
<1> QED
  BY <1>4, <1>5, <1>6, <1>7, <1>8 DEF RemovalFits, Alive

\* While the removal itself moves.
LEMMA RemovalMoves ==
    ASSUME TablesOK, ReqsOK, BeforeIsFinished, IdsAreSpent, ListedLater, RemovalsFit,
           NEW r \in Requests, CartStep(r)
    PROVE  RemovalFits(r)'
<1>1. /\ TablesOK' /\ ReqsOK' /\ Turns(r, req'[r]) /\ (Begun(r) \/ Keeps(r) \/ Drops(r))
  BY StepFacts
<1> SUFFICES ASSUME NEW s \in Skus, NEW o, o = req'[r].owner
             PROVE  /\ req'[r].pc = "write" /\ req'[r].op = "remove" /\ req'[r].sku = s
                       => line'[o][s].id = req'[r].item
                    /\ req'[r].pc = "clear" => carts'[o] = req'[r].cart
                    /\ req'[r].pc = "ok" /\ req'[r].op \in {"remove", "clear"} /\ Touches(r, o, s)'
                       => Removed(r, o, s)'
  BY DEF RemovalFits, Alive, Touches, Removed, Later, Weight
<1>2. o \in Owners
  BY <1>1 DEF ReqsOK, RequestType
<1>3. ASSUME req'[r].pc = "write", req'[r].op = "remove", req'[r].sku = s
      PROVE  line'[o][s].id = req'[r].item
  <2>1. ReadItem(r) /\ ~Drops(r)
    BY <1>3, Arrivals
  <2>2. /\ UNCHANGED line /\ Keeps(r) /\ req[r].pc = "read"
        /\ req'[r].item = ItemsOf(req[r].cart, req[r].owner)[req[r].sku].id
        /\ req[r].op # "add" => ItemsOf(req[r].cart, req[r].owner)[req[r].sku] # NoLine
    BY <2>1, ReadStep
  <2>3. req[r].owner = o /\ req[r].sku = s /\ req[r].op = "remove"
    BY <1>3, <2>2 DEF Keeps
  <2>4. ItemsOf(req[r].cart, o)[s] = line[o][s]
    BY <1>2, <2>2, <2>3, ItemFacts
  <2> QED
    BY <2>2, <2>3, <2>4
<1>4. ASSUME req'[r].pc = "clear" PROVE carts'[o] = req'[r].cart
  <2>1. Begin(r)
    BY <1>4, Arrivals
  <2>2. Begun(r) /\ UNCHANGED carts
    BY <1>4, <2>1, BeginStep DEF Drops, Finished
  <2> QED
    BY <1>4, <2>2 DEF Begun, GotCart
<1>5. ASSUME req'[r].pc = "ok", req'[r].op \in {"remove", "clear"}, Touches(r, o, s)'
      PROVE  Removed(r, o, s)'
  <2>1. ~Drops(r)
    BY <1>5 DEF Drops
  <2>2. CASE Begin(r)
    <3>1. Begun(r) /\ UNCHANGED <<carts, line>>
      BY <2>1, <2>2, BeginStep
    <3>2. About(req'[r])
      BY <1>1, <3>1 DEF ReqsOK, RequestsFit, RequestFits, Begun, About
    <3>3. carts[o] = None
      BY <1>5, <3>1, <3>2, EntryFacts DEF Begun, GotCart
    <3>4. line'[o][s] = NoLine
      BY <1>2, <3>1, <3>3, NoLineIsEmpty DEF TablesOK
    <3> QED
      BY <1>1, <1>2, <3>4, RemovedStarts
  <2>3. CASE ~Begin(r)
    <3>1. Keeps(r)
      BY <1>1, <2>1, <2>3 DEF Begun, CartStep, FindCart, CreateCart, ReadItem, Add, UpdateItem,
            RemoveItem, ClearCart, ListItems, NextItem, MergeItem, DeleteGuestCart, Die,
            ReqsOK, RequestsFit, RequestFits, Running
    <3>2. /\ req[r].op \in {"remove", "clear"} /\ req[r].owner = o
          /\ req'[r].before = req[r].before
          /\ Touches(r, o, s)
      BY <1>5, <3>1 DEF Keeps, Touches
    <3>3. RemovalFits(r)
      BY DEF RemovalsFit
    <3>4. Removed(r, o, s) => Removed(r, o, s)'
      BY <1>2, <3>2, RemovedStays
    <3>5. line'[o][s] = NoLine => Removed(r, o, s)'
      BY <1>1, <1>2, RemovedStarts
    <3>6. CASE RemoveItem(r)
      <4>1. /\ req[r].pc = "write" /\ req[r].op = "remove"
            /\ ~Alive(r) \/ line'[req[r].owner][req[r].sku] = NoLine
        BY <3>6, RemoveStep
      <4>2. req[r].sku = s
        BY <3>2, <4>1 DEF Touches
      <4> QED
        BY <3>2, <3>3, <3>4, <3>5, <4>1, <4>2 DEF RemovalFits
    <3>7. CASE ClearCart(r)
      <4>1. /\ req[r].pc = "clear"
            /\ carts[o] # req[r].cart \/ line'[o][s] = NoLine
        BY <3>2, <3>7, ClearStep
      <4> QED
        BY <3>2, <3>3, <3>4, <3>5, <4>1 DEF RemovalFits
    <3>8. CASE ~RemoveItem(r) /\ ~ClearCart(r)
      <4>1. ~FindCart(r) /\ ~CreateCart(r) /\ ~ListItems(r) /\ ~NextItem(r)
            /\ ~MergeItem(r) /\ ~DeleteGuestCart(r) /\ ~Die(r)
        BY <3>2 DEF FindCart, CreateCart, ListItems, NextItem, MergeItem, DeleteGuestCart, Die,
              ReqsOK, RequestsFit, RequestFits
      <4>2. ~ReadItem(r)
        BY <1>5, <2>1, ReadStep
      <4>3. ~Add(r) /\ ~UpdateItem(r)
        BY <3>2 DEF Add, UpdateItem
      <4> QED
        BY <2>3, <3>8, <4>1, <4>2, <4>3 DEF CartStep
    <3> QED
      BY <3>6, <3>7, <3>8
  <2> QED
    BY <2>2, <2>3
<1> QED
  BY <1>3, <1>4, <1>5

LEMMA RemovalInduction ==
    ASSUME TablesOK, ReqsOK, BeforeIsFinished, IdsAreSpent, ListedLater, RemovalsFit,
           NEW r \in Requests, CartStep(r)
    PROVE  RemovalsFit'
<1>1. \A d \in Requests : RemovalFits(d)'
  BY RemovalWaits, RemovalMoves
<1> QED
  BY <1>1 DEF RemovalsFit

\* The bound of the property is the sum of what the requests have asked for.
Asking(s) == [r \in Requests |-> Asked(r, s)]

Since(d, o, s) == {r \in Requests \ req[d].before : Touches(r, o, s)}

LEMMA AskingAddsUp ==
    ASSUME ReqsOK, NEW T \in SUBSET Requests, NEW s \in Skus
    PROVE  MapThenSumSet(LAMBDA r : Asked(r, s), T) = SumOver(Asking(s), T)
<1> DEFINE Adds(f) == f = [u \in SUBSET T |->
                              IF u = {} THEN 0 ELSE Asked(First(u), s) + f[u \ {First(u)}]]
<1>1. IsFiniteSet(T) /\ \A r \in T : Asking(s)[r] \in Int
  <2>1. \A r \in Requests : Asked(r, s) \in Int
    BY DEF Asked, ReqsOK, RequestType
  <2> QED
    BY <2>1, CartAssumption, FS_Subset DEF Asking
<1>2. \A u \in SUBSET T : u # {} => Asking(s)[First(u)] = Asked(First(u), s)
  <2>1. \A u \in SUBSET T : u # {} => First(u) \in u
    BY <1>1, FirstFacts
  <2> QED
    BY <2>1 DEF Asking
<1>3. ASSUME NEW f PROVE IsSum(f, Asking(s), T) <=> Adds(f)
  BY <1>2 DEF IsSum
<1>4. MapThenSumSet(LAMBDA r : Asked(r, s), T) = (CHOOSE f : Adds(f))[T]
  BY Zenon DEF MapThenSumSet, MapThenFoldSet, First
<1> HIDE DEF Adds
<1>5. Adds(CHOOSE f : Adds(f))
  BY <1>1, <1>3, SumsAreTotal
<1> QED
  BY <1>1, <1>3, <1>4, <1>5, SumsAreTotal

LEMMA LaterIsAsked ==
    ASSUME ReqsOK, NEW d \in Requests, NEW o, NEW s \in Skus
    PROVE  /\ Later(d, o, s) \in Nat
           /\ SumOver(Asking(s), Since(d, o, s)) \in Int
           /\ Later(d, o, s) <= SumOver(Asking(s), Since(d, o, s))
<1> DEFINE g == Weight(d, o, s)
           h == Asking(s)
           T == Since(d, o, s)
<1>1. \A r \in Requests : Asked(r, s) \in Nat
  BY DEF Asked, ReqsOK, RequestType
<1>2. \A r \in Requests : g[r] \in Nat /\ h[r] \in Nat /\ g[r] <= h[r]
  BY <1>1 DEF Weight, Asking
<1>3. \A r \in Requests \ T : g[r] = 0
  BY DEF Weight, Since, Wrote
<1>4. T \in SUBSET Requests
  BY DEF Since
<1>5. Later(d, o, s) = SumOver(g, Requests)
  BY DEF Later
<1> HIDE DEF g, h, T
<1>6. IsFiniteSet(Requests) /\ IsFiniteSet(T)
  BY <1>4, CartAssumption, FS_Subset
<1>7. SumOver(g, Requests) \in Nat /\ SumOver(h, T) \in Int
  BY <1>2, <1>4, <1>6, SumCovers
<1>8. SumOver(g, Requests) <= SumOver(h, T)
  <2>1. /\ \A r \in Requests : g[r] \in Int
        /\ \A r \in T : h[r] \in Int
        /\ \A r \in T : NoMoreThan(g, h, r)
    BY <1>2, <1>4 DEF NoMoreThan
  <2> QED
    BY <1>3, <1>4, <1>6, <2>1, SumOrder
<1> QED
  BY <1>5, <1>7, <1>8 DEF h, T

LEMMA RemovalsHold ==
    ASSUME TablesOK, ReqsOK, RemovalsFit
    PROVE  RemovedStaysRemoved
<1> SUFFICES ASSUME NEW d \in Requests, NEW s \in Skus,
                    req[d].op \in {"remove", "clear"}, req[d].pc = "ok", Touches(d, req[d].owner, s)
             PROVE  line[req[d].owner][s].quantity <=
                      MapThenSumSet(LAMBDA r : Asked(r, s), Since(d, req[d].owner, s))
  BY DEF RemovedStaysRemoved, Since
<1> DEFINE o == req[d].owner
<1>1. line[o][s].quantity <= Later(d, o, s)
  BY DEF RemovalsFit, RemovalFits, Removed
<1>2. o \in Owners
  BY DEF ReqsOK, RequestType
<1>3. line[o][s].quantity \in Nat
  BY <1>2 DEF TablesOK, LineType
<1> HIDE DEF o
<1>4. /\ Later(d, o, s) \in Nat
      /\ SumOver(Asking(s), Since(d, o, s)) \in Int
      /\ Later(d, o, s) <= SumOver(Asking(s), Since(d, o, s))
  BY LaterIsAsked
<1>5. MapThenSumSet(LAMBDA r : Asked(r, s), Since(d, o, s)) = SumOver(Asking(s), Since(d, o, s))
  <2>1. Since(d, o, s) \in SUBSET Requests
    BY DEF Since
  <2> QED
    BY <2>1, AskingAddsUp
<1>6. line[o][s].quantity <= SumOver(Asking(s), Since(d, o, s))
  BY <1>1, <1>3, <1>4
<1> QED
  BY <1>5, <1>6 DEF o

-----------------------------------------------------------------------------
(* The invariant and the theorems. *)

CartIInv ==
    /\ TablesOK /\ ReqsOK
    /\ BeforeIsFinished /\ WritesFit /\ LinesFitTheShelf
    /\ IdsAreSpent /\ SeenIsCurrent /\ ListedLater
    /\ MergesFit /\ RemovalsFit

LEMMA CartStarts == CartInit => CartIInv
<1> SUFFICES ASSUME CartInit PROVE CartIInv
  OBVIOUS
<1>1. PICK held \in [Owners -> [Skus -> UNION {0 .. Shelf[s] : s \in Skus}]] :
          /\ \A o \in Owners, s \in Skus : held[o][s] <= IF carts[o] = None THEN 0 ELSE Shelf[s]
          /\ line = [o \in Owners |-> [s \in Skus |->
                        IF held[o][s] = 0 THEN NoLine ELSE Row(Old, Old, held[o][s])]]
  BY DEF CartInit
<1>2. carts \in [Owners -> {Old, None}] /\ \A r \in Requests : req[r] = Idle
  BY DEF CartInit
<1>3. \A o \in Owners, s \in Skus : held[o][s] \in Nat
  BY CartAssumption
<1>4. ASSUME NEW o \in Owners, NEW s \in Skus
      PROVE  /\ line[o][s] = IF held[o][s] = 0 THEN NoLine ELSE Row(Old, Old, held[o][s])
             /\ line[o][s].quantity = held[o][s]
             /\ line[o][s].id = IF held[o][s] = 0 THEN None ELSE Old
             /\ line[o][s].by = IF held[o][s] = 0 THEN None ELSE Old
             /\ line[o][s] \in LineType
  <2>1. line[o][s] = IF held[o][s] = 0 THEN NoLine ELSE Row(Old, Old, held[o][s])
    BY <1>1
  <2>2. Row(Old, Old, held[o][s]) \in LineType
    BY <1>3, Apart DEF Row, LineType
  <2> QED
    BY <2>1, <2>2, NoLineFacts
<1>5. \A o \in Owners, s \in Skus : held[o][s] # 0 => carts[o] # None /\ held[o][s] <= Shelf[s]
  <2> SUFFICES ASSUME NEW o \in Owners, NEW s \in Skus, held[o][s] # 0
               PROVE  carts[o] # None /\ held[o][s] <= Shelf[s]
    OBVIOUS
  <2>1. held[o][s] <= IF carts[o] = None THEN 0 ELSE Shelf[s]
    BY <1>1
  <2> QED
    BY <1>3, <2>1
<1>6. TablesOK
  <2>1. line \in [Owners -> [Skus -> LineType]]
    <3>1. line = [o \in Owners |-> [s \in Skus |-> line[o][s]]]
      BY <1>1
    <3> QED
      BY <1>4, <3>1
  <2> QED
    BY <1>2, <1>4, <1>5, <2>1, Apart DEF TablesOK, LinesHaveNames
<1>7. ReqsOK
  <2>1. RequestFits(Idle)
    BY IdleFacts DEF RequestFits, Writes, Running
  <2>2. req \in [Requests -> RequestType]
    BY IdleFacts DEF CartInit
  <2> QED
    BY <1>2, <2>1, <2>2 DEF ReqsOK, RequestsFit
<1>8. \A r \in Requests : /\ req[r].pc = "idle" /\ req[r].op = "none" /\ req[r].before = {}
                          /\ req[r].listed = [s \in Skus |-> 0]
  BY <1>2, IdleFacts
<1>9. \A s \in Skus : Shelf[s] \in Nat
  BY CartAssumption
<1>10. WritesFit
  BY <1>8, <1>9 DEF WritesFit, WriteFits
<1>11. LinesFitTheShelf
  BY <1>4, <1>5, <1>9 DEF LinesFitTheShelf
<1>12. IdsAreSpent
  BY <1>4, <1>8, Apart DEF IdsAreSpent
<1> QED
  BY <1>6, <1>7, <1>8, <1>10, <1>11, <1>12
  DEF CartIInv, BeforeIsFinished, SeenIsCurrent, ListedLater, MergesFit, MergeFits,
      RemovalsFit, RemovalFits

LEMMA CartKeeps == CartIInv /\ [CartNext]_cartVars => CartIInv'
<1> SUFFICES ASSUME CartIInv, [CartNext]_cartVars PROVE CartIInv'
  OBVIOUS
<1>1. ASSUME NEW r \in Requests, CartStep(r) PROVE CartIInv'
  BY <1>1, StepFacts, BeforeInduction, ShelfInduction, IdsInduction, SeenInduction,
     ListedInduction, MergeInduction, RemovalInduction DEF CartIInv
<1>2. CASE CartNext
  BY <1>1, <1>2 DEF CartNext, CartStep
<1>3. CASE UNCHANGED cartVars
  <2> USE <1>3 DEF CartIInv, cartVars
  <2>1. TablesOK'
    BY TablesStay
  <2>2. ReqsOK'
    BY DEF ReqsOK, RequestsFit, RequestFits, Writes
  <2>3. BeforeIsFinished' /\ WritesFit' /\ LinesFitTheShelf'
    BY DEF BeforeIsFinished, WritesFit, WriteFits, LinesFitTheShelf
  <2>4. IdsAreSpent' /\ SeenIsCurrent' /\ ListedLater'
    BY DEF IdsAreSpent, Spent, SeenIsCurrent, Alive, ListedLater
  <2>5. MergesFit'
    BY DEF MergesFit, MergeFits, Spent, Overlapped, Wrote, Touches
  <2>6. RemovalsFit'
    BY DEF RemovalsFit, RemovalFits, Removed, Later, Weight, Asked, Wrote, Touches, Alive
  <2> QED
    BY <2>1, <2>2, <2>3, <2>4, <2>5, <2>6
<1> QED
  BY <1>2, <1>3

\* Whatever a step of the cart does, it does as one of CartStep.
LEMMA CartAlways == CartSpec => []CartIInv
BY CartStarts, CartKeeps, PTL DEF CartSpec

\* Every table of the cart holds what its columns allow, and no cart that is
\* gone has items.
THEOREM CartTypeCorrect == CartSpec => []CartTypeOK
<1>1. CartIInv => CartTypeOK
  BY TypesAreOK DEF CartIInv, ReqsOK
<1> QED
  BY <1>1, CartAlways, PTL

\* Whatever the requests do to each other, no item exceeds what B2B offered.
THEOREM CartFitsTheShelf == CartSpec => []LinesFitTheShelf
<1>1. CartIInv => LinesFitTheShelf
  BY DEF CartIInv
<1> QED
  BY <1>1, CartAlways, PTL

\* After a removal was answered, an item holds at most what requests that had
\* not ended when the removal began have asked for.
THEOREM RemovedItemsStayRemoved == CartSpec => []RemovedStaysRemoved
<1>1. CartIInv => RemovedStaysRemoved
  BY RemovalsHold DEF CartIInv
<1> QED
  BY <1>1, CartAlways, PTL

\* An increment is lost only to a request that wrote the item meanwhile.
THEOREM OnlyRacesLoseIncrements == CartSpec => IncrementsCountAlone
<1> DEFINE Counts ==
        \A r \in Requests :
            LET o == req[r].owner
                s == req[r].sku
            IN  req[r].op = "add" /\ req[r].pc = "write" /\ req'[r].pc = "ok"
                    => \/ line'[o][s].quantity = line[o][s].quantity + req[r].amount
                       \/ line[o][s].by \notin req[r].before
<1>1. CartIInv /\ [CartNext]_cartVars => [Counts]_cartVars
  <2> SUFFICES ASSUME CartIInv, CartNext PROVE Counts
    OBVIOUS
  <2>1. PICK r \in Requests : CartStep(r)
    BY DEF CartNext, CartStep
  <2> QED
    BY <2>1, StepCounts DEF CartIInv
<1> QED
  BY <1>1, CartAlways, PTL DEF CartSpec, IncrementsCountAlone

\* The guest's cart goes only with a merge that ends well, and an item answered
\* before it began is in the buyer's cart then, unless a request overlapped.
THEOREM CartsAreMergedOrKept == CartSpec => MergedOrKept
<1> DEFINE Merges ==
        \A s \in Skus : carts["guest"] # None /\ carts'["guest"] = None =>
            \E m \in Requests :
                /\ req[m].op = "merge"
                /\ req[m].pc # "ok"
                /\ req'[m].pc = "ok"
                /\ \/ line["guest"][s].by \notin req[m].before
                   \/ line["buyer"][s].quantity >= line["guest"][s].quantity
                   \/ \E r \in Requests \ (req[m].before \cup {m}) : Touches(r, "buyer", s)
<1>1. CartIInv /\ [CartNext]_cartVars => [Merges]_cartVars
  <2> SUFFICES ASSUME CartIInv, CartNext PROVE Merges
    OBVIOUS
  <2>1. PICK r \in Requests : CartStep(r)
    BY DEF CartNext, CartStep
  <2> QED
    BY <2>1, StepMerges DEF CartIInv
<1> QED
  BY <1>1, CartAlways, PTL DEF CartSpec, MergedOrKept
=============================================================================
