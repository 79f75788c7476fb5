--------------------------------- MODULE Cart ---------------------------------
(***************************************************************************)
(* The cart of a buyer and the cart of the guest the buyer was before      *)
(* (b2c/apps/cart).  Every use-case is a chain of one-statement            *)
(* transactions over carts and cart_items; what it read may be gone when   *)
(* it writes.  A row is named by the request that inserted it, Old stands  *)
(* for all that came before.  The card of a cart that add, update, remove  *)
(* and merge answer with is read afterwards and changes nothing.           *)
(***************************************************************************)
EXTENDS Naturals, FiniteSetsExt

CONSTANTS
    Requests,
    Skus,
    Amounts,      \* quantities that requests give, at least 1
    Shelf,        \* the most of a SKU that B2B ever offers
    Old,
    None

Names == Requests \cup {Old}
Owners == {"guest", "buyer"}

ASSUME CartAssumption ==
    /\ Amounts \subseteq Nat \ {0}
    /\ Shelf \in [Skus -> Nat]
    /\ Old \notin Requests
    /\ None \notin Names \cup Skus
    /\ IsFiniteSet(Requests)

VARIABLES
    carts,        \* the row of each owner, UNIQUE in user_id and session_id
    line,         \* cart_items: UNIQUE (cart_id, sku_id), gone with their cart
    req

cartVars == <<carts, line, req>>

\* by is the last writer of a row; only properties look at it.
Row(id, by, quantity) == [id |-> id, by |-> by, quantity |-> quantity]
NoLine == Row(None, None, 0)

Ops == {"add", "update", "remove", "clear", "merge"}
Running == {"find", "create", "read", "write", "clear", "list", "next", "merge"}
Finished == {"ok", "refused", "failed", "died"}

(***************************************************************************)
(* cart, guest and item are the ids a request works with, seen the         *)
(* quantity it read; listed are the guest's items that a merge goes        *)
(* through and todo those before it.  before holds the requests that had   *)
(* ended when this one began.                                              *)
(***************************************************************************)
Idle == [op |-> "none", owner |-> "buyer", sku |-> None, amount |-> 0,
         cart |-> None, guest |-> None, item |-> None, seen |-> 0,
         listed |-> [s \in Skus |-> 0], todo |-> {}, before |-> {}, pc |-> "idle"]

CartTypeOK ==
    /\ carts \in [Owners -> Names \cup {None}]
    /\ line \in [Owners -> [Skus -> [id : Names \cup {None}, by : Names \cup {None}, quantity : Nat]]]
    /\ req \in [Requests ->
            [op : Ops \cup {"none"}, owner : Owners, sku : Skus \cup {None},
             amount : Nat, cart : Names \cup {None},
             guest : Names \cup {None}, item : Names \cup {None}, seen : Nat,
             listed : [Skus -> Nat], todo : SUBSET Skus, before : SUBSET Names,
             pc : Running \cup Finished \cup {"idle"}]]
    /\ \A o \in Owners, s \in Skus :
        /\ line[o][s] = NoLine <=> line[o][s].quantity = 0
        /\ line[o][s] # NoLine => carts[o] # None

CartInit ==
    /\ carts \in [Owners -> {Old, None}]
    /\ \E held \in [Owners -> [Skus -> UNION {0 .. Shelf[s] : s \in Skus}]] :
        /\ \A o \in Owners, s \in Skus :
            held[o][s] <= IF carts[o] = None THEN 0 ELSE Shelf[s]
        /\ line = [o \in Owners |-> [s \in Skus |->
                      IF held[o][s] = 0 THEN NoLine ELSE Row(Old, Old, held[o][s])]]
    /\ req = [r \in Requests |-> Idle]

-----------------------------------------------------------------------------
(* Steps of the requests.  A request that ends keeps what the *)
(* properties ask for, one that had no effect nothing at all.               *)

To(r, to) == req' = [req EXCEPT ![r].pc = to]

End(r, how) ==
    LET q == req[r]
    IN  req' = [req EXCEPT ![r] =
            IF how # "ok" /\ q.op # "merge" THEN [Idle EXCEPT !.pc = how]
            ELSE [Idle EXCEPT !.op = q.op, !.owner = q.owner, !.amount = q.amount,
                              !.sku = IF q.op = "merge" THEN None ELSE q.sku,
                              !.listed = q.listed, !.before = q.before, !.pc = how]]

GoOn(r, to) == IF to \in Finished THEN End(r, to) ELSE To(r, to)

\* Where a request goes once it has its cart.
Entry(q) ==
    CASE q.op = "clear" -> "clear"
      [] q.op = "merge" -> IF q.guest = None THEN "ok" ELSE "list"
      [] OTHER          -> "read"

\* SELECT of the cart; without one, add and merge create it, clear is done and
\* update and remove are answered 404.
WithCart(q) ==
    LET c == carts[q.owner]
    IN  IF c # None THEN [q EXCEPT !.cart = c, !.pc = Entry(q)]
        ELSE CASE q.op \in {"add", "merge"} -> [q EXCEPT !.pc = "create"]
               [] q.op = "clear"            -> [q EXCEPT !.pc = "ok"]
               [] OTHER                     -> [Idle EXCEPT !.pc = "refused"]

\* A request comes in, with its first SELECT: a merge looks for the guest's
\* cart, any other for its owner's.
Begin(r) ==
    /\ req[r].pc = "idle"
    /\ \E op \in Ops, o \in Owners, s \in Skus \cup {None}, n \in Amounts \cup {0} :
        LET q == [Idle EXCEPT !.op = op, !.owner = o, !.sku = s, !.amount = n,
                              !.before = {Old} \cup {p \in Requests : req[p].pc \in Finished}]
        IN  /\ op \in {"clear", "merge"} <=> s = None
            /\ op \in {"add", "update"} <=> n # 0
            /\ op = "merge" => o = "buyer"
            /\ req' = [req EXCEPT ![r] =
                    IF op = "merge" THEN [q EXCEPT !.guest = carts["guest"], !.pc = "find"]
                    ELSE WithCart(q)]
    /\ UNCHANGED <<carts, line>>

FindCart(r) ==
    /\ req[r].pc = "find"
    /\ req' = [req EXCEPT ![r] = WithCart(@)]
    /\ UNCHANGED <<carts, line>>

\* UNIQUE: of two that create a cart at once, one fails.
CreateCart(r) ==
    /\ req[r].pc = "create"
    /\ IF carts[req[r].owner] = None
       THEN /\ carts' = [carts EXCEPT ![req[r].owner] = r]
            /\ req' = [req EXCEPT ![r].cart = r, ![r].pc = Entry(req[r])]
       ELSE GoOn(r, "failed") /\ UNCHANGED carts
    /\ UNCHANGED line

\* The items of cart c of owner o; none when it was deleted meanwhile.
ItemsOf(c, o) == IF carts[o] = c THEN line[o] ELSE [s \in Skus |-> NoLine]

\* The item is read and the stock that B2B offered compared: 409 or 503 unless
\* it suffices.  update and remove answer 404 without an item.
ReadItem(r) ==
    /\ req[r].pc = "read"
    /\ LET l == ItemsOf(req[r].cart, req[r].owner)[req[r].sku]
           total == req[r].amount + IF req[r].op = "add" THEN l.quantity ELSE 0
       IN  \/ /\ total <= Shelf[req[r].sku]
              /\ req[r].op = "add" \/ l # NoLine
              /\ req' = [req EXCEPT ![r].item = l.id, ![r].seen = l.quantity, ![r].pc = "write"]
           \/ /\ req[r].op # "remove" \/ l = NoLine
              /\ GoOn(r, "refused")
    /\ UNCHANGED <<carts, line>>

Put(o, s, l) == line' = [line EXCEPT ![o][s] = l]

\* INSERT: 500 when the item is there meanwhile, or its cart is not.
Insert(r, quantity, to) ==
    LET o == req[r].owner
        s == req[r].sku
    IN  IF carts[o] = req[r].cart /\ line[o][s] = NoLine
        THEN Put(o, s, Row(r, r, quantity)) /\ GoOn(r, to)
        ELSE GoOn(r, "failed") /\ UNCHANGED line

\* UPDATE or DELETE by the item's id: without effect when it is gone.
Alive(r) == line[req[r].owner][req[r].sku].id = req[r].item

\* A row that is gone is inserted again.
MutantUpdate(r, quantity, to, gone) ==
    /\ Put(req[r].owner, req[r].sku, Row(req[r].item, r, quantity))
    /\ GoOn(r, to)

Update(r, quantity, to, gone) ==
    IF Alive(r)
    THEN /\ Put(req[r].owner, req[r].sku, Row(req[r].item, r, quantity))
         /\ GoOn(r, to)
    ELSE GoOn(r, gone) /\ UNCHANGED line

\* The quantity of the item is replaced.
MutantAdd(r) ==
    /\ req[r].pc = "write"
    /\ req[r].op = "add"
    /\ IF req[r].item = None
       THEN Insert(r, req[r].amount, "ok")
       ELSE Update(r, req[r].amount, "ok", "failed")
    /\ UNCHANGED carts

\* The sum of what was read and what was asked, whatever is there by now; an
\* update of a row that is gone fails an assertion.
Add(r) ==
    /\ req[r].pc = "write"
    /\ req[r].op = "add"
    /\ IF req[r].item = None
       THEN Insert(r, req[r].amount, "ok")
       ELSE Update(r, req[r].seen + req[r].amount, "ok", "failed")
    /\ UNCHANGED carts

UpdateItem(r) ==
    /\ req[r].pc = "write"
    /\ req[r].op = "update"
    /\ Update(r, req[r].amount, "ok", "refused")
    /\ UNCHANGED carts

\* DELETE of an item that is gone already is answered 200 as well.
RemoveItem(r) ==
    /\ req[r].pc = "write"
    /\ req[r].op = "remove"
    /\ IF Alive(r) THEN Put(req[r].owner, req[r].sku, NoLine) ELSE UNCHANGED line
    /\ GoOn(r, "ok")
    /\ UNCHANGED carts

ClearCart(r) ==
    /\ req[r].pc = "clear"
    /\ IF carts[req[r].owner] = req[r].cart
       THEN line' = [line EXCEPT ![req[r].owner] = [s \in Skus |-> NoLine]]
       ELSE UNCHANGED line
    /\ GoOn(r, "ok")
    /\ UNCHANGED carts

-----------------------------------------------------------------------------
(* The loop of a merge, its items in any order. *)

ListItems(r) ==
    /\ req[r].pc = "list"
    /\ LET l == ItemsOf(req[r].guest, "guest")
       IN  req' = [req EXCEPT ![r].listed = [s \in Skus |-> l[s].quantity],
                              ![r].todo = {s \in Skus : l[s] # NoLine},
                              ![r].pc = "next"]
    /\ UNCHANGED <<carts, line>>

NextItem(r) ==
    /\ req[r].pc = "next"
    /\ \E s \in req[r].todo :
        LET l == ItemsOf(req[r].cart, "buyer")[s]
        IN  req' = [req EXCEPT ![r].sku = s, ![r].item = l.id, ![r].seen = l.quantity,
                               ![r].todo = @ \ {s},
                               ![r].pc = IF l.quantity < req[r].listed[s] THEN "merge" ELSE "next"]
    /\ UNCHANGED <<carts, line>>

\* The quantities add up.
MutantMergeItem(r) ==
    /\ req[r].pc = "merge"
    /\ LET n == req[r].listed[req[r].sku]
       IN  IF req[r].item = None THEN Insert(r, n, "next")
           ELSE Update(r, req[r].seen + n, "next", "next")
    /\ UNCHANGED carts

\* An item that the buyer has stays as it is.
MutantMergeSkips(r) ==
    /\ req[r].pc = "merge"
    /\ IF req[r].item = None THEN Insert(r, req[r].listed[req[r].sku], "next")
       ELSE GoOn(r, "next") /\ UNCHANGED line
    /\ UNCHANGED carts

\* The larger quantity stays; nobody looks whether the UPDATE found its row.
MergeItem(r) ==
    /\ req[r].pc = "merge"
    /\ LET n == req[r].listed[req[r].sku]
       IN  IF req[r].item = None THEN Insert(r, n, "next") ELSE Update(r, n, "next", "next")
    /\ UNCHANGED carts

\* DELETE by session_id: whatever cart the guest has now, with its items.
DeleteGuestCart(r) ==
    /\ req[r].pc = "next"
    /\ req[r].todo = {}
    /\ carts' = [carts EXCEPT !["guest"] = None]
    /\ line' = [line EXCEPT !["guest"] = [s \in Skus |-> NoLine]]
    /\ GoOn(r, "ok")

\* The process of a merge stops between two transactions.  To stop before the
\* only write of another request is not to go on.
Die(r) ==
    /\ req[r].pc \in {"list", "next", "merge"}
    /\ GoOn(r, "died")
    /\ UNCHANGED <<carts, line>>

CartNext ==
    \E r \in Requests :
        \/ Begin(r) \/ FindCart(r) \/ CreateCart(r) \/ ReadItem(r)
        \/ Add(r) \/ UpdateItem(r) \/ RemoveItem(r) \/ ClearCart(r)
        \/ ListItems(r) \/ NextItem(r) \/ MergeItem(r) \/ DeleteGuestCart(r)
        \/ Die(r)

CartSpec == CartInit /\ [][CartNext]_cartVars

-----------------------------------------------------------------------------
(* Properties. *)

\* add, update, merge: each compares with the stock by itself, or not at all, and
\* writes what it computed from an older read; no item ever exceeds what B2B
\* offered.
LinesFitTheShelf ==
    \A o \in Owners, s \in Skus : line[o][s].quantity <= Shelf[s]

Touches(r, o, s) ==
    /\ req[r].op # "none"
    /\ req[r].owner = o
    /\ req[r].op \in {"clear", "merge"} \/ req[r].sku = s

\* The most that r can put into an item that was empty before.
Asked(r, s) == IF req[r].op = "merge" THEN req[r].listed[s] ELSE req[r].amount

\* remove and clear: a request that read an item before its removal does not
\* bring back what was removed.  What is there after a removal was answered has
\* been asked for by requests that had not ended when it began.
RemovedStaysRemoved ==
    \A d \in Requests, s \in Skus :
        /\ req[d].op \in {"remove", "clear"}
        /\ req[d].pc = "ok"
        /\ Touches(d, req[d].owner, s)
        => line[req[d].owner][s].quantity <=
              MapThenSumSet(LAMBDA r : Asked(r, s),
                            {r \in Requests \ req[d].before : Touches(r, req[d].owner, s)})

\* add: the sum is computed in Python, so an increment can be lost, but only
\* when another request wrote the item since the addition began.
IncrementsCountAlone ==
    [][\A r \in Requests :
        LET o == req[r].owner
            s == req[r].sku
        IN  req[r].op = "add" /\ req[r].pc = "write" /\ req'[r].pc = "ok"
                => \/ line'[o][s].quantity = line[o][s].quantity + req[r].amount
                   \/ line[o][s].by \notin req[r].before]_cartVars

\* merge: the guest's cart goes with its items, but an item that was answered
\* before the merge began is in the buyer's cart by then, unless another request
\* to that cart overlapped; a merge that fails or dies half way takes nothing.
MergedOrKept ==
    [][\A s \in Skus : carts["guest"] # None /\ carts'["guest"] = None =>
        \E m \in Requests :
            /\ req[m].op = "merge"
            /\ req[m].pc # "ok"
            /\ req'[m].pc = "ok"
            /\ \/ line["guest"][s].by \notin req[m].before
               \/ line["buyer"][s].quantity >= line["guest"][s].quantity
               \/ \E r \in Requests \ (req[m].before \cup {m}) : Touches(r, "buyer", s)]_cartVars

-----------------------------------------------------------------------------
(* What comments say and the code does not do. *)

\* cart_item.py:15-16: adding to the cart again increments the quantity.
IncrementsNotLost ==
    [][\A r \in Requests :
        LET o == req[r].owner
            s == req[r].sku
        IN  req[r].op = "add" /\ req[r].pc = "write" /\ req'[r].pc = "ok"
                => line'[o][s].quantity = line[o][s].quantity + req[r].amount]_cartVars

\* merge_cart.py:17-20: each item of the guest's cart is merged before the cart
\* is deleted.  One added after the list was read is deleted unmerged.
NothingLeftBehind ==
    [][\A s \in Skus :
        /\ carts["guest"] # None
        /\ carts'["guest"] = None
        /\ line["guest"][s] # NoLine
        => line["buyer"][s] # NoLine \/ \E r \in Requests : req[r].op # "merge" /\ Touches(r, "buyer", s)]_cartVars
=============================================================================
