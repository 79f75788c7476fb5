---------------------------- MODULE BuyerRecords ----------------------------
(***************************************************************************)
(* What one buyer keeps in B2C besides cart and orders.  Addresses and     *)
(* payment methods are tables alike, with a default row of which the code  *)
(* wants one; favorites and subscriptions are lists alike, with at most    *)
(* one row for a product.  Each use-case is a chain of one-statement       *)
(* transactions.  A row is named by the request that inserted it.          *)
(***************************************************************************)
EXTENDS Naturals, FiniteSets

CONSTANTS
    Requests,
    OldRows,      \* addresses from before
    None

Names == Requests \cup OldRows
Lists == {"favorites", "subscriptions"}

ASSUME RecordsAssumption ==
    /\ Requests \cap OldRows = {}
    /\ None \notin Names

VARIABLES
    rows,         \* addresses (or payment_methods) of the buyer
    default,      \* is_default: by which request a row got it, or None
    mark,         \* each list's row for one product, UNIQUE (user_id, product_id)
    req

vars == <<rows, default, mark, req>>

Running == {"unset", "write"}
Finished == {"ok", "known", "refused", "failed", "died"}
Ops == {"create", "update", "delete", "add", "remove"}

(***************************************************************************)
(* on is the row or the list that a request is about, flag the is_default  *)
(* it gives; before holds the requests that had ended when it began.       *)
(***************************************************************************)
Idle == [op |-> "none", on |-> None, flag |-> FALSE, before |-> {}, pc |-> "idle"]

TypeOK ==
    /\ rows \subseteq Names
    /\ default \in [Names -> Names \cup {None}]
    /\ mark \in [Lists -> Requests \cup {None}]
    /\ req \in [Requests ->
            [op : Ops \cup {"none"}, on : Names \cup Lists \cup {None}, flag : BOOLEAN,
             before : SUBSET Requests, pc : Running \cup Finished \cup {"idle"}]]
    /\ \A x \in Names : default[x] # None => x \in rows

Init ==
    /\ rows = OldRows
    /\ \E d \in OldRows \cup {None} :
          default = [x \in Names |-> IF x = d THEN x ELSE None]
    /\ mark = [l \in Lists |-> None]
    /\ req = [r \in Requests |-> Idle]

-----------------------------------------------------------------------------
Ended == {r \in Requests : req[r].pc \in Finished}

\* A request begins, with the first of its transactions; to: what it goes on with.
Begins(r, op, x, flag, to) ==
    /\ req[r].pc = "idle"
    /\ req' = [req EXCEPT ![r] =
            [op |-> op, on |-> x, flag |-> flag, before |-> Ended, pc |-> to]]

At(r, op) == req[r].op = op /\ req[r].pc = "write"

Go(r, to) == req' = [req EXCEPT ![r].pc = to]

\* UPDATE ... SET is_default = false, of every default row but x.
AllBut(x) == [y \in Names |-> IF y = x THEN default[y] ELSE None]

-----------------------------------------------------------------------------
(* Addresses and payment methods.  A request for a row of another buyer is  *)
(* refused like one for a row that is not there.  An update that leaves     *)
(* is_default alone changes contents only and is left out.                  *)

InsertRow(r, flag) ==
    /\ rows' = rows \cup {r}
    /\ default' = [default EXCEPT ![r] = IF flag THEN r ELSE None]
    /\ UNCHANGED mark

\* Nothing is unset before a default row is inserted.
MutantBeginCreate(r) ==
    \E flag \in BOOLEAN : Begins(r, "create", r, flag, "ok") /\ InsertRow(r, flag)

\* With is_default, the others are unset first; without, there is only the INSERT.
BeginCreate(r) ==
    \/ Begins(r, "create", r, TRUE, "write") /\ default' = AllBut(None) /\ UNCHANGED <<rows, mark>>
    \/ Begins(r, "create", r, FALSE, "ok") /\ InsertRow(r, FALSE)

Create(r) == At(r, "create") /\ InsertRow(r, TRUE) /\ Go(r, "ok")

\* The row is read, or missed.
Load(r) ==
    /\ \E op \in {"update", "delete"}, x \in Names, flag \in BOOLEAN :
          /\ op = "delete" => ~flag
          /\ Begins(r, op, x, flag,
                    IF x \notin rows THEN "refused" ELSE IF flag THEN "unset" ELSE "write")
    /\ UNCHANGED <<rows, default, mark>>

\* One default row at most is unset.
MutantUnsetOthers(r) ==
    /\ req[r].pc = "unset"
    /\ Go(r, "write")
    /\ LET others == {x \in Names \ {req[r].on} : default[x] # None}
       IN  IF others = {} THEN UNCHANGED default
           ELSE \E x \in others : default' = [default EXCEPT ![x] = None]
    /\ UNCHANGED <<rows, mark>>

UnsetOthers(r) ==
    /\ req[r].pc = "unset"
    /\ default' = AllBut(req[r].on)
    /\ Go(r, "write")
    /\ UNCHANGED <<rows, mark>>

\* UPDATE by id, 404 when the row is gone meanwhile.  The others are unset by then.
Update(r) ==
    /\ At(r, "update")
    /\ LET x == req[r].on
       IN  IF x \in rows
           THEN default' = [default EXCEPT ![x] = IF req[r].flag THEN r ELSE None] /\ Go(r, "ok")
           ELSE Go(r, "refused") /\ UNCHANGED default
    /\ UNCHANGED <<rows, mark>>

\* DELETE by id, whether the row is still there or not.
Delete(r) ==
    /\ At(r, "delete")
    /\ rows' = rows \ {req[r].on}
    /\ default' = [default EXCEPT ![req[r].on] = None]
    /\ Go(r, "ok")
    /\ UNCHANGED mark

-----------------------------------------------------------------------------
(* Favorites and subscriptions. *)

\* The row is there already: 204 for a favorite, 409 for a subscription.  B2B
\* is asked for a favorite before, and answers that it has no such product or
\* not at all.
BeginAdd(r) ==
    /\ \E l \in Lists :
          \/ Begins(r, "add", l, FALSE,
                    IF mark[l] = None THEN "write" ELSE IF l = "favorites" THEN "ok" ELSE "known")
          \/ l = "favorites" /\ Begins(r, "add", l, FALSE, "refused")
    /\ UNCHANGED <<rows, default, mark>>

\* INSERT: the later of two fails, as no one catches the violation.
Add(r) ==
    /\ At(r, "add")
    /\ LET l == req[r].on
       IN  IF mark[l] = None
           THEN mark' = [mark EXCEPT ![l] = r] /\ Go(r, "ok")
           ELSE Go(r, "failed") /\ UNCHANGED mark
    /\ UNCHANGED <<rows, default>>

\* One DELETE; a subscription that is not there is answered 404.
Remove(r) ==
    /\ \E l \in Lists :
          /\ Begins(r, "remove", l, FALSE,
                    IF l = "subscriptions" /\ mark[l] = None THEN "known" ELSE "ok")
          /\ mark' = [mark EXCEPT ![l] = None]
    /\ UNCHANGED <<rows, default>>

-----------------------------------------------------------------------------
\* The process dies between two transactions.
Die(r) ==
    /\ req[r].pc \in Running
    /\ Go(r, "died")
    /\ UNCHANGED <<rows, default, mark>>

Next ==
    \E r \in Requests :
        \/ BeginCreate(r) \/ Create(r) \/ Load(r) \/ UnsetOthers(r) \/ Update(r) \/ Delete(r)
        \/ BeginAdd(r) \/ Add(r) \/ Remove(r)
        \/ Die(r)

Spec == Init /\ [][Next]_vars

-----------------------------------------------------------------------------
(* Properties. *)

Began(r) == req[r].pc # "idle"
Precedes(p, r) == p \in OldRows \/ (r \in Requests /\ p \in req[r].before)
Raced(p, r) == ~Precedes(p, r) /\ ~Precedes(r, p)

\* create_address, update_address: two rows are default at once only if the
\* requests that made them so were under way at the same time.
TwoDefaultsWereRaced ==
    \A x, y \in Names :
        x # y /\ default[x] # None /\ default[y] # None => Raced(default[x], default[y])

\* A request that makes a row the default and meets no other puts right
\* whatever races and crashes left: its row is the only default.
LastWordCounts ==
    \A r \in Requests :
        /\ req[r].op \in {"create", "update"} /\ req[r].flag /\ req[r].pc = "ok"
        /\ \A p \in Requests \ {r} : Began(p) => Precedes(p, r)
        => {x \in Names : default[x] # None} = {req[r].on}

\* add_favorite, subscribe: an addition fails with 500 only against another one
\* that it raced.
FailedAddWasRaced ==
    \A r \in Requests : req[r].op = "add" /\ req[r].pc = "failed" =>
        \E p \in Requests \ {r} :
            req[p].op = "add" /\ req[p].on = req[r].on /\ req[p].pc = "ok" /\ Raced(p, r)

\* What was answered holds until a request of the other kind: an added row is
\* there, 409 included, a removed one is not.
AnsweredMarksHold ==
    \A r \in Requests :
        LET undone(op) == \E p \in Requests :
                req[p].op = op /\ req[p].on = req[r].on /\ ~Precedes(p, r)
        IN  /\ req[r].op = "add" /\ req[r].pc \in {"ok", "known"} /\ ~undone("remove")
                  => mark[req[r].on] # None
            /\ req[r].op = "remove" /\ ~undone("add")
                  => mark[req[r].on] = None

-----------------------------------------------------------------------------
(* What comments say and the code does not do. *)

\* create_address.py:13: with is_default the defaults of the others are taken away first.
OneDefault == \A x, y \in Names : default[x] # None /\ default[y] # None => x = y

\* routers.py:54-55 of favorites: 204 at the first and at a repeated addition.
AddIsIdempotent ==
    \A r \in Requests : req[r].op = "add" /\ req[r].on = "favorites" => req[r].pc # "failed"
=============================================================================
