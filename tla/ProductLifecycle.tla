-------------------------- MODULE ProductLifecycle --------------------------
(***************************************************************************)
(* Products, SKUs and invoices in B2B, from the seller's requests          *)
(* (apps/products, apps/skus, apps/invoices) and from the verdicts of the  *)
(* moderation service (apps/events).  Every use-case is a chain of         *)
(* transactions: it reads the product, changes it, and then sets statuses  *)
(* and inserts outbox rows one by one, on the strength of the status it    *)
(* read.  todo holds the rest of the chain; a crash leaves it undone.      *)
(***************************************************************************)
EXTENDS Naturals, Sequences, FiniteSets, SequencesExt

CONSTANTS
    Products,
    Requests,     \* HTTP requests of sellers; a SKU is named by the one that made it
    Handlers,     \* HTTP deliveries of verdicts
    MaxVerdicts,  \* bound on the verdicts moderation sends
    Nobody

ASSUME LifecycleAssumption ==
    /\ Requests \cap Handlers = {}
    /\ Nobody \notin Products \cup Requests
    /\ MaxVerdicts \in Nat

VARIABLES
    verdicts,  \* verdicts of moderation; the position is the idempotency key
    status,    \* products.status ("none": no row)
    deleted,   \* products.deleted
    skus,      \* rows of skus
    invoice,   \* the row of invoices that a request makes, without its line or with it
    mail,      \* outbox rows to moderation, in commit order
    shop,      \* outbox rows to B2C
    inbox,     \* processed_events
    carried,   \* the verdict each delivery carries
    job,       \* what each request asks for
    step,      \* where each request and delivery is
    seen,      \* the product status it goes by
    todo,      \* the transactions it has left, after its own change
    changed    \* history: the status it has set, or "DELETED" (no action reads it)

productVars ==
    <<status, deleted, skus, invoice, mail, shop, inbox, carried, job, step, seen, todo, changed>>
vars == <<verdicts, productVars>>

Procs == Requests \cup Handlers

Statuses == {"CREATED", "ON_MODERATION", "MODERATED", "BLOCKED", "HARD_BLOCKED"}
Ops == {"create_sku", "edit_product", "edit_sku", "delete_sku", "delete_product", "create_invoice"}
Decisions == {"APPROVED", "BLOCKED", "HARD_BLOCKED"}

\* One transaction of a chain.
SetTo(s) == [kind |-> "status", what |-> s]
Mail(type) == [kind |-> "mail", what |-> type]
Shop(type) == [kind |-> "shop", what |-> type]
Record == [kind |-> "inbox", what |-> "key"]
Line == [kind |-> "line", what |-> "item"]

Effects ==
    {SetTo(s) : s \in Statuses} \cup {Mail(t) : t \in {"CREATED", "EDITED", "DELETED"}}
    \cup {Shop(t) : t \in {"SKU_OUT_OF_STOCK", "PRODUCT_DELETED", "PRODUCT_BLOCKED"}} \cup {Record, Line}
Steps == {"idle", "loaded", "written", "effects", "refused", "failed", "crashed", "replayed", "done"}

TypeOK ==
    /\ status \in [Products -> {"none"} \cup Statuses]
    /\ deleted \in [Products -> BOOLEAN]
    /\ skus \in [Products -> SUBSET Requests]
    /\ invoice \in [Requests -> {"none", "empty", "filled"}]
    /\ \A i \in DOMAIN mail : mail[i].product \in Products /\ Mail(mail[i].type) \in Effects
    /\ \A i \in DOMAIN shop : shop[i].product \in Products /\ Shop(shop[i].type) \in Effects
    /\ inbox \subseteq DOMAIN verdicts
    /\ carried \in [Handlers -> {0} \cup DOMAIN verdicts]
    /\ job \in [Requests -> [op : Ops \cup {"none"}, on : Products \cup {Nobody},
                            sku : Requests \cup {Nobody}]]
    /\ step \in [Procs -> Steps]
    /\ seen \in [Procs -> {"none"} \cup Statuses]
    /\ todo \in [Procs -> Seq(Effects)]
    /\ changed \in [Procs -> {"none", "DELETED"} \cup Statuses]

ProductInit ==
    /\ status = [p \in Products |-> "none"]
    /\ deleted = [p \in Products |-> FALSE]
    /\ skus = [p \in Products |-> {}]
    /\ invoice = [r \in Requests |-> "none"]
    /\ mail = <<>> /\ shop = <<>> /\ inbox = {}
    /\ carried = [h \in Handlers |-> 0]
    /\ job = [r \in Requests |-> [op |-> "none", on |-> Nobody, sku |-> Nobody]]
    /\ step = [x \in Procs |-> "idle"]
    /\ seen = [x \in Procs |-> "none"]
    /\ todo = [x \in Procs |-> <<>>]
    /\ changed = [x \in Procs |-> "none"]

Init == verdicts = <<>> /\ ProductInit

Go(x, to) == step' = [step EXCEPT ![x] = to]

\* The rest of x's chain is es; an empty chain is an answered request.
Then(x, es) ==
    /\ todo' = [todo EXCEPT ![x] = es]
    /\ Go(x, IF es = <<>> THEN "done" ELSE "effects")

ProductOf(x) == IF x \in Requests THEN job[x].on ELSE verdicts[carried[x]].product

-----------------------------------------------------------------------------
(* Requests of sellers.  A request the caller may not make, because of its  *)
(* owner, its payload or a reserve on the SKU, changes nothing and is left  *)
(* out.                                                                     *)

CreateProduct(p) ==
    /\ status[p] = "none"
    /\ status' = [status EXCEPT ![p] = "CREATED"]
    /\ UNCHANGED <<verdicts, deleted, skus, invoice, mail, shop, inbox, carried, job, step, seen, todo,
                   changed>>

\* 403 HARD_BLOCKED, 409 already deleted, 400 an invoice of any but MODERATED.
MayLoad(op, p) ==
    /\ status[p] # "HARD_BLOCKED"
    /\ op = "create_invoice" => status[p] = "MODERATED"
    /\ op = "delete_product" => ~deleted[p]

\* The product is read in a transaction of its own.
Load(r, op, p, s) ==
    /\ step[r] = "idle"
    /\ status[p] # "none"
    /\ IF op \in {"edit_sku", "delete_sku", "create_invoice"} THEN s \in skus[p] ELSE s = Nobody
    /\ job' = [job EXCEPT ![r] = [op |-> op, on |-> p, sku |-> s]]
    /\ seen' = [seen EXCEPT ![r] = status[p]]
    /\ Go(r, IF MayLoad(op, p) THEN "loaded" ELSE "refused")
    /\ UNCHANGED <<verdicts, status, deleted, skus, invoice, mail, shop, inbox, carried, todo, changed>>

Doing(r, op) == r \in Requests /\ step[r] = "loaded" /\ job[r].op = op

CreateSku(r) ==
    /\ Doing(r, "create_sku")
    /\ skus' = [skus EXCEPT ![job[r].on] = @ \cup {r}]
    /\ Go(r, "written")
    /\ UNCHANGED <<verdicts, status, deleted, invoice, mail, shop, inbox, carried, job, seen, todo, changed>>

\* With a field to change, UPDATE ... RETURNING brings the status up to date;
\* images and characteristics do not.
EditProduct(r) ==
    /\ Doing(r, "edit_product")
    /\ \E fields \in BOOLEAN : seen' = IF fields THEN [seen EXCEPT ![r] = status[job[r].on]] ELSE seen
    /\ Go(r, "written")
    /\ UNCHANGED <<verdicts, status, deleted, skus, invoice, mail, shop, inbox, carried, job, todo, changed>>

\* The images of a SKU deleted meanwhile violate its foreign key; its fields
\* are updated without effect.
EditSku(r) ==
    /\ Doing(r, "edit_sku")
    /\ \/ Go(r, "written")
       \/ job[r].sku \notin skus[job[r].on] /\ Go(r, "failed")
    /\ UNCHANGED <<verdicts, status, deleted, skus, invoice, mail, shop, inbox, carried, job, seen, todo,
                   changed>>

InInvoice(s) == \E x \in Requests : invoice[x] = "filled" /\ job[x].sku = s

\* Mutant: the line goes with its SKU.
DeleteSkuCascades(r) ==
    /\ Doing(r, "delete_sku")
    /\ skus' = [skus EXCEPT ![job[r].on] = @ \ {job[r].sku}]
    /\ Go(r, IF job[r].sku \in skus[job[r].on] THEN "written" ELSE "failed")
    /\ UNCHANGED <<verdicts, status, deleted, invoice, mail, shop, inbox, carried, job, seen, todo, changed>>

\* DELETE finds the row or answers 404; lines of invoices refer to the SKU, so
\* one with a line violates the foreign key.
DeleteSku(r) ==
    /\ Doing(r, "delete_sku")
    /\ LET gone == job[r].sku \in skus[job[r].on] /\ ~InInvoice(job[r].sku)
       IN  /\ skus' = IF gone THEN [skus EXCEPT ![job[r].on] = @ \ {job[r].sku}] ELSE skus
           /\ Go(r, IF gone THEN "written" ELSE "failed")
    /\ UNCHANGED <<verdicts, status, deleted, invoice, mail, shop, inbox, carried, job, seen, todo, changed>>

\* The invoice is inserted first, its lines one by one; a line stands for all.
CreateInvoice(r) ==
    /\ Doing(r, "create_invoice")
    /\ invoice' = [invoice EXCEPT ![r] = "empty"]
    /\ Then(r, <<Line>>)
    /\ UNCHANGED <<verdicts, status, deleted, skus, mail, shop, inbox, carried, job, seen, changed>>

\* Mutant: the events without the flag.
DeleteProductUnset(r) ==
    /\ Doing(r, "delete_product")
    /\ changed' = [changed EXCEPT ![r] = "DELETED"]
    /\ Then(r, <<Mail("DELETED"), Shop("PRODUCT_DELETED")>>)
    /\ UNCHANGED <<verdicts, status, deleted, skus, invoice, mail, shop, inbox, carried, job, seen>>

DeleteProduct(r) ==
    /\ Doing(r, "delete_product")
    /\ deleted' = [deleted EXCEPT ![job[r].on] = TRUE]
    /\ changed' = [changed EXCEPT ![r] = "DELETED"]
    /\ Then(r, <<Mail("DELETED"), Shop("PRODUCT_DELETED")>>)
    /\ UNCHANGED <<verdicts, status, skus, invoice, mail, shop, inbox, carried, job, seen>>

\* Mutant: every status but CREATED and ON_MODERATION goes back.
ReturnFromAny == {"MODERATED", "BLOCKED", "HARD_BLOCKED"}

\* A SKU or a change sends these products back to moderation.
ReturnFrom == {"MODERATED", "BLOCKED"}

\* The images of a new SKU, at least one, are inserted after it: when it was
\* deleted meanwhile, they violate its foreign key.
InsertImages(r) ==
    /\ step[r] = "written" /\ job[r].op = "create_sku"
    /\ r \notin skus[job[r].on]
    /\ Go(r, "failed")
    /\ UNCHANGED <<verdicts, status, deleted, skus, invoice, mail, shop, inbox, carried, job, seen, todo,
                   changed>>

\* Mutant: there is a SKU, instead of exactly one.
HasSku(p) == Cardinality(skus[p]) >= 1

IsFirstSku(p) == Cardinality(skus[p]) = 1

\* Mutant: a product that goes back to moderation is not sent there.
SubmissionQuiet(r) ==
    CASE /\ job[r].op = "create_sku"
         /\ seen[r] = "CREATED"
         /\ IsFirstSku(job[r].on)  -> <<SetTo("ON_MODERATION"), Mail("CREATED")>>
      [] seen[r] \in ReturnFrom    -> <<SetTo("ON_MODERATION")>>
      [] OTHER                     -> <<>>

\* What a request goes on with, by the status it saw and a fresh count of SKUs.
Submission(r) ==
    CASE /\ job[r].op = "create_sku"
         /\ seen[r] = "CREATED"
         /\ IsFirstSku(job[r].on)  -> <<SetTo("ON_MODERATION"), Mail("CREATED")>>
      [] seen[r] \in ReturnFrom    -> <<SetTo("ON_MODERATION"), Mail("EDITED")>>
      [] OTHER                     -> <<>>

\* After delete_sku; stocked: the SKU had active_quantity when it was read.
Withdrawal(r, stocked) ==
    CASE skus[job[r].on] = {} /\ seen[r] = "ON_MODERATION" -> <<SetTo("CREATED"), Mail("DELETED")>>
      [] seen[r] = "MODERATED" /\ stocked                  -> <<Shop("SKU_OUT_OF_STOCK")>>
      [] OTHER                                             -> <<>>

CountSkus(r) ==
    /\ step[r] = "written"
    /\ IF job[r].op = "delete_sku"
       THEN \E stocked \in BOOLEAN : Then(r, Withdrawal(r, stocked))
       ELSE Then(r, Submission(r))
    /\ UNCHANGED <<verdicts, status, deleted, skus, invoice, mail, shop, inbox, carried, job, seen, changed>>

-----------------------------------------------------------------------------
(* The transactions of a chain. *)

Due(x, kind) == step[x] = "effects" /\ Head(todo[x]).kind = kind

\* UPDATE products SET status WHERE id: looks at nothing.
SetStatus(x) ==
    /\ Due(x, "status")
    /\ status' = [status EXCEPT ![ProductOf(x)] = Head(todo[x]).what]
    /\ changed' = [changed EXCEPT ![x] = Head(todo[x]).what]
    /\ Then(x, Tail(todo[x]))
    /\ UNCHANGED <<verdicts, deleted, skus, invoice, mail, shop, inbox, carried, job, seen>>

PostMail(x) ==
    /\ Due(x, "mail")
    /\ mail' = Append(mail, [type |-> Head(todo[x]).what, product |-> ProductOf(x)])
    /\ Then(x, Tail(todo[x]))
    /\ UNCHANGED <<verdicts, status, deleted, skus, invoice, shop, inbox, carried, job, seen, changed>>

PostShop(x) ==
    /\ Due(x, "shop")
    /\ shop' = Append(shop, [type |-> Head(todo[x]).what, product |-> ProductOf(x)])
    /\ Then(x, Tail(todo[x]))
    /\ UNCHANGED <<verdicts, status, deleted, skus, invoice, mail, inbox, carried, job, seen, changed>>

\* INSERT of a line: the SKU must be there still.
AddLine(r) ==
    /\ r \in Requests
    /\ Due(r, "line")
    /\ IF job[r].sku \in skus[job[r].on]
       THEN invoice' = [invoice EXCEPT ![r] = "filled"] /\ Then(r, Tail(todo[r]))
       ELSE Go(r, "failed") /\ UNCHANGED <<invoice, todo>>
    /\ UNCHANGED <<verdicts, status, deleted, skus, mail, shop, inbox, carried, job, seen, changed>>

-----------------------------------------------------------------------------
(* Verdicts of moderation, in any order, each as often as it is sent. *)

\* APPROVED arrives as MODERATED, the blocks as BLOCKED with hard_block.
VerdictChain(v) ==
    IF v.status = "APPROVED"
    THEN <<SetTo("MODERATED"), Record>>
    ELSE <<SetTo(v.status), Shop("PRODUCT_BLOCKED"), Record>>

\* A key that is recorded is answered from the record.
LookUpKey(h, k) ==
    /\ step[h] = "idle"
    /\ k \in DOMAIN verdicts
    /\ carried' = [carried EXCEPT ![h] = k]
    /\ IF k \in inbox
       THEN Go(h, "replayed") /\ UNCHANGED todo
       ELSE Then(h, VerdictChain(verdicts[k]))
    /\ UNCHANGED <<verdicts, status, deleted, skus, invoice, mail, shop, inbox, job, seen, changed>>

\* The key is recorded last; UNIQUE fails the later of two handlers, whose
\* other transactions stand.
RecordKey(h) ==
    /\ Due(h, "inbox")
    /\ inbox' = inbox \cup {carried[h]}
    /\ todo' = [todo EXCEPT ![h] = <<>>]
    /\ Go(h, IF carried[h] \in inbox THEN "failed" ELSE "done")
    /\ UNCHANGED <<verdicts, status, deleted, skus, invoice, mail, shop, carried, job, seen, changed>>

-----------------------------------------------------------------------------
\* The process dies between two transactions.
Crash(x) ==
    /\ step[x] \in {"written", "effects"}
    /\ Go(x, "crashed")
    /\ UNCHANGED <<verdicts, status, deleted, skus, invoice, mail, shop, inbox, carried, job, seen, todo,
                   changed>>

Ask(r) == \E op \in Ops, p \in Products, s \in Requests \cup {Nobody} : Load(r, op, p, s)

ProductStep ==
    \/ \E p \in Products : CreateProduct(p)
    \/ \E r \in Requests :
          \/ Ask(r) \/ CreateSku(r) \/ InsertImages(r) \/ EditProduct(r) \/ EditSku(r)
          \/ DeleteSku(r) \/ DeleteProduct(r) \/ CountSkus(r)
          \/ CreateInvoice(r) \/ AddLine(r)
    \/ \E h \in Handlers : RecordKey(h) \/ \E k \in DOMAIN verdicts : LookUpKey(h, k)
    \/ \E x \in Procs : SetStatus(x) \/ PostMail(x) \/ PostShop(x) \/ Crash(x)

\* Moderation decides on a product that was submitted to it.
Judge(p, d) ==
    /\ Len(verdicts) < MaxVerdicts
    /\ \E i \in DOMAIN mail : mail[i] = [type |-> "CREATED", product |-> p]
    /\ verdicts' = Append(verdicts, [product |-> p, status |-> d])
    /\ UNCHANGED productVars

Next == ProductStep \/ \E p \in Products, d \in Decisions : Judge(p, d)

Spec == Init /\ [][Next]_vars

-----------------------------------------------------------------------------
(* Safety. *)

Posted(box, type, p) == \E i \in DOMAIN box : box[i].type = type /\ box[i].product = p

\* Every change is told once: the outbox rows about a product are as many as
\* the submissions, withdrawals, blocks and deletions committed on it, but for
\* those whose chain still has the row to insert, or died before it.
Rows(box, types, p) == {i \in DOMAIN box : box[i].type \in types /\ box[i].product = p}
Owes(x, kind) == step[x] \in {"effects", "crashed"} /\ \E i \in DOMAIN todo[x] : todo[x][i].kind = kind
ToldChanges(changes, kind, p) ==
    {x \in Procs : changed[x] \in changes /\ ProductOf(x) = p /\ ~Owes(x, kind)}
SameCount(rows, changes) == Cardinality(rows) = Cardinality(changes)

ChangesAreTold ==
    \A p \in Products :
        /\ SameCount(Rows(mail, {"CREATED", "EDITED"}, p), ToldChanges({"ON_MODERATION"}, "mail", p))
        /\ SameCount(Rows(mail, {"DELETED"}, p), ToldChanges({"DELETED", "CREATED"}, "mail", p))
        /\ SameCount(Rows(shop, {"PRODUCT_DELETED"}, p), ToldChanges({"DELETED"}, "shop", p))
        /\ SameCount(Rows(shop, {"PRODUCT_BLOCKED"}, p), ToldChanges({"BLOCKED", "HARD_BLOCKED"}, "shop", p))

\* Concurrent first SKUs never submit a product twice: a second CREATED is
\* preceded by the deletion of a SKU (the INSERT comes before the count).
Submissions(p) == {i \in DOMAIN mail : mail[i] = [type |-> "CREATED", product |-> p]}
SecondSubmissionAfterDelete ==
    \A p \in Products : Cardinality(Submissions(p)) > 1 =>
        \E r \in Requests :
            /\ job[r].op = "create_sku" /\ job[r].on = p
            /\ step[r] \in {"written", "effects", "failed", "crashed", "done"}
            /\ r \notin skus[p]

\* create_invoice against delete_sku: a line's SKU stays, and an invoice is left
\* without lines only by a crash or by the deletion of the SKU in between.
InvoicesKeepTheirSkus ==
    \A r \in Requests :
        /\ InInvoice(job[r].sku) => job[r].sku \in skus[job[r].on]
        /\ invoice[r] = "empty" =>
              \/ step[r] \in {"effects", "crashed"}
              \/ job[r].sku \notin skus[job[r].on]

\* HARD_BLOCKED gives way only to another verdict, or to a request that went
\* by an earlier status.
OnlyStaleReadsUnblock ==
    [][\A p \in Products :
          status[p] = "HARD_BLOCKED" /\ status'[p] # "HARD_BLOCKED" =>
              \/ \E h \in Handlers : todo'[h] # todo[h]
              \/ \E r \in Requests : todo'[r] # todo[r] /\ seen[r] # "HARD_BLOCKED"]_vars

(* What comments say and the code does not do. *)

\* apply_moderation_event.py:13: HARD_BLOCKED is terminal.
HardBlockedIsTerminal ==
    [][\A p \in Products : status[p] = "HARD_BLOCKED" => status'[p] = "HARD_BLOCKED"]_vars

\* create_sku.py:169-173: the worst a race of two first SKUs can do is to
\* submit the product twice.  When every request was answered in full, a
\* product that has SKUs has been submitted.
FirstSkuIsSubmitted ==
    \A p \in Products :
        /\ skus[p] # {}
        /\ \A x \in Procs : step[x] \in {"idle", "refused", "failed", "replayed", "done"}
        => Posted(mail, "CREATED", p)

=============================================================================
