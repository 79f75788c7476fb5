----------------------- MODULE ProductLifecycleProofs -----------------------
(***************************************************************************)
(* Proofs about ProductLifecycle, for any products, requests, deliveries   *)
(* and verdicts: types, what the other services are told, the lines of     *)
(* invoices, second submissions and the end of HARD_BLOCKED; and about     *)
(* Moderation, where the verdicts are those of Tickets: what B2B shows was *)
(* decided, and what is archived was withdrawn.                            *)
(***************************************************************************)
EXTENDS Moderation, SequenceTheorems, FiniteSetTheorems, TLAPS

-----------------------------------------------------------------------------
(* The chains there are, whole or begun. *)

Submits(t) == <<SetTo("ON_MODERATION"), Mail(t)>>
Withdraws == <<SetTo("CREATED"), Mail("DELETED")>>
Deletes == <<Mail("DELETED"), Shop("PRODUCT_DELETED")>>
Blocks(s) == <<SetTo(s), Shop("PRODUCT_BLOCKED"), Record>>
Approves == <<SetTo("MODERATED"), Record>>
Announces == <<Shop("PRODUCT_BLOCKED"), Record>>
Only(e) == <<e>>

Submitting == {Submits("CREATED"), Only(Mail("CREATED"))}
StatusFirst == {Submits("CREATED"), Submits("EDITED"), Withdraws}
RequestChains ==
    StatusFirst
    \cup {Deletes, Only(Mail("CREATED")), Only(Mail("EDITED")), Only(Mail("DELETED")),
          Only(Shop("PRODUCT_DELETED")), Only(Shop("SKU_OUT_OF_STOCK")), Only(Line), <<>>}
HandlerChains ==
    {Approves, Blocks("BLOCKED"), Blocks("HARD_BLOCKED"),
     Announces, Only(Record), <<>>}

Types ==
    /\ status \in [Products -> {"none"} \cup Statuses]
    /\ deleted \in [Products -> BOOLEAN]
    /\ skus \in [Products -> SUBSET Requests]
    /\ invoice \in [Requests -> {"none", "empty", "filled"}]
    /\ inbox \subseteq DOMAIN verdicts
    /\ carried \in [Handlers -> {0} \cup DOMAIN verdicts]
    /\ job \in [Requests -> [op : Ops \cup {"none"}, on : Products \cup {Nobody},
                            sku : Requests \cup {Nobody}]]
    /\ step \in [Procs -> Steps]
    /\ seen \in [Procs -> {"none"} \cup Statuses]
    /\ todo \in [Procs -> RequestChains \cup HandlerChains]
    /\ changed \in [Procs -> {"none", "DELETED"} \cup Statuses]

\* A chain under way is one of these, and only an unmet foreign key or a crash
\* leaves one undone.
ChainsAreKnown ==
    /\ \A r \in Requests : todo[r] \in RequestChains
    /\ \A h \in Handlers : todo[h] \in HandlerChains
    /\ \A x \in Procs :
          /\ todo[x] # <<>> => step[x] \in {"effects", "crashed", "failed"}
          /\ step[x] = "effects" => todo[x] # <<>>
          /\ step[x] = "failed" => todo[x] \in {<<>>, Only(Line)}

\* What a request asks for is known once it has loaded its product.
JobsAreKnown ==
    \A r \in Requests :
        IF step[r] = "idle"
        THEN job[r].sku = Nobody
        ELSE /\ job[r].op \in Ops
             /\ job[r].on \in Products
             /\ job[r].op \in {"edit_sku", "delete_sku", "create_invoice"} => job[r].sku \in Requests
             /\ step[r] = "written" => job[r].op # "create_invoice"

\* Chains and what they are for.
Fits(r, es) ==
    /\ es \in Submitting => job[r].op = "create_sku"
    /\ es \in StatusFirst => seen[r] # "HARD_BLOCKED"
    /\ es = Only(Line) => job[r].op = "create_invoice" /\ invoice[r] = "empty"
    /\ job[r].op = "create_invoice" => es \in {<<>>, Only(Line)}
ChainsFitJobs == \A r \in Requests : Fits(r, todo[r])

Messages == [type : {"CREATED", "EDITED", "DELETED"}, product : Products]
Events == [type : {"SKU_OUT_OF_STOCK", "PRODUCT_DELETED", "PRODUCT_BLOCKED"}, product : Products]
Verdicts == [product : Products, status : Decisions] \cup T!Verdicts

RowsAreKnown ==
    /\ mail \in Seq(Messages)
    /\ shop \in Seq(Events)
    /\ verdicts \in Seq(Verdicts)
    /\ \A h \in Handlers : step[h] # "idle" => carried[h] \in DOMAIN verdicts

Made(s, p) == job[s].op = "create_sku" /\ job[s].on = p /\ step[s] \notin {"idle", "loaded"}

\* A SKU belongs to the product of the request that made it, for ever.
SkusAreMade ==
    /\ \A p \in Products : IsFiniteSet(skus[p]) /\ \A s \in skus[p] : Made(s, p)
    /\ \A r \in Requests : job[r].sku \in Requests => Made(job[r].sku, job[r].on)

\* An invoice with its line has its SKU.
InvoicesAreMade ==
    \A r \in Requests :
        /\ invoice[r] # "none" =>
              job[r].op = "create_invoice" /\ step[r] \notin {"idle", "loaded", "written"}
        /\ invoice[r] = "filled" => job[r].sku \in skus[job[r].on]
        /\ invoice[r] = "empty" =>
              step[r] \in {"effects", "crashed"} \/ job[r].sku \notin skus[job[r].on]

\* Who is where, with which chain, and what that leaves behind.
WorkInOrder ==
    ChainsAreKnown /\ JobsAreKnown /\ ChainsFitJobs /\ SkusAreMade /\ InvoicesAreMade

IInv == Types /\ RowsAreKnown /\ WorkInOrder

\* What is left of a chain, and the change it has made.
LeftAfter(es, c) ==
    \/ /\ c = "none"
       /\ es \in StatusFirst
               \cup {Approves, Blocks("BLOCKED"), Blocks("HARD_BLOCKED"),
                     Only(Shop("SKU_OUT_OF_STOCK")), Only(Line)}
    \/ es \in {Only(Mail("CREATED")), Only(Mail("EDITED"))} /\ c = "ON_MODERATION"
    \/ es = Only(Mail("DELETED")) /\ c = "CREATED"
    \/ es \in {Deletes, Only(Shop("PRODUCT_DELETED"))} /\ c = "DELETED"
    \/ es = Announces /\ c \in {"BLOCKED", "HARD_BLOCKED"}
    \/ es = Only(Record)
    \/ es = <<>>

\* A request or delivery changes a product once, in the chain it goes through.
Early == {"idle", "loaded", "written"}
ChangesFit ==
    \A x \in Procs :
        /\ LeftAfter(todo[x], changed[x])
        /\ step[x] \in Early => changed[x] = "none"

Later == {"written", "effects", "failed", "crashed", "done"}

\* A request that made a SKU of p.
Maker(r, p) == job[r].op = "create_sku" /\ job[r].on = p /\ step[r] \in Later

\* The SKU that one of them made is gone.
Lost(p) == \E r \in Requests : Maker(r, p) /\ r \notin skus[p]

\* r is about to submit p.
Submitter(r, p) == job[r].on = p /\ todo[r] \in Submitting

\* Of two first SKUs that submit p, or have, one is gone.
Few(p) ==
    /\ \A r, q \in Requests : r # q /\ Submitter(r, p) /\ Submitter(q, p) => Lost(p)
    /\ \A r \in Requests : Submitter(r, p) /\ Submissions(p) # {} => Lost(p)
    /\ \A i, j \in Submissions(p) : i # j => Lost(p)
    /\ Submissions(p) # {} => \E r \in Requests : Maker(r, p) /\ step[r] = "done"

-----------------------------------------------------------------------------
(* With the moderation service. *)

TicketTypes ==
    /\ ticket \in [Products -> [status : T!Statuses, owner : Moderators \cup {Nobody}]]
    /\ queue \in Seq(Products)
    /\ handling \in [Deliveries -> Nat]
    /\ tJob \in [ModeratorRequests -> T!Jobs]
    /\ tStep \in [T!Procs -> T!Steps]
    /\ tSeen \in [T!Procs -> T!Statuses]
    /\ verdicts \in Seq(T!Verdicts)
    /\ \A d \in Deliveries : tStep[d] # "idle" => handling[d] \in DOMAIN mail

HasTicket(p) == p \in Products /\ ticket[p].status # "none"

\* Who goes on with a ticket has read it, and it is there; to decide on it or
\* to release it, IN_REVIEW.
TicketsAreRead ==
    /\ \A r \in ModeratorRequests :
          /\ tStep[r] \in {"selected", "read", "checked"} => HasTicket(tJob[r].on)
          /\ tStep[r] \in {"read", "checked"} => tSeen[r] = "IN_REVIEW"
          /\ tStep[r] = "checked" => tJob[r].op \in DOMAIN T!Decisions
    /\ \A d \in Deliveries : tStep[d] = "read" => HasTicket(T!ProductOf(d))

VerdictsWereReviewed ==
    \A i \in DOMAIN verdicts :
        tStep[verdicts[i].by] = "done" /\ tSeen[verdicts[i].by] = "IN_REVIEW"

\* What made a product gone for moderation, for ever.
Gone(p) == deleted[p] \/ \E r \in Requests : TookBack(r, p)

\* r has deleted the SKU it was asked to.
Emptied(r) ==
    job[r].op = "delete_sku" /\ job[r].sku \in Requests /\ job[r].sku \notin skus[job[r].on]

\* A ticket and its archiving, and the rows that lead to them.
TicketsFollowMail ==
    \A p \in Products :
        /\ ticket[p].status # "none" => Posted(mail, "CREATED", p)
        /\ ticket[p].status = "ARCHIVED" => Posted(mail, "DELETED", p)
DeletionsAreMeant ==
    /\ \A p \in Products : Posted(mail, "DELETED", p) => Gone(p)
    /\ \A r \in Requests :
          /\ todo[r] \in {Deletes, Only(Mail("DELETED"))} => Gone(job[r].on)
          /\ todo[r] = Withdraws \/ (step[r] = "written" /\ job[r].op = "delete_sku") => Emptied(r)

\* A status of B2B, or one that a delivery is about to set, and its verdict.
Decision(s, p) == \E i \in DOMAIN verdicts : verdicts[i].product = p /\ verdicts[i].status = ShownAs[s]
StatusesFollowVerdicts ==
    /\ \A p \in Products : status[p] \in DOMAIN ShownAs => Decision(status[p], p)
    /\ \A h \in Handlers :
          /\ todo[h] = Approves => verdicts[carried[h]].status = "APPROVED"
          /\ \A s \in {"BLOCKED", "HARD_BLOCKED"} :
                todo[h] = Blocks(s) => verdicts[carried[h]].status = s

TInv == TicketTypes /\ TicketsAreRead /\ VerdictsWereReviewed /\ TicketsFollowMail

MInv == IInv /\ ChangesFit /\ TInv /\ DeletionsAreMeant /\ StatusesFollowVerdicts

-----------------------------------------------------------------------------
(* Chains. *)

LEMMA Heads ==
    ASSUME NEW a, NEW b, NEW c
    PROVE  Head(<<a>>) = a /\ Head(<<a, b>>) = a /\ Head(<<a, b, c>>) = a
OBVIOUS

LEMMA Tails ==
    ASSUME NEW a, NEW b, NEW c
    PROVE  Tail(<<a>>) = <<>> /\ Tail(<<a, b>>) = <<b>> /\ Tail(<<a, b, c>>) = <<b, c>>
OBVIOUS

LEMMA Lengths ==
    ASSUME NEW a, NEW b, NEW c, NEW d
    PROVE  /\ <<>> # <<a>> /\ <<>> # <<a, b>> /\ <<>> # <<a, b, c>>
           /\ <<d>> # <<a, b>> /\ <<d>> # <<a, b, c>>
           /\ \A x, y : <<x, y>> # <<a, b, c>>
           /\ <<a>> = <<b>> => a = b
           /\ \A x, y : <<a, b>> = <<x, y>> <=> a = x /\ b = y
OBVIOUS

\* What tells the chains apart.
LEMMA ChainsDiffer ==
    /\ Submits("CREATED") # Submits("EDITED") /\ Withdraws \notin Submitting
    /\ \A t \in {"CREATED", "EDITED", "DELETED"} :
          /\ Only(Mail(t)) \in RequestChains \ (StatusFirst \cup {<<>>, Only(Line)})
          /\ t # "CREATED" => Only(Mail(t)) \notin Submitting
    /\ \A t \in {"SKU_OUT_OF_STOCK", "PRODUCT_DELETED"} :
          Only(Shop(t)) \in RequestChains \ (StatusFirst \cup Submitting \cup {<<>>, Only(Line)})
    /\ Deletes \notin StatusFirst \cup Submitting \cup {<<>>, Only(Line)}
    /\ Only(Line) \notin StatusFirst \cup Submitting \cup {<<>>}
    /\ <<>> \notin StatusFirst \cup Submitting
    /\ Only(Line) \notin StatusFirst
    /\ Submits("EDITED") \notin Submitting
BY DEF Submits, Withdraws, Deletes, Only, Submitting, StatusFirst, RequestChains, SetTo, Mail, Shop,
       Line

LEMMA ChainsAreEffects == RequestChains \cup HandlerChains \subseteq Seq(Effects)
BY DEF Submits, Withdraws, Deletes, Blocks, Approves, Announces, Only, StatusFirst, RequestChains,
       HandlerChains, SetTo, Mail, Shop, Line, Record, Effects, Statuses

LEMMA Parts ==
    /\ \A t : Head(Submits(t)) = SetTo("ON_MODERATION") /\ Tail(Submits(t)) = Only(Mail(t))
    /\ Head(Withdraws) = SetTo("CREATED") /\ Tail(Withdraws) = Only(Mail("DELETED"))
    /\ Head(Deletes) = Mail("DELETED") /\ Tail(Deletes) = Only(Shop("PRODUCT_DELETED"))
    /\ Head(Approves) = SetTo("MODERATED") /\ Tail(Approves) = Only(Record)
    /\ \A s : Head(Blocks(s)) = SetTo(s) /\ Tail(Blocks(s)) = Announces
    /\ Head(Announces) = Shop("PRODUCT_BLOCKED") /\ Tail(Announces) = Only(Record)
    /\ \A e : Head(Only(e)) = e /\ Tail(Only(e)) = <<>>
BY Heads, Tails DEF Submits, Withdraws, Deletes, Approves, Blocks, Announces, Only

LEMMA Kinds ==
    /\ \A w : SetTo(w).kind = "status" /\ SetTo(w).what = w
    /\ \A w : Mail(w).kind = "mail" /\ Mail(w).what = w
    /\ \A w : Shop(w).kind = "shop" /\ Shop(w).what = w
    /\ Record.kind = "inbox" /\ Line.kind = "line"
BY DEF SetTo, Mail, Shop, Record, Line

LEMMA HeadKinds ==
    /\ \A c \in StatusFirst \cup {Approves, Blocks("BLOCKED"), Blocks("HARD_BLOCKED")} :
          Head(c).kind = "status"
    /\ \A c \in {Deletes, Only(Mail("CREATED")), Only(Mail("EDITED")), Only(Mail("DELETED"))} :
          Head(c).kind = "mail"
    /\ \A c \in {Only(Shop("PRODUCT_DELETED")), Only(Shop("SKU_OUT_OF_STOCK")),
                 Announces} :
          Head(c).kind = "shop"
    /\ Head(Only(Record)).kind = "inbox"
    /\ Head(Only(Line)).kind = "line"
BY Parts, Kinds DEF StatusFirst

LEMMA ChainKinds ==
    /\ \A c \in RequestChains \ {<<>>} :
          /\ Head(c).kind = "status" => c \in StatusFirst
          /\ Head(c).kind = "mail" =>
                c \in {Deletes, Only(Mail("CREATED")), Only(Mail("EDITED")), Only(Mail("DELETED"))}
          /\ Head(c).kind = "shop" =>
                c \in {Only(Shop("PRODUCT_DELETED")), Only(Shop("SKU_OUT_OF_STOCK"))}
          /\ Head(c).kind = "line" => c = Only(Line)
          /\ Head(c).kind # "inbox"
    /\ \A c \in HandlerChains \ {<<>>} :
          /\ Head(c).kind = "status" => c \in {Approves, Blocks("BLOCKED"), Blocks("HARD_BLOCKED")}
          /\ Head(c).kind = "shop" => c = Announces
          /\ Head(c).kind = "inbox" => c = Only(Record)
          /\ Head(c).kind \notin {"mail", "line"}
<1>1. ASSUME NEW c \in RequestChains \ {<<>>}
      PROVE  \/ c \in StatusFirst /\ Head(c).kind = "status"
             \/ /\ c \in {Deletes, Only(Mail("CREATED")), Only(Mail("EDITED")), Only(Mail("DELETED"))}
                /\ Head(c).kind = "mail"
             \/ /\ c \in {Only(Shop("PRODUCT_DELETED")), Only(Shop("SKU_OUT_OF_STOCK"))}
                /\ Head(c).kind = "shop"
             \/ c = Only(Line) /\ Head(c).kind = "line"
  <2>1. CASE c \in StatusFirst
    BY <2>1, HeadKinds
  <2>2. CASE c \in {Deletes, Only(Mail("CREATED")), Only(Mail("EDITED")), Only(Mail("DELETED"))}
    BY <2>2, HeadKinds
  <2>3. CASE c \in {Only(Shop("PRODUCT_DELETED")), Only(Shop("SKU_OUT_OF_STOCK"))}
    BY <2>3, HeadKinds
  <2>4. CASE c = Only(Line)
    BY <2>4, HeadKinds
  <2> QED
    BY <1>1, <2>1, <2>2, <2>3, <2>4 DEF RequestChains
<1>2. ASSUME NEW c \in HandlerChains \ {<<>>}
      PROVE  \/ /\ c \in {Approves, Blocks("BLOCKED"), Blocks("HARD_BLOCKED")}
                /\ Head(c).kind = "status"
             \/ c = Announces /\ Head(c).kind = "shop"
             \/ c = Only(Record) /\ Head(c).kind = "inbox"
  <2>1. CASE c \in {Approves, Blocks("BLOCKED"), Blocks("HARD_BLOCKED")}
    BY <2>1, HeadKinds
  <2>2. CASE c = Announces
    BY <2>2, HeadKinds
  <2>3. CASE c = Only(Record)
    BY <2>3, HeadKinds
  <2> QED
    BY <1>2, <2>1, <2>2, <2>3 DEF HandlerChains
<1>3. ASSUME NEW c \in RequestChains \ {<<>>}
      PROVE  /\ Head(c).kind = "status" => c \in StatusFirst
             /\ Head(c).kind = "mail" =>
                   c \in {Deletes, Only(Mail("CREATED")), Only(Mail("EDITED")), Only(Mail("DELETED"))}
             /\ Head(c).kind = "shop" =>
                   c \in {Only(Shop("PRODUCT_DELETED")), Only(Shop("SKU_OUT_OF_STOCK"))}
             /\ Head(c).kind = "line" => c = Only(Line)
             /\ Head(c).kind # "inbox"
  <2> DEFINE k == Head(c).kind
  <2> HIDE DEF k
  <2>1. \/ c \in StatusFirst /\ k = "status"
        \/ /\ c \in {Deletes, Only(Mail("CREATED")), Only(Mail("EDITED")), Only(Mail("DELETED"))}
           /\ k = "mail"
        \/ /\ c \in {Only(Shop("PRODUCT_DELETED")), Only(Shop("SKU_OUT_OF_STOCK"))}
           /\ k = "shop"
        \/ c = Only(Line) /\ k = "line"
    BY <1>1, <1>3 DEF k
  <2>2. /\ k = "status" => c \in StatusFirst
        /\ k = "mail" =>
              c \in {Deletes, Only(Mail("CREATED")), Only(Mail("EDITED")), Only(Mail("DELETED"))}
        /\ k = "shop" =>
              c \in {Only(Shop("PRODUCT_DELETED")), Only(Shop("SKU_OUT_OF_STOCK"))}
        /\ k = "line" => c = Only(Line)
        /\ k # "inbox"
    BY <2>1
  <2> QED
    BY <2>2 DEF k
<1>4. ASSUME NEW c \in HandlerChains \ {<<>>}
      PROVE  /\ Head(c).kind = "status" => c \in {Approves, Blocks("BLOCKED"), Blocks("HARD_BLOCKED")}
             /\ Head(c).kind = "shop" => c = Announces
             /\ Head(c).kind = "inbox" => c = Only(Record)
             /\ Head(c).kind \notin {"mail", "line"}
  <2> DEFINE k == Head(c).kind
  <2> HIDE DEF k
  <2>1. \/ c \in {Approves, Blocks("BLOCKED"), Blocks("HARD_BLOCKED")} /\ k = "status"
        \/ c = Announces /\ k = "shop"
        \/ c = Only(Record) /\ k = "inbox"
    BY <1>2, <1>4 DEF k
  <2>2. /\ k = "status" => c \in {Approves, Blocks("BLOCKED"), Blocks("HARD_BLOCKED")}
        /\ k = "shop" => c = Announces
        /\ k = "inbox" => c = Only(Record)
        /\ k \notin {"mail", "line"}
    BY <2>1
  <2> QED
    BY <2>2 DEF k
<1> QED
  BY <1>3, <1>4

\* What x is about to do, by the kind of its next transaction.
LEMMA DueChains ==
    ASSUME ChainsAreKnown, NEW x \in Procs, NEW kind, Due(x, kind)
    PROVE  /\ x \in Requests => todo[x] \in RequestChains \ {<<>>}
           /\ x \in Handlers => todo[x] \in HandlerChains \ {<<>>}
           /\ Head(todo[x]).kind = kind
           /\ x \in Requests \/ x \in Handlers
BY DEF ChainsAreKnown, Due, Procs

LEMMA StatusDue ==
    ASSUME ChainsAreKnown, NEW x \in Procs, Due(x, "status")
    PROVE  \/ x \in Requests /\ todo[x] \in StatusFirst
           \/ x \in Handlers /\ todo[x] \in {Approves, Blocks("BLOCKED"), Blocks("HARD_BLOCKED")}
BY DueChains, ChainKinds

LEMMA MailDue ==
    ASSUME ChainsAreKnown, NEW x \in Procs, Due(x, "mail")
    PROVE  /\ x \in Requests
           /\ todo[x] \in {Deletes, Only(Mail("CREATED")), Only(Mail("EDITED")), Only(Mail("DELETED"))}
BY DueChains, ChainKinds

LEMMA ShopDue ==
    ASSUME ChainsAreKnown, NEW x \in Procs, Due(x, "shop")
    PROVE  \/ /\ x \in Requests
              /\ todo[x] \in {Only(Shop("PRODUCT_DELETED")), Only(Shop("SKU_OUT_OF_STOCK"))}
           \/ x \in Handlers /\ todo[x] = Announces
BY DueChains, ChainKinds

LEMMA LineDue ==
    ASSUME ChainsAreKnown, NEW r \in Requests, Due(r, "line")
    PROVE  todo[r] = Only(Line)
<1>1. r \in Procs
  BY DEF Procs
<1> QED
  BY <1>1, DueChains, ChainKinds

LEMMA RecordDue ==
    ASSUME ChainsAreKnown, NEW h \in Handlers, Due(h, "inbox")
    PROVE  todo[h] = Only(Record)
<1>1. h \in Procs
  BY DEF Procs
<1> QED
  BY <1>1, DueChains, ChainKinds

LEMMA Rests ==
    /\ \A c \in RequestChains \ {<<>>} :
          /\ Tail(c) \in RequestChains \ (StatusFirst \cup {Only(Line)})
          /\ Tail(c) \in Submitting => c \in Submitting
    /\ \A c \in HandlerChains \ {<<>>} : Tail(c) \in HandlerChains
<1>1. ASSUME NEW c \in RequestChains \ {<<>>}
      PROVE  /\ Tail(c) \in RequestChains \ (StatusFirst \cup {Only(Line)})
             /\ Tail(c) \in Submitting => c \in Submitting
  <2>1. CASE c \in StatusFirst
    BY <2>1, Parts, ChainsDiffer DEF StatusFirst, Submitting
  <2>2. CASE c = Deletes
    BY <2>2, Parts, ChainsDiffer
  <2>3. CASE c \notin StatusFirst \cup {Deletes}
    <3>1. Tail(c) = <<>>
      BY <1>1, <2>3, Parts DEF RequestChains
    <3> QED
      BY <3>1, ChainsDiffer DEF RequestChains
  <2> QED
    BY <2>1, <2>2, <2>3
<1>2. ASSUME NEW c \in HandlerChains \ {<<>>}
      PROVE  Tail(c) \in HandlerChains
  BY <1>2, Parts DEF HandlerChains
<1> QED
  BY <1>1, <1>2

-----------------------------------------------------------------------------
(* Steps of one request or delivery. *)

Moves(x, to, es) == step' = [step EXCEPT ![x] = to] /\ todo' = [todo EXCEPT ![x] = es]

\* What may be left of x's chain, where.
MayBeLeft(x, to, es) ==
    /\ to \in Steps
    /\ x \in Requests => es \in RequestChains
    /\ x \in Handlers => es \in HandlerChains
    /\ es # <<>> => to \in {"effects", "crashed", "failed"}
    /\ to = "effects" => es # <<>>
    /\ to = "failed" => es \in {<<>>, Only(Line)}

LEMMA MovesOne ==
    ASSUME Types, NEW x \in Procs, NEW to, NEW es, Moves(x, to, es)
    PROVE  /\ step'[x] = to /\ todo'[x] = es
           /\ \A y \in Procs \ {x} : step'[y] = step[y] /\ todo'[y] = todo[y]
BY DEF Types, Moves

LEMMA ThenMoves ==
    ASSUME NEW x, NEW es, Then(x, es)
    PROVE  Moves(x, IF es = <<>> THEN "done" ELSE "effects", es)
BY DEF Then, Moves, Go

LEMMA GoMoves ==
    ASSUME Types, NEW x \in Procs, NEW to, Go(x, to), UNCHANGED todo
    PROVE  Moves(x, to, todo[x])
BY DEF Types, Go, Moves

LEMMA ChainMoves ==
    ASSUME Types, ChainsAreKnown, NEW x \in Procs, NEW to, NEW es,
           Moves(x, to, es), MayBeLeft(x, to, es)
    PROVE  /\ ChainsAreKnown'
           /\ step' \in [Procs -> Steps]
           /\ todo' \in [Procs -> RequestChains \cup HandlerChains]
<1>1. es \in RequestChains \cup HandlerChains
  BY DEF MayBeLeft, Procs
<1>2. step' \in [Procs -> Steps] /\ todo' \in [Procs -> RequestChains \cup HandlerChains]
  BY <1>1 DEF Types, Moves, MayBeLeft
<1>3. ASSUME NEW r \in Requests
      PROVE  todo'[r] \in RequestChains
  BY <1>3, MovesOne DEF ChainsAreKnown, MayBeLeft, Procs
<1>4. ASSUME NEW h \in Handlers
      PROVE  todo'[h] \in HandlerChains
  BY <1>4, MovesOne DEF ChainsAreKnown, MayBeLeft, Procs
<1>5. ASSUME NEW y \in Procs
      PROVE  /\ todo'[y] # <<>> => step'[y] \in {"effects", "crashed", "failed"}
             /\ step'[y] = "effects" => todo'[y] # <<>>
             /\ step'[y] = "failed" => todo'[y] \in {<<>>, Only(Line)}
  BY <1>5, MovesOne DEF ChainsAreKnown, MayBeLeft
<1> QED
  BY <1>2, <1>3, <1>4, <1>5 DEF ChainsAreKnown

\* A delivery's step leaves the requests alone.
LEMMA HandlerMoves ==
    ASSUME Types, WorkInOrder, NEW x \in Handlers, NEW to, NEW es,
           Moves(x, to, es), MayBeLeft(x, to, es), UNCHANGED <<skus, invoice, job, seen>>
    PROVE  WorkInOrder'
<1>1. x \in Procs /\ Requests \subseteq Procs /\ x \notin Requests
  BY LifecycleAssumption DEF Procs
<1>2. \A r \in Requests : step'[r] = step[r] /\ todo'[r] = todo[r]
  BY <1>1, MovesOne
<1>3. ChainsAreKnown'
  BY <1>1, ChainMoves DEF WorkInOrder
<1>4. JobsAreKnown' /\ ChainsFitJobs'
  BY <1>2 DEF WorkInOrder, JobsAreKnown, ChainsFitJobs, Fits
<1>5. SkusAreMade' /\ InvoicesAreMade'
  BY <1>2 DEF WorkInOrder, SkusAreMade, Made, InvoicesAreMade, Types
<1> QED
  BY <1>3, <1>4, <1>5 DEF WorkInOrder

\* A request's step that is only a step.
LEMMA RequestMoves ==
    ASSUME Types, WorkInOrder, NEW r \in Requests, NEW to, NEW es,
           Moves(r, to, es), MayBeLeft(r, to, es), UNCHANGED <<skus, invoice, job, seen>>,
           step[r] # "idle", to \notin {"idle", "loaded"}, Fits(r, es),
           to = "written" => job[r].op # "create_invoice",
           invoice[r] = "empty" => to \in {"effects", "crashed"} \/ job[r].sku \notin skus[job[r].on]
    PROVE  WorkInOrder'
<1>1. r \in Procs /\ Requests \subseteq Procs
  BY DEF Procs
<1>2. /\ step'[r] = to /\ todo'[r] = es
      /\ \A y \in Requests \ {r} : step'[y] = step[y] /\ todo'[y] = todo[y]
  BY <1>1, MovesOne
<1>3. ChainsAreKnown'
  BY <1>1, ChainMoves DEF WorkInOrder
<1>4. JobsAreKnown'
  BY <1>2 DEF WorkInOrder, JobsAreKnown
<1>5. ChainsFitJobs'
  BY <1>2 DEF WorkInOrder, ChainsFitJobs, Fits
<1>6. \A p : \A s \in Requests : Made(s, p) => Made(s, p)'
  BY <1>2 DEF Made
<1>7. SkusAreMade'
  BY <1>6 DEF WorkInOrder, SkusAreMade, Types
<1>8. InvoicesAreMade'
  BY <1>2 DEF WorkInOrder, InvoicesAreMade
<1> QED
  BY <1>3, <1>4, <1>5, <1>7, <1>8 DEF WorkInOrder

LEMMA ThenIsLeft ==
    ASSUME NEW x \in Procs, NEW es,
           x \in Requests => es \in RequestChains, x \in Handlers => es \in HandlerChains
    PROVE  MayBeLeft(x, IF es = <<>> THEN "done" ELSE "effects", es)
BY DEF MayBeLeft, Steps

LEMMA RequestThen ==
    ASSUME Types, WorkInOrder, NEW r \in Requests, NEW es \in RequestChains,
           Then(r, es), UNCHANGED <<skus, invoice, job, seen>>,
           step[r] # "idle", Fits(r, es),
           invoice[r] = "empty" => es # <<>> \/ job[r].sku \notin skus[job[r].on]
    PROVE  WorkInOrder'
<1> DEFINE to == IF es = <<>> THEN "done" ELSE "effects"
<1>1. r \in Procs /\ r \notin Handlers
  BY LifecycleAssumption DEF Procs
<1>2. Moves(r, to, es) /\ MayBeLeft(r, to, es)
  BY <1>1, ThenMoves, ThenIsLeft
<1>3. /\ to \notin {"idle", "loaded", "written"}
      /\ es # <<>> => to = "effects"
  OBVIOUS
<1> QED
  BY <1>2, <1>3, RequestMoves

LEMMA HandlerThen ==
    ASSUME Types, WorkInOrder, NEW h \in Handlers, NEW es \in HandlerChains,
           Then(h, es), UNCHANGED <<skus, invoice, job, seen>>
    PROVE  WorkInOrder'
<1> DEFINE to == IF es = <<>> THEN "done" ELSE "effects"
<1>1. h \in Procs /\ h \notin Requests
  BY LifecycleAssumption DEF Procs
<1>2. Moves(h, to, es) /\ MayBeLeft(h, to, es)
  BY <1>1, ThenMoves, ThenIsLeft
<1> QED
  BY <1>2, HandlerMoves

LEMMA ThenTypes ==
    ASSUME Types, NEW x \in Procs, NEW es \in RequestChains \cup HandlerChains, Then(x, es)
    PROVE  step' \in [Procs -> Steps] /\ todo' \in [Procs -> RequestChains \cup HandlerChains]
BY DEF Types, Then, Go, Steps

LEMMA VerdictsAreKnown ==
    ASSUME NEW v \in Verdicts
    PROVE  v.product \in Products /\ v.status \in Decisions
BY DEF Verdicts, T!Verdicts, T!Decided, Decisions

\* A request or delivery with work to do, and its product.
LEMMA WhoIsDue ==
    ASSUME IInv, NEW x \in Procs, step[x] = "effects"
    PROVE  /\ ProductOf(x) \in Products
           /\ todo[x] # <<>>
           /\ x \in Requests => x \notin Handlers /\ todo[x] \in RequestChains
           /\ x \in Handlers => x \notin Requests /\ todo[x] \in HandlerChains
           /\ x \in Requests \/ x \in Handlers
<1>1. CASE x \in Requests
  <2>1. ProductOf(x) \in Products
    BY <1>1 DEF IInv, WorkInOrder, JobsAreKnown, ProductOf
  <2> QED
    BY <1>1, <2>1, LifecycleAssumption DEF IInv, WorkInOrder, ChainsAreKnown
<1>2. CASE x \in Handlers
  <2>1. x \notin Requests
    BY <1>2, LifecycleAssumption
  <2>2. carried[x] \in DOMAIN verdicts
    BY <1>2 DEF IInv, RowsAreKnown
  <2>3. verdicts[carried[x]] \in Verdicts
    BY <2>2 DEF IInv, RowsAreKnown
  <2>4. ProductOf(x) \in Products
    BY <2>1, <2>3, VerdictsAreKnown DEF ProductOf
  <2> QED
    BY <1>2, <2>1, <2>4 DEF IInv, WorkInOrder, ChainsAreKnown
<1> QED
  BY <1>1, <1>2 DEF Procs

\* The next transaction of a chain, whatever it is but a line: who does it goes
\* on with the rest.
LEMMA Advance ==
    ASSUME IInv, NEW x \in Procs, step[x] = "effects", todo[x] # Only(Line), Then(x, Tail(todo[x])),
           UNCHANGED <<skus, invoice, job, seen>>
    PROVE  /\ WorkInOrder'
           /\ step' \in [Procs -> Steps]
           /\ todo' \in [Procs -> RequestChains \cup HandlerChains]
           /\ \A h \in Handlers : step'[h] # "idle" => step[h] # "idle"
<1> DEFINE es == Tail(todo[x])
<1>1. Types /\ WorkInOrder
  BY DEF IInv
<1>2. CASE x \in Requests
  <2>1. /\ todo[x] \in RequestChains \ {<<>>}
        /\ es \in RequestChains \ (StatusFirst \cup {Only(Line)})
        /\ es \in Submitting => todo[x] \in Submitting
    BY <1>2, WhoIsDue, Rests
  <2>2. Fits(x, todo[x]) /\ invoice[x] \in {"none", "empty", "filled"}
    BY <1>1, <1>2 DEF WorkInOrder, ChainsFitJobs, Types
  <2>3. job[x].op # "create_invoice"
    BY <2>1, <2>2 DEF Fits
  <2>4. invoice[x] = "none"
    BY <1>1, <1>2, <2>2, <2>3 DEF WorkInOrder, InvoicesAreMade
  <2>5. Fits(x, es)
    BY <2>1, <2>2, <2>3 DEF Fits
  <2>6. WorkInOrder'
    BY <1>1, <1>2, <2>1, <2>4, <2>5, RequestThen
  <2> QED
    BY <1>1, <2>1, <2>6, ThenTypes, ThenMoves, MovesOne DEF Procs
<1>3. CASE x \in Handlers
  <2>1. es \in HandlerChains
    BY <1>3, WhoIsDue, Rests
  <2>2. WorkInOrder'
    BY <1>1, <1>3, <2>1, HandlerThen
  <2> QED
    BY <1>1, <2>1, <2>2, ThenTypes, ThenMoves, MovesOne DEF Procs
<1> QED
  BY <1>2, <1>3, WhoIsDue

-----------------------------------------------------------------------------
(* Every action keeps the invariant. *)

LEMMA CreateProductKeeps ==
    ASSUME IInv, NEW p \in Products, CreateProduct(p)
    PROVE  IInv'
<1>1. Types'
  BY DEF IInv, Types, CreateProduct, Statuses
<1>2. RowsAreKnown'
  BY DEF IInv, RowsAreKnown, CreateProduct
<1>3. WorkInOrder'
  BY DEF IInv, WorkInOrder, ChainsAreKnown, JobsAreKnown, ChainsFitJobs, Fits, SkusAreMade, Made,
         InvoicesAreMade, CreateProduct
<1> QED
  BY <1>1, <1>2, <1>3 DEF IInv

LEMMA LoadKeeps ==
    ASSUME IInv, NEW r \in Requests, Ask(r)
    PROVE  IInv'
<1>1. PICK op \in Ops, p \in Products, s \in Requests \cup {Nobody} : Load(r, op, p, s)
  BY DEF Ask
<1> DEFINE to == IF MayLoad(op, p) THEN "loaded" ELSE "refused"
<1>2. r \in Procs /\ Requests \subseteq Procs /\ Types /\ WorkInOrder /\ RowsAreKnown
  BY DEF Procs, IInv
<1>3. todo[r] = <<>> /\ job[r].sku = Nobody /\ invoice[r] = "none"
  <2>1. invoice[r] \in {"none", "empty", "filled"}
    BY <1>2 DEF Types
  <2> QED
    BY <1>1, <1>2, <2>1
    DEF WorkInOrder, ChainsAreKnown, JobsAreKnown, InvoicesAreMade, Load
<1>4. Moves(r, to, <<>>)
  BY <1>1, <1>2, <1>3, GoMoves DEF Load
<1>5. MayBeLeft(r, to, <<>>)
  BY <1>2, LifecycleAssumption DEF MayBeLeft, Steps, RequestChains
<1>6. /\ step'[r] = to /\ todo'[r] = <<>>
      /\ \A y \in Procs \ {r} : step'[y] = step[y] /\ todo'[y] = todo[y]
  BY <1>2, <1>4, MovesOne
<1>7. /\ job'[r] = [op |-> op, on |-> p, sku |-> s]
      /\ \A y \in Requests \ {r} : job'[y] = job[y] /\ seen'[y] = seen[y]
  BY <1>1, <1>2 DEF Load, Types, Procs
<1>8. /\ ChainsAreKnown'
      /\ step' \in [Procs -> Steps]
      /\ todo' \in [Procs -> RequestChains \cup HandlerChains]
  BY <1>2, <1>4, <1>5, ChainMoves DEF WorkInOrder
<1>9. Types'
  <2>1. status[p] \in {"none"} \cup Statuses
    BY <1>2 DEF Types
  <2>2. seen' \in [Procs -> {"none"} \cup Statuses]
    BY <1>1, <1>2, <2>1 DEF Load, Types
  <2>3. job' \in [Requests -> [op : Ops \cup {"none"}, on : Products \cup {Nobody},
                              sku : Requests \cup {Nobody}]]
    BY <1>1, <1>2 DEF Load, Types
  <2> QED
    BY <1>1, <1>2, <1>8, <2>2, <2>3 DEF Load, Types
<1>10. RowsAreKnown'
  <2>1. \A h \in Handlers : step'[h] = step[h]
    BY <1>6, LifecycleAssumption DEF Procs
  <2> QED
    BY <1>1, <1>2, <2>1 DEF Load, RowsAreKnown
<1>11. op \in {"edit_sku", "delete_sku", "create_invoice"} => s \in skus[p] /\ s \in Requests
  BY <1>1, <1>2 DEF Load, Types
<1>12. op \notin {"edit_sku", "delete_sku", "create_invoice"} => s = Nobody
  BY <1>1 DEF Load
<1>13. JobsAreKnown'
  BY <1>2, <1>6, <1>7, <1>11 DEF WorkInOrder, JobsAreKnown
<1>14. ChainsFitJobs'
  <2>1. ASSUME NEW y \in Requests \ {r}
        PROVE  Fits(y, todo[y])'
    BY <1>1, <1>2, <1>6, <1>7 DEF WorkInOrder, ChainsFitJobs, Fits, Load
  <2>2. Fits(r, todo[r])'
    BY <1>6, ChainsDiffer DEF Fits
  <2> QED
    BY <2>1, <2>2 DEF ChainsFitJobs
<1>15. \A w : \A q \in Requests : Made(q, w) => q # r /\ Made(q, w)'
  BY <1>1, <1>2, <1>6, <1>7 DEF Load, Made
<1>16. SkusAreMade'
  <2>1. skus' = skus
    BY <1>1 DEF Load
  <2>2. ASSUME NEW w \in Products
        PROVE  IsFiniteSet(skus[w]) /\ \A q \in skus[w] : Made(q, w)'
    BY <1>2, <1>15 DEF WorkInOrder, SkusAreMade, Types
  <2>3. ASSUME NEW y \in Requests, job'[y].sku \in Requests
        PROVE  Made(job[y].sku, job[y].on)'
    <3>1. CASE y = r
      BY <1>2, <1>7, <1>11, <1>12, <1>15, <2>3, <3>1, LifecycleAssumption DEF WorkInOrder, SkusAreMade
    <3>2. CASE y # r
      BY <1>2, <1>7, <1>15, <2>3, <3>2 DEF WorkInOrder, SkusAreMade
    <3> QED
      BY <3>1, <3>2
  <2> QED
    BY <2>1, <2>2, <2>3 DEF SkusAreMade
<1>17. InvoicesAreMade'
  <2>1. skus' = skus /\ invoice' = invoice
    BY <1>1 DEF Load
  <2> QED
    BY <1>2, <1>3, <1>6, <1>7, <2>1 DEF WorkInOrder, InvoicesAreMade
<1> QED
  BY <1>8, <1>9, <1>10, <1>13, <1>14, <1>16, <1>17 DEF IInv, WorkInOrder

\* The three writes of a loaded request that leave a chain to be chosen.
LEMMA Writing ==
    ASSUME IInv, NEW r \in Requests, step[r] = "loaded"
    PROVE  /\ r \in Procs /\ r \notin Handlers
           /\ todo[r] = <<>> /\ invoice[r] = "none"
           /\ job[r].on \in Products
           /\ Fits(r, <<>>)
           /\ MayBeLeft(r, "written", <<>>) /\ MayBeLeft(r, "failed", <<>>)
<1>1. r \in Procs /\ r \notin Handlers /\ Types /\ WorkInOrder
  BY LifecycleAssumption DEF Procs, IInv
<1>2. todo[r] = <<>>
  BY <1>1 DEF WorkInOrder, ChainsAreKnown
<1>3. invoice[r] = "none"
  BY <1>1 DEF WorkInOrder, InvoicesAreMade, Types
<1>4. job[r].on \in Products
  BY <1>1 DEF WorkInOrder, JobsAreKnown
<1>5. Fits(r, <<>>)
  BY ChainsDiffer DEF Fits
<1>6. MayBeLeft(r, "written", <<>>) /\ MayBeLeft(r, "failed", <<>>)
  BY <1>1 DEF MayBeLeft, Steps, RequestChains
<1> QED
  BY <1>1, <1>2, <1>3, <1>4, <1>5, <1>6

LEMMA CreateSkuKeeps ==
    ASSUME IInv, NEW r \in Requests, CreateSku(r)
    PROVE  IInv'
<1>1. Types /\ RowsAreKnown /\ WorkInOrder /\ step[r] = "loaded" /\ job[r].op = "create_sku"
  BY DEF IInv, CreateSku, Doing
<1> DEFINE p == job[r].on
<1>2. /\ r \in Procs /\ r \notin Handlers /\ todo[r] = <<>> /\ invoice[r] = "none"
      /\ p \in Products /\ MayBeLeft(r, "written", <<>>)
  BY <1>1, Writing
<1>3. Moves(r, "written", <<>>)
  BY <1>1, <1>2, GoMoves DEF CreateSku
<1>4. /\ step'[r] = "written"
      /\ \A y \in Procs \ {r} : step'[y] = step[y]
      /\ todo' = todo
  BY <1>1, <1>2, <1>3, MovesOne DEF CreateSku
<1>5. ChainsAreKnown' /\ step' \in [Procs -> Steps]
  BY <1>1, <1>2, <1>3, ChainMoves DEF WorkInOrder
<1>6. skus' \in [Products -> SUBSET Requests]
  BY <1>1, <1>2 DEF CreateSku, Types
<1>7. /\ skus'[p] = skus[p] \cup {r}
      /\ \A w \in Products \ {p} : skus'[w] = skus[w]
  BY <1>1, <1>2 DEF CreateSku, Types
<1>8. Types'
  BY <1>1, <1>5, <1>6 DEF CreateSku, Types
<1>9. RowsAreKnown'
  BY <1>1, <1>2, <1>4 DEF RowsAreKnown, CreateSku, Procs
<1>10. JobsAreKnown' /\ ChainsFitJobs'
  BY <1>1, <1>4 DEF WorkInOrder, JobsAreKnown, ChainsFitJobs, Fits, CreateSku, Procs
<1>11. \A w : \A q \in Requests : Made(q, w) => q # r /\ Made(q, w)'
  BY <1>1, <1>4 DEF Made, CreateSku, Procs
<1>12. Made(r, p)'
  BY <1>1, <1>4 DEF Made, CreateSku
<1>13. SkusAreMade'
  <2>1. ASSUME NEW w \in Products
        PROVE  IsFiniteSet(skus'[w]) /\ \A s \in skus'[w] : Made(s, w)'
    <3>1. IsFiniteSet(skus[w]) /\ skus[w] \subseteq Requests /\ \A s \in skus[w] : Made(s, w)
      BY <1>1 DEF WorkInOrder, SkusAreMade, Types
    <3>2. IsFiniteSet(skus[w] \cup {r})
      BY <3>1, FS_AddElement
    <3> QED
      BY <1>1, <1>7, <1>11, <1>12, <3>1, <3>2 DEF CreateSku
  <2>2. job' = job
    BY DEF CreateSku
  <2>3. \A y \in Requests : job[y].sku \in Requests => Made(job[y].sku, job[y].on)'
    BY <1>1, <1>11, <2>2 DEF WorkInOrder, SkusAreMade
  <2> QED
    BY <2>1, <2>2, <2>3 DEF SkusAreMade
<1>14. InvoicesAreMade'
  <2>1. ASSUME NEW y \in Requests, invoice[y] # "none"
        PROVE  /\ y # r /\ step'[y] = step[y]
               /\ job[y].on \in Products
               /\ job[y].sku \in skus'[job[y].on] <=> job[y].sku \in skus[job[y].on]
    <3>1. y # r /\ step'[y] = step[y]
      BY <1>2, <1>4, <2>1 DEF Procs
    <3>2. job[y].op = "create_invoice" /\ step[y] # "idle"
      BY <1>1, <2>1 DEF WorkInOrder, InvoicesAreMade
    <3>3. job[y].on \in Products /\ job[y].sku \in Requests
      BY <1>1, <3>2 DEF WorkInOrder, JobsAreKnown
    <3>4. job[y].sku # r
      BY <1>1, <1>11, <3>3 DEF WorkInOrder, SkusAreMade
    <3> QED
      BY <1>7, <3>1, <3>3, <3>4
  <2>2. job' = job /\ invoice' = invoice
    BY DEF CreateSku
  <2>3. ASSUME NEW y \in Requests
        PROVE  /\ invoice[y] # "none" =>
                     job[y].op = "create_invoice" /\ step'[y] \notin {"idle", "loaded", "written"}
               /\ invoice[y] = "filled" => job[y].sku \in skus'[job[y].on]
               /\ invoice[y] = "empty" =>
                     step'[y] \in {"effects", "crashed"} \/ job[y].sku \notin skus'[job[y].on]
    <3>1. CASE invoice[y] = "none"
      BY <3>1
    <3>2. CASE invoice[y] # "none"
      BY <1>1, <2>1, <3>2 DEF WorkInOrder, InvoicesAreMade
    <3> QED
      BY <3>1, <3>2
  <2> QED
    BY <2>2, <2>3 DEF InvoicesAreMade
<1> QED
  BY <1>5, <1>8, <1>9, <1>10, <1>13, <1>14 DEF IInv, WorkInOrder

LEMMA InsertImagesKeeps ==
    ASSUME IInv, NEW r \in Requests, InsertImages(r)
    PROVE  IInv'
<1>1. /\ Types /\ RowsAreKnown /\ WorkInOrder /\ step[r] = "written" /\ job[r].op = "create_sku"
      /\ r \in Procs /\ r \notin Handlers
  BY LifecycleAssumption DEF IInv, InsertImages, Procs
<1>2. todo[r] = <<>> /\ invoice[r] = "none" /\ Fits(r, <<>>)
  BY <1>1, ChainsDiffer DEF WorkInOrder, ChainsAreKnown, InvoicesAreMade, Types, Fits
<1>3. Moves(r, "failed", <<>>) /\ MayBeLeft(r, "failed", <<>>)
  BY <1>1, <1>2, GoMoves DEF InsertImages, MayBeLeft, Steps, RequestChains
<1>4. WorkInOrder'
  BY <1>1, <1>2, <1>3, RequestMoves DEF InsertImages
<1>5. step' \in [Procs -> Steps] /\ \A h \in Handlers : step'[h] = step[h]
  BY <1>1, <1>3, ChainMoves, MovesOne DEF WorkInOrder, Procs
<1>6. Types' /\ RowsAreKnown'
  BY <1>1, <1>5 DEF InsertImages, Types, RowsAreKnown
<1> QED
  BY <1>4, <1>6 DEF IInv

LEMMA EditProductKeeps ==
    ASSUME IInv, NEW r \in Requests, EditProduct(r)
    PROVE  IInv'
<1>1. Types /\ RowsAreKnown /\ WorkInOrder /\ step[r] = "loaded" /\ job[r].op = "edit_product"
  BY DEF IInv, EditProduct, Doing
<1>2. /\ r \in Procs /\ r \notin Handlers /\ todo[r] = <<>> /\ invoice[r] = "none"
      /\ job[r].on \in Products /\ MayBeLeft(r, "written", <<>>)
  BY <1>1, Writing
<1>3. Moves(r, "written", <<>>)
  BY <1>1, <1>2, GoMoves DEF EditProduct
<1>4. /\ step'[r] = "written"
      /\ \A y \in Procs \ {r} : step'[y] = step[y]
      /\ todo' = todo
  BY <1>1, <1>2, <1>3, MovesOne DEF EditProduct
<1>5. ChainsAreKnown' /\ step' \in [Procs -> Steps]
  BY <1>1, <1>2, <1>3, ChainMoves DEF WorkInOrder
<1>6. /\ seen' \in [Procs -> {"none"} \cup Statuses]
      /\ \A y \in Procs \ {r} : seen'[y] = seen[y]
  <2>1. status[job[r].on] \in {"none"} \cup Statuses
    BY <1>1, <1>2 DEF Types
  <2> QED
    BY <1>1, <1>2, <2>1 DEF EditProduct, Types
<1>7. Types'
  BY <1>1, <1>5, <1>6 DEF EditProduct, Types
<1>8. RowsAreKnown'
  BY <1>1, <1>2, <1>4 DEF RowsAreKnown, EditProduct, Procs
<1>9. JobsAreKnown'
  BY <1>1, <1>4 DEF WorkInOrder, JobsAreKnown, EditProduct, Procs
<1>10. ChainsFitJobs'
  BY <1>1, <1>2, <1>4, <1>6, ChainsDiffer
  DEF WorkInOrder, ChainsFitJobs, Fits, EditProduct, Procs
<1>11. \A w : \A q \in Requests : Made(q, w) => Made(q, w)'
  BY <1>1, <1>4 DEF Made, EditProduct, Procs
<1>12. SkusAreMade'
  BY <1>1, <1>11 DEF WorkInOrder, SkusAreMade, EditProduct, Types
<1>13. InvoicesAreMade'
  BY <1>1, <1>2, <1>4 DEF WorkInOrder, InvoicesAreMade, EditProduct, Procs
<1> QED
  BY <1>5, <1>7, <1>8, <1>9, <1>10, <1>12, <1>13 DEF IInv, WorkInOrder

LEMMA EditSkuKeeps ==
    ASSUME IInv, NEW r \in Requests, EditSku(r)
    PROVE  IInv'
<1>1. Types /\ RowsAreKnown /\ WorkInOrder /\ step[r] = "loaded" /\ job[r].op = "edit_sku"
  BY DEF IInv, EditSku, Doing
<1>2. /\ r \in Procs /\ r \notin Handlers /\ todo[r] = <<>> /\ invoice[r] = "none" /\ Fits(r, <<>>)
      /\ MayBeLeft(r, "written", <<>>) /\ MayBeLeft(r, "failed", <<>>)
  BY <1>1, Writing
<1>3. PICK to \in {"written", "failed"} : Go(r, to)
  BY DEF EditSku
<1>4. Moves(r, to, <<>>) /\ MayBeLeft(r, to, <<>>)
  BY <1>1, <1>2, <1>3, GoMoves DEF EditSku
<1>5. WorkInOrder'
  BY <1>1, <1>2, <1>4, RequestMoves DEF EditSku
<1>6. step' \in [Procs -> Steps] /\ \A h \in Handlers : step'[h] = step[h]
  BY <1>1, <1>2, <1>4, ChainMoves, MovesOne DEF WorkInOrder, Procs
<1>7. Types' /\ RowsAreKnown'
  BY <1>1, <1>6 DEF EditSku, Types, RowsAreKnown
<1> QED
  BY <1>5, <1>7 DEF IInv

LEMMA DeleteSkuKeeps ==
    ASSUME IInv, NEW r \in Requests, DeleteSku(r)
    PROVE  IInv'
<1>1. Types /\ RowsAreKnown /\ WorkInOrder /\ step[r] = "loaded" /\ job[r].op = "delete_sku"
  BY DEF IInv, DeleteSku, Doing
<1> DEFINE p == job[r].on
           s == job[r].sku
           gone == s \in skus[p] /\ ~InInvoice(s)
           to == IF gone THEN "written" ELSE "failed"
<1>2. /\ r \in Procs /\ r \notin Handlers /\ todo[r] = <<>> /\ invoice[r] = "none" /\ Fits(r, <<>>)
      /\ p \in Products /\ MayBeLeft(r, to, <<>>)
  BY <1>1, Writing
<1>3. Moves(r, to, <<>>)
  BY <1>1, <1>2, GoMoves DEF DeleteSku
<1>4. /\ step'[r] = to
      /\ \A y \in Procs \ {r} : step'[y] = step[y]
      /\ todo' = todo
  BY <1>1, <1>2, <1>3, MovesOne DEF DeleteSku
<1>5. ChainsAreKnown' /\ step' \in [Procs -> Steps]
  BY <1>1, <1>2, <1>3, ChainMoves DEF WorkInOrder
<1>6. skus' \in [Products -> SUBSET Requests]
  BY <1>1, <1>2 DEF DeleteSku, Types
<1>7. \A w \in Products : skus'[w] \subseteq skus[w]
  BY <1>1, <1>2 DEF DeleteSku, Types
<1>8. \A w \in Products, x \in Requests : x \in skus[w] /\ x \notin skus'[w] => x = s /\ ~InInvoice(s)
  BY <1>1, <1>2 DEF DeleteSku, Types
<1>9. Types'
  BY <1>1, <1>5, <1>6 DEF DeleteSku, Types
<1>10. RowsAreKnown'
  BY <1>1, <1>2, <1>4 DEF RowsAreKnown, DeleteSku, Procs
<1>11. JobsAreKnown' /\ ChainsFitJobs'
  BY <1>1, <1>4 DEF WorkInOrder, JobsAreKnown, ChainsFitJobs, Fits, DeleteSku, Procs
<1>12. \A w : \A q \in Requests : Made(q, w) => Made(q, w)'
  BY <1>1, <1>4 DEF Made, DeleteSku, Procs
<1>13. SkusAreMade'
  <2>1. ASSUME NEW w \in Products
        PROVE  IsFiniteSet(skus'[w]) /\ \A q \in skus'[w] : Made(q, w)'
    BY <1>1, <1>7, <1>12, FS_Subset DEF WorkInOrder, SkusAreMade, Types
  <2>2. job' = job
    BY DEF DeleteSku
  <2>3. \A y \in Requests : job[y].sku \in Requests => Made(job[y].sku, job[y].on)'
    BY <1>1, <1>12, <2>2 DEF WorkInOrder, SkusAreMade
  <2> QED
    BY <2>1, <2>2, <2>3 DEF SkusAreMade
<1>14. InvoicesAreMade'
  <2>1. job' = job /\ invoice' = invoice
    BY DEF DeleteSku
  <2>2. ASSUME NEW y \in Requests
        PROVE  /\ invoice[y] # "none" =>
                     job[y].op = "create_invoice" /\ step'[y] \notin {"idle", "loaded", "written"}
               /\ invoice[y] = "filled" => job[y].sku \in skus'[job[y].on]
               /\ invoice[y] = "empty" =>
                     step'[y] \in {"effects", "crashed"} \/ job[y].sku \notin skus'[job[y].on]
    <3>1. CASE invoice[y] = "none"
      BY <3>1
    <3>2. CASE invoice[y] # "none"
      <4>1. y # r /\ step'[y] = step[y]
        BY <1>2, <1>4, <3>2 DEF Procs
      <4>2. /\ job[y].op = "create_invoice" /\ step[y] \notin {"idle", "loaded", "written"}
            /\ invoice[y] = "filled" => job[y].sku \in skus[job[y].on]
            /\ invoice[y] = "empty" =>
                  step[y] \in {"effects", "crashed"} \/ job[y].sku \notin skus[job[y].on]
        BY <1>1, <3>2 DEF WorkInOrder, InvoicesAreMade
      <4>3. job[y].on \in Products /\ job[y].sku \in Requests
        BY <1>1, <4>2 DEF WorkInOrder, JobsAreKnown
      <4>4. invoice[y] = "filled" => job[y].sku \in skus'[job[y].on]
        BY <1>8, <4>2, <4>3 DEF InInvoice
      <4> QED
        BY <1>7, <4>1, <4>2, <4>3, <4>4
    <3> QED
      BY <3>1, <3>2
  <2> QED
    BY <2>1, <2>2 DEF InvoicesAreMade
<1> QED
  BY <1>5, <1>9, <1>10, <1>11, <1>13, <1>14 DEF IInv, WorkInOrder

LEMMA CreateInvoiceKeeps ==
    ASSUME IInv, NEW r \in Requests, CreateInvoice(r)
    PROVE  IInv'
<1>1. Types /\ RowsAreKnown /\ WorkInOrder /\ step[r] = "loaded" /\ job[r].op = "create_invoice"
  BY DEF IInv, CreateInvoice, Doing
<1>2. r \in Procs /\ r \notin Handlers /\ todo[r] = <<>> /\ invoice[r] = "none"
  BY <1>1, Writing
<1>3. <<Line>> = Only(Line) /\ Only(Line) \in RequestChains /\ Only(Line) # <<>>
  BY ChainsDiffer DEF Only, RequestChains
<1>4. Moves(r, "effects", Only(Line)) /\ MayBeLeft(r, "effects", Only(Line))
  BY <1>2, <1>3, ThenMoves, ThenIsLeft DEF CreateInvoice
<1>5. /\ step'[r] = "effects" /\ todo'[r] = Only(Line)
      /\ \A y \in Procs \ {r} : step'[y] = step[y] /\ todo'[y] = todo[y]
  BY <1>1, <1>2, <1>4, MovesOne
<1>6. /\ ChainsAreKnown'
      /\ step' \in [Procs -> Steps]
      /\ todo' \in [Procs -> RequestChains \cup HandlerChains]
  BY <1>1, <1>2, <1>4, ChainMoves DEF WorkInOrder
<1>7. /\ invoice' \in [Requests -> {"none", "empty", "filled"}]
      /\ invoice'[r] = "empty"
      /\ \A y \in Requests \ {r} : invoice'[y] = invoice[y]
  BY <1>1 DEF CreateInvoice, Types
<1>8. Types'
  BY <1>1, <1>6, <1>7 DEF CreateInvoice, Types
<1>9. RowsAreKnown'
  BY <1>1, <1>2, <1>5 DEF RowsAreKnown, CreateInvoice, Procs
<1>10. JobsAreKnown'
  BY <1>1, <1>5 DEF WorkInOrder, JobsAreKnown, CreateInvoice, Procs
<1>11. ChainsFitJobs'
  BY <1>1, <1>5, <1>7, ChainsDiffer DEF WorkInOrder, ChainsFitJobs, Fits, CreateInvoice, Procs
<1>12. \A w : \A q \in Requests : Made(q, w) => Made(q, w)'
  BY <1>1, <1>5 DEF Made, CreateInvoice, Procs
<1>13. SkusAreMade'
  BY <1>1, <1>12 DEF WorkInOrder, SkusAreMade, CreateInvoice, Types
<1>14. InvoicesAreMade'
  BY <1>1, <1>5, <1>7 DEF WorkInOrder, InvoicesAreMade, CreateInvoice, Procs
<1> QED
  BY <1>6, <1>8, <1>9, <1>10, <1>11, <1>13, <1>14 DEF IInv, WorkInOrder

LEMMA DeleteProductKeeps ==
    ASSUME IInv, NEW r \in Requests, DeleteProduct(r)
    PROVE  IInv'
<1>1. Types /\ RowsAreKnown /\ WorkInOrder /\ step[r] = "loaded" /\ job[r].op = "delete_product"
  BY DEF IInv, DeleteProduct, Doing
<1>2. r \in Procs /\ r \notin Handlers /\ invoice[r] = "none"
  BY <1>1, Writing
<1>3. <<Mail("DELETED"), Shop("PRODUCT_DELETED")>> = Deletes /\ Deletes \in RequestChains
  BY DEF Deletes, RequestChains
<1>4. Fits(r, Deletes)
  BY <1>1, ChainsDiffer DEF Fits
<1>5. WorkInOrder'
  BY <1>1, <1>2, <1>3, <1>4, RequestThen DEF DeleteProduct
<1>6. /\ step' \in [Procs -> Steps] /\ todo' \in [Procs -> RequestChains \cup HandlerChains]
      /\ \A h \in Handlers : step'[h] = step[h]
  <2>1. Then(r, Deletes)
    BY <1>3 DEF DeleteProduct
  <2>2. step' \in [Procs -> Steps] /\ todo' \in [Procs -> RequestChains \cup HandlerChains]
    BY <1>1, <1>2, <1>3, <2>1, ThenTypes
  <2>3. \A y \in Procs \ {r} : step'[y] = step[y]
    BY <1>1, <1>2, <2>1, ThenMoves, MovesOne
  <2> QED
    BY <1>2, <2>2, <2>3 DEF Procs
<1>7. /\ deleted' \in [Products -> BOOLEAN]
      /\ changed' \in [Procs -> {"none", "DELETED"} \cup Statuses]
  BY <1>1 DEF DeleteProduct, Types
<1>8. Types'
  BY <1>1, <1>6, <1>7 DEF DeleteProduct, Types
<1>9. RowsAreKnown'
  BY <1>1, <1>6 DEF DeleteProduct, RowsAreKnown
<1> QED
  BY <1>5, <1>8, <1>9 DEF IInv

\* The chains that a count of SKUs chooses from.
LEMMA SubmissionChains ==
    ASSUME NEW r
    PROVE  /\ Submission(r) \in {Submits("CREATED"), Submits("EDITED"), <<>>}
           /\ Submission(r) = Submits("CREATED") =>
                 job[r].op = "create_sku" /\ seen[r] = "CREATED" /\ IsFirstSku(job[r].on)
           /\ Submission(r) # <<>> => seen[r] # "HARD_BLOCKED"
<1>1. Submits("CREATED") # Submits("EDITED") /\ <<>> # Submits("CREATED")
  BY ChainsDiffer DEF StatusFirst
<1>2. CASE job[r].op = "create_sku" /\ seen[r] = "CREATED" /\ IsFirstSku(job[r].on)
  BY <1>1, <1>2 DEF Submission, Submits
<1>3. CASE ~(job[r].op = "create_sku" /\ seen[r] = "CREATED" /\ IsFirstSku(job[r].on))
  <2>1. Submission(r) = IF seen[r] \in ReturnFrom THEN Submits("EDITED") ELSE <<>>
    BY <1>3 DEF Submission, Submits, ReturnFrom
  <2> QED
    BY <1>1, <2>1 DEF ReturnFrom
<1> QED
  BY <1>2, <1>3

LEMMA WithdrawalChains ==
    ASSUME NEW r, NEW stocked \in BOOLEAN
    PROVE  /\ Withdrawal(r, stocked) \in {Withdraws, Only(Shop("SKU_OUT_OF_STOCK")), <<>>}
           /\ Withdrawal(r, stocked) = Withdraws => seen[r] # "HARD_BLOCKED"
<1>1. Withdraws \notin {Only(Shop("SKU_OUT_OF_STOCK")), <<>>}
  BY ChainsDiffer DEF StatusFirst
<1>2. CASE skus[job[r].on] = {} /\ seen[r] = "ON_MODERATION"
  BY <1>2 DEF Withdrawal, Withdraws
<1>3. CASE ~(skus[job[r].on] = {} /\ seen[r] = "ON_MODERATION")
  <2>1. Withdrawal(r, stocked) = IF seen[r] = "MODERATED" /\ stocked
                                 THEN Only(Shop("SKU_OUT_OF_STOCK")) ELSE <<>>
    BY <1>3 DEF Withdrawal, Only
  <2> QED
    BY <1>1, <2>1
<1> QED
  BY <1>2, <1>3

LEMMA CountSkusKeeps ==
    ASSUME IInv, NEW r \in Requests, CountSkus(r)
    PROVE  IInv'
<1>1. Types /\ RowsAreKnown /\ WorkInOrder /\ step[r] = "written"
  BY DEF IInv, CountSkus
<1>2. r \in Procs /\ r \notin Handlers /\ todo[r] = <<>> /\ Requests \subseteq Procs
  BY <1>1, LifecycleAssumption DEF Procs, WorkInOrder, ChainsAreKnown
<1>3. invoice[r] = "none"
  BY <1>1 DEF WorkInOrder, InvoicesAreMade, Types
<1>4. PICK es \in RequestChains : Then(r, es) /\ Fits(r, es)
  <2>1. CASE job[r].op = "delete_sku"
    <3>1. PICK stocked \in BOOLEAN : Then(r, Withdrawal(r, stocked))
      BY <2>1 DEF CountSkus
    <3>2. Withdrawal(r, stocked) \in RequestChains
      BY WithdrawalChains DEF RequestChains, StatusFirst
    <3>3. Fits(r, Withdrawal(r, stocked))
      <4> DEFINE es == Withdrawal(r, stocked)
      <4>1. /\ es \in {Withdraws, Only(Shop("SKU_OUT_OF_STOCK")), <<>>}
            /\ es = Withdraws => seen[r] # "HARD_BLOCKED"
        BY WithdrawalChains
      <4> HIDE DEF es
      <4>2. /\ es \notin Submitting /\ es # Only(Line)
            /\ es \in StatusFirst => es = Withdraws
        BY <4>1, ChainsDiffer DEF StatusFirst
      <4>3. Fits(r, es)
        BY <2>1, <4>1, <4>2 DEF Fits
      <4> QED
        BY <4>3 DEF es
    <3> QED
      BY <3>1, <3>2, <3>3
  <2>2. CASE job[r].op # "delete_sku"
    <3>1. Then(r, Submission(r))
      BY <2>2 DEF CountSkus
    <3>2. Submission(r) \in RequestChains
      BY SubmissionChains DEF RequestChains, StatusFirst
    <3>3. Fits(r, Submission(r))
      <4>1. job[r].op # "create_invoice"
        BY <1>1 DEF WorkInOrder, JobsAreKnown
      <4> DEFINE es == Submission(r)
      <4>2. /\ es \in {Submits("CREATED"), Submits("EDITED"), <<>>}
            /\ es = Submits("CREATED") => job[r].op = "create_sku"
            /\ es # <<>> => seen[r] # "HARD_BLOCKED"
        BY SubmissionChains
      <4> HIDE DEF es
      <4>3. /\ es \in Submitting => es = Submits("CREATED")
            /\ es # Only(Line)
            /\ es \in StatusFirst => es # <<>>
        BY <4>2, ChainsDiffer DEF StatusFirst
      <4>4. Fits(r, es)
        BY <4>1, <4>2, <4>3 DEF Fits
      <4> QED
        BY <4>4 DEF es
    <3> QED
      BY <3>1, <3>2, <3>3
  <2> QED
    BY <2>1, <2>2
<1>5. WorkInOrder'
  BY <1>1, <1>3, <1>4, RequestThen DEF CountSkus
<1>6. /\ step' \in [Procs -> Steps] /\ todo' \in [Procs -> RequestChains \cup HandlerChains]
      /\ \A h \in Handlers : step'[h] = step[h]
  BY <1>1, <1>2, <1>4, ThenTypes, ThenMoves, MovesOne DEF Procs
<1>7. Types' /\ RowsAreKnown'
  BY <1>1, <1>6 DEF CountSkus, Types, RowsAreKnown
<1> QED
  BY <1>5, <1>7 DEF IInv

LEMMA StatusHeads ==
    /\ \A c \in StatusFirst : Head(c).what \in {"ON_MODERATION", "CREATED"} /\ c # Only(Line)
    /\ \A c \in {Approves, Blocks("BLOCKED"), Blocks("HARD_BLOCKED")} :
          Head(c).what \in {"MODERATED", "BLOCKED", "HARD_BLOCKED"}
BY Parts, Kinds, ChainsDiffer DEF StatusFirst

\* No delivery ever has a line to insert.
LEMMA HandlersAddNoLines == Only(Line) \notin HandlerChains
<1>1. Only(Line) # <<>>
  BY ChainsDiffer
<1>2. Head(Only(Line)).kind = "line"
  BY HeadKinds
<1> QED
  BY <1>1, <1>2, ChainKinds

LEMMA SetStatusKeeps ==
    ASSUME IInv, NEW x \in Procs, SetStatus(x)
    PROVE  IInv'
<1>1. Types /\ RowsAreKnown /\ WorkInOrder /\ step[x] = "effects"
  BY DEF IInv, SetStatus, Due
<1>2. todo[x] # Only(Line) /\ Head(todo[x]).what \in Statuses
  BY <1>1, StatusDue, StatusHeads, HandlersAddNoLines, WhoIsDue
  DEF WorkInOrder, SetStatus, Statuses
<1>3. /\ WorkInOrder'
      /\ step' \in [Procs -> Steps]
      /\ todo' \in [Procs -> RequestChains \cup HandlerChains]
      /\ \A h \in Handlers : step'[h] # "idle" => step[h] # "idle"
  BY <1>1, <1>2, Advance DEF SetStatus
<1>4. /\ status' \in [Products -> {"none"} \cup Statuses]
      /\ changed' \in [Procs -> {"none", "DELETED"} \cup Statuses]
  BY <1>1, <1>2, WhoIsDue DEF SetStatus, Types
<1>5. Types' /\ RowsAreKnown'
  BY <1>1, <1>3, <1>4 DEF SetStatus, Types, RowsAreKnown
<1> QED
  BY <1>3, <1>5 DEF IInv

LEMMA MailHeads ==
    \A c \in {Deletes, Only(Mail("CREATED")), Only(Mail("EDITED")), Only(Mail("DELETED"))} :
        Head(c).what \in {"CREATED", "EDITED", "DELETED"} /\ c # Only(Line)
BY Parts, Kinds, ChainsDiffer

LEMMA PostMailKeeps ==
    ASSUME IInv, NEW x \in Procs, PostMail(x)
    PROVE  IInv'
<1>1. Types /\ RowsAreKnown /\ WorkInOrder /\ step[x] = "effects"
  BY DEF IInv, PostMail, Due
<1>2. todo[x] # Only(Line) /\ Head(todo[x]).what \in {"CREATED", "EDITED", "DELETED"}
  BY <1>1, MailDue, MailHeads DEF WorkInOrder, PostMail
<1>3. /\ WorkInOrder'
      /\ step' \in [Procs -> Steps]
      /\ todo' \in [Procs -> RequestChains \cup HandlerChains]
      /\ \A h \in Handlers : step'[h] # "idle" => step[h] # "idle"
  BY <1>1, <1>2, Advance DEF PostMail
<1>4. [type |-> Head(todo[x]).what, product |-> ProductOf(x)] \in Messages
  BY <1>1, <1>2, WhoIsDue DEF Messages
<1>5. mail' \in Seq(Messages)
  BY <1>1, <1>4 DEF PostMail, RowsAreKnown
<1>6. Types' /\ RowsAreKnown'
  BY <1>1, <1>3, <1>5 DEF PostMail, Types, RowsAreKnown
<1> QED
  BY <1>3, <1>6 DEF IInv

LEMMA ShopHeads ==
    \A c \in {Only(Shop("PRODUCT_DELETED")), Only(Shop("SKU_OUT_OF_STOCK")), Announces} :
        Head(c).what \in {"SKU_OUT_OF_STOCK", "PRODUCT_DELETED", "PRODUCT_BLOCKED"}
BY Parts, Kinds

LEMMA PostShopKeeps ==
    ASSUME IInv, NEW x \in Procs, PostShop(x)
    PROVE  IInv'
<1>1. Types /\ RowsAreKnown /\ WorkInOrder /\ step[x] = "effects"
  BY DEF IInv, PostShop, Due
<1>2. Head(todo[x]).what \in {"SKU_OUT_OF_STOCK", "PRODUCT_DELETED", "PRODUCT_BLOCKED"}
  BY <1>1, ShopDue, ShopHeads DEF WorkInOrder, PostShop
<1>3. todo[x] # Only(Line)
  BY <1>1, ShopDue, ChainsDiffer, HandlersAddNoLines, WhoIsDue DEF WorkInOrder, PostShop
<1>4. /\ WorkInOrder'
      /\ step' \in [Procs -> Steps]
      /\ todo' \in [Procs -> RequestChains \cup HandlerChains]
      /\ \A h \in Handlers : step'[h] # "idle" => step[h] # "idle"
  BY <1>1, <1>3, Advance DEF PostShop
<1>5. [type |-> Head(todo[x]).what, product |-> ProductOf(x)] \in Events
  BY <1>1, <1>2, WhoIsDue DEF Events
<1>6. shop' \in Seq(Events)
  BY <1>1, <1>5 DEF PostShop, RowsAreKnown
<1>7. Types' /\ RowsAreKnown'
  BY <1>1, <1>4, <1>6 DEF PostShop, Types, RowsAreKnown
<1> QED
  BY <1>4, <1>7 DEF IInv

LEMMA AddLineKeeps ==
    ASSUME IInv, NEW r \in Requests, AddLine(r)
    PROVE  IInv'
<1>1. Types /\ RowsAreKnown /\ WorkInOrder /\ step[r] = "effects" /\ todo[r] = Only(Line)
  BY LineDue DEF IInv, WorkInOrder, AddLine, Due
<1>2. r \in Procs /\ r \notin Handlers
  BY LifecycleAssumption DEF Procs
<1>3. Fits(r, todo[r]) /\ job[r].op = "create_invoice" /\ invoice[r] = "empty"
  BY <1>1 DEF WorkInOrder, ChainsFitJobs, Fits
<1>4. CASE job[r].sku \in skus[job[r].on]
  <2>1. Then(r, <<>>) /\ <<>> \in RequestChains
    BY <1>1, <1>4, Parts DEF AddLine, RequestChains
  <2>2. Moves(r, "done", <<>>) /\ MayBeLeft(r, "done", <<>>)
    BY <1>2, <2>1, ThenMoves, ThenIsLeft
  <2>3. /\ step'[r] = "done" /\ todo'[r] = <<>>
        /\ \A y \in Procs \ {r} : step'[y] = step[y] /\ todo'[y] = todo[y]
    BY <1>1, <1>2, <2>2, MovesOne
  <2>4. /\ ChainsAreKnown'
        /\ step' \in [Procs -> Steps]
        /\ todo' \in [Procs -> RequestChains \cup HandlerChains]
    BY <1>1, <1>2, <2>2, ChainMoves DEF WorkInOrder
  <2>5. /\ invoice' \in [Requests -> {"none", "empty", "filled"}]
        /\ invoice'[r] = "filled"
        /\ \A y \in Requests \ {r} : invoice'[y] = invoice[y]
    BY <1>1, <1>4 DEF AddLine, Types
  <2>6. Types'
    BY <1>1, <2>4, <2>5 DEF AddLine, Types
  <2>7. RowsAreKnown'
    BY <1>1, <1>2, <2>3 DEF RowsAreKnown, AddLine, Procs
  <2>8. JobsAreKnown'
    BY <1>1, <2>3 DEF WorkInOrder, JobsAreKnown, AddLine, Procs
  <2>9. ChainsFitJobs'
    <3>1. Fits(r, todo[r])'
      BY <2>3, ChainsDiffer DEF Fits
    <3>2. \A y \in Requests \ {r} : Fits(y, todo[y])'
      BY <1>1, <2>3, <2>5 DEF WorkInOrder, ChainsFitJobs, Fits, AddLine, Procs
    <3> QED
      BY <3>1, <3>2 DEF ChainsFitJobs
  <2>10. \A w : \A q \in Requests : Made(q, w) => Made(q, w)'
    BY <1>1, <2>3 DEF Made, AddLine, Procs
  <2>11. SkusAreMade'
    BY <1>1, <2>10 DEF WorkInOrder, SkusAreMade, AddLine, Types
  <2>12. InvoicesAreMade'
    BY <1>1, <1>3, <1>4, <2>3, <2>5 DEF WorkInOrder, InvoicesAreMade, AddLine, Procs
  <2> QED
    BY <2>4, <2>6, <2>7, <2>8, <2>9, <2>11, <2>12 DEF IInv, WorkInOrder
<1>5. CASE job[r].sku \notin skus[job[r].on]
  <2>1. Moves(r, "failed", todo[r])
    BY <1>1, <1>2, <1>5, GoMoves DEF AddLine
  <2>2. MayBeLeft(r, "failed", todo[r])
    BY <1>1, <1>2 DEF MayBeLeft, Steps, RequestChains
  <2>3. WorkInOrder'
    BY <1>1, <1>3, <1>5, <2>1, <2>2, RequestMoves DEF AddLine
  <2>4. step' \in [Procs -> Steps] /\ \A h \in Handlers : step'[h] = step[h]
    BY <1>1, <1>2, <2>1, <2>2, ChainMoves, MovesOne DEF WorkInOrder, Procs
  <2>5. Types' /\ RowsAreKnown'
    BY <1>1, <1>5, <2>4 DEF AddLine, Types, RowsAreKnown
  <2> QED
    BY <2>3, <2>5 DEF IInv
<1> QED
  BY <1>4, <1>5

LEMMA VerdictChains ==
    ASSUME NEW v \in Verdicts
    PROVE  VerdictChain(v) \in HandlerChains
BY VerdictsAreKnown DEF Decisions, VerdictChain, HandlerChains, Approves, Blocks

LEMMA LookUpKeyKeeps ==
    ASSUME IInv, NEW h \in Handlers, NEW k \in DOMAIN verdicts, LookUpKey(h, k)
    PROVE  IInv'
<1>1. Types /\ RowsAreKnown /\ WorkInOrder /\ h \in Procs /\ h \notin Requests
  BY LifecycleAssumption DEF IInv, Procs
<1>2. todo[h] = <<>>
  BY <1>1 DEF WorkInOrder, ChainsAreKnown, LookUpKey
<1>3. VerdictChain(verdicts[k]) \in HandlerChains
  BY <1>1, VerdictChains DEF RowsAreKnown
<1>4. PICK to \in {"replayed", "done", "effects"}, es \in HandlerChains :
         Moves(h, to, es) /\ MayBeLeft(h, to, es)
  <2>1. CASE k \in inbox
    <3>1. Moves(h, "replayed", todo[h])
      BY <1>1, <2>1, GoMoves DEF LookUpKey
    <3>2. <<>> \in HandlerChains
      BY DEF HandlerChains
    <3>3. MayBeLeft(h, "replayed", <<>>)
      BY <1>1, <3>2 DEF MayBeLeft, Steps
    <3> QED
      BY <1>2, <3>1, <3>2, <3>3
  <2>2. CASE k \notin inbox
    <3> DEFINE es == VerdictChain(verdicts[k])
               to == IF es = <<>> THEN "done" ELSE "effects"
    <3>1. Moves(h, to, es)
      BY <2>2, ThenMoves DEF LookUpKey
    <3>2. MayBeLeft(h, to, es)
      BY <1>1, <1>3, ThenIsLeft
    <3>3. to \in {"replayed", "done", "effects"} /\ es \in HandlerChains
      BY <1>3
    <3> HIDE DEF to, es
    <3> QED
      BY <3>1, <3>2, <3>3
  <2> QED
    BY <2>1, <2>2
<1>5. WorkInOrder'
  BY <1>1, <1>4, HandlerMoves DEF LookUpKey
<1>6. /\ step' \in [Procs -> Steps]
      /\ todo' \in [Procs -> RequestChains \cup HandlerChains]
      /\ \A g \in Handlers \ {h} : step'[g] = step[g]
  BY <1>1, <1>4, ChainMoves, MovesOne DEF WorkInOrder, Procs
<1>7. /\ carried' \in [Handlers -> {0} \cup DOMAIN verdicts]
      /\ carried'[h] = k
      /\ \A g \in Handlers \ {h} : carried'[g] = carried[g]
  BY <1>1 DEF LookUpKey, Types
<1>8. Types'
  BY <1>1, <1>6, <1>7 DEF LookUpKey, Types
<1>9. RowsAreKnown'
  BY <1>1, <1>6, <1>7 DEF LookUpKey, RowsAreKnown
<1> QED
  BY <1>5, <1>8, <1>9 DEF IInv

LEMMA RecordKeyKeeps ==
    ASSUME IInv, NEW h \in Handlers, RecordKey(h)
    PROVE  IInv'
<1>1. Types /\ RowsAreKnown /\ WorkInOrder /\ h \in Procs /\ h \notin Requests /\ step[h] = "effects"
  BY LifecycleAssumption DEF IInv, Procs, RecordKey, Due
<1> DEFINE to == IF carried[h] \in inbox THEN "failed" ELSE "done"
<1>2. Moves(h, to, <<>>)
  BY DEF RecordKey, Moves, Go
<1>3. MayBeLeft(h, to, <<>>)
  BY <1>1 DEF MayBeLeft, Steps, HandlerChains
<1>4. WorkInOrder'
  BY <1>1, <1>2, <1>3, HandlerMoves DEF RecordKey
<1>5. /\ step' \in [Procs -> Steps]
      /\ todo' \in [Procs -> RequestChains \cup HandlerChains]
      /\ \A g \in Handlers \ {h} : step'[g] = step[g]
  BY <1>1, <1>2, <1>3, ChainMoves, MovesOne DEF WorkInOrder, Procs
<1>6. inbox' \subseteq DOMAIN verdicts
  BY <1>1 DEF RecordKey, Types, RowsAreKnown
<1>7. Types' /\ RowsAreKnown'
  BY <1>1, <1>5, <1>6 DEF RecordKey, Types, RowsAreKnown
<1> QED
  BY <1>4, <1>7 DEF IInv

LEMMA CrashKeeps ==
    ASSUME IInv, NEW x \in Procs, Crash(x)
    PROVE  IInv'
<1>1. Types /\ RowsAreKnown /\ WorkInOrder /\ step[x] \in {"written", "effects"}
  BY DEF IInv, Crash
<1>2. Moves(x, "crashed", todo[x])
  BY <1>1, GoMoves DEF Crash
<1>3. MayBeLeft(x, "crashed", todo[x])
  BY <1>1 DEF MayBeLeft, Steps, WorkInOrder, ChainsAreKnown
<1>4. WorkInOrder'
  <2>1. CASE x \in Requests
    <3>1. Fits(x, todo[x])
      BY <1>1, <2>1 DEF WorkInOrder, ChainsFitJobs
    <3> QED
      BY <1>1, <1>2, <1>3, <2>1, <3>1, RequestMoves DEF Crash
  <2>2. CASE x \in Handlers
    BY <1>1, <1>2, <1>3, <2>2, HandlerMoves DEF Crash
  <2> QED
    BY <2>1, <2>2 DEF Procs
<1>5. step' \in [Procs -> Steps] /\ \A g \in Handlers : step'[g] # "idle" => step[g] # "idle"
  BY <1>1, <1>2, <1>3, ChainMoves, MovesOne DEF WorkInOrder, Procs
<1>6. Types' /\ RowsAreKnown'
  BY <1>1, <1>5 DEF Crash, Types, RowsAreKnown
<1> QED
  BY <1>4, <1>6 DEF IInv

\* Moderation decides.
LEMMA VerdictsGrow ==
    ASSUME IInv, UNCHANGED productVars,
           verdicts' \in Seq(Verdicts), DOMAIN verdicts \subseteq DOMAIN verdicts'
    PROVE  IInv'
<1>1. Types /\ RowsAreKnown /\ WorkInOrder
  BY DEF IInv
<1>2. Types' /\ RowsAreKnown'
  BY <1>1 DEF productVars, Types, RowsAreKnown
<1>3. WorkInOrder'
  BY <1>1 DEF productVars, WorkInOrder, ChainsAreKnown, JobsAreKnown, ChainsFitJobs, Fits,
              SkusAreMade, Made, InvoicesAreMade
<1> QED
  BY <1>2, <1>3 DEF IInv

LEMMA JudgeKeeps ==
    ASSUME IInv, NEW p \in Products, NEW d \in Decisions, Judge(p, d)
    PROVE  IInv'
<1>1. [product |-> p, status |-> d] \in Verdicts
  BY DEF Verdicts
<1>2. verdicts' \in Seq(Verdicts) /\ DOMAIN verdicts \subseteq DOMAIN verdicts'
  BY <1>1 DEF Judge, IInv, RowsAreKnown
<1> QED
  BY <1>2, VerdictsGrow DEF Judge

LEMMA InitIInv == Init => IInv
<1> SUFFICES ASSUME Init PROVE IInv
  OBVIOUS
<1>1. Types
  BY DEF Init, ProductInit, Types, Steps, RequestChains
<1>2. RowsAreKnown
  BY DEF Init, ProductInit, RowsAreKnown, Procs
<1>3. ChainsAreKnown
  BY DEF Init, ProductInit, ChainsAreKnown, Procs, RequestChains, HandlerChains
<1>4. JobsAreKnown
  BY DEF Init, ProductInit, JobsAreKnown, Procs
<1>5. ChainsFitJobs
  BY ChainsDiffer DEF Init, ProductInit, ChainsFitJobs, Fits, Procs
<1>6. SkusAreMade /\ InvoicesAreMade
  BY FS_EmptySet, LifecycleAssumption DEF Init, ProductInit, SkusAreMade, InvoicesAreMade
<1> QED
  BY <1>1, <1>2, <1>3, <1>4, <1>5, <1>6 DEF IInv, WorkInOrder

LEMMA StepKeepsIInv == IInv /\ [Next]_vars => IInv'
<1> SUFFICES ASSUME IInv, [Next]_vars PROVE IInv'
  OBVIOUS
<1>1. CASE UNCHANGED vars
  BY <1>1 DEF vars, productVars, IInv, Types, RowsAreKnown, WorkInOrder, ChainsAreKnown, JobsAreKnown,
              ChainsFitJobs, Fits, SkusAreMade, Made, InvoicesAreMade
<1>2. CASE \E p \in Products : CreateProduct(p)
  BY <1>2, CreateProductKeeps
<1>3. ASSUME NEW r \in Requests,
             \/ Ask(r) \/ CreateSku(r) \/ InsertImages(r) \/ EditProduct(r) \/ EditSku(r)
             \/ DeleteSku(r) \/ DeleteProduct(r) \/ CountSkus(r)
             \/ CreateInvoice(r) \/ AddLine(r)
      PROVE  IInv'
  BY <1>3, LoadKeeps, CreateSkuKeeps, InsertImagesKeeps, EditProductKeeps, EditSkuKeeps, DeleteSkuKeeps,
     DeleteProductKeeps, CountSkusKeeps, CreateInvoiceKeeps, AddLineKeeps
<1>4. ASSUME NEW h \in Handlers, RecordKey(h) \/ \E k \in DOMAIN verdicts : LookUpKey(h, k)
      PROVE  IInv'
  BY <1>4, RecordKeyKeeps, LookUpKeyKeeps
<1>5. ASSUME NEW x \in Procs, SetStatus(x) \/ PostMail(x) \/ PostShop(x) \/ Crash(x)
      PROVE  IInv'
  BY <1>5, SetStatusKeeps, PostMailKeeps, PostShopKeeps, CrashKeeps
<1>6. CASE \E p \in Products, d \in Decisions : Judge(p, d)
  BY <1>6, JudgeKeeps
<1> QED
  BY <1>1, <1>2, <1>3, <1>4, <1>5, <1>6 DEF Next, ProductStep

LEMMA AlwaysIInv == Spec => []IInv
BY InitIInv, StepKeepsIInv, PTL DEF Spec

-----------------------------------------------------------------------------
(* Types, invoices and HARD_BLOCKED. *)

\* Every reachable state of the products, SKUs, invoices, chains and outbox
\* rows has its types.
THEOREM TypeCorrect == Spec => []TypeOK
<1>1. ASSUME IInv
      PROVE  TypeOK
  <2>1. \A i \in DOMAIN mail : mail[i] \in Messages
    BY <1>1 DEF IInv, RowsAreKnown
  <2>2. \A i \in DOMAIN mail : mail[i].product \in Products /\ Mail(mail[i].type) \in Effects
    BY <2>1 DEF Messages, Effects
  <2>3. \A i \in DOMAIN shop : shop[i] \in Events
    BY <1>1 DEF IInv, RowsAreKnown
  <2>4. \A i \in DOMAIN shop : shop[i].product \in Products /\ Shop(shop[i].type) \in Effects
    BY <2>3 DEF Events, Effects
  <2>5. todo \in [Procs -> Seq(Effects)]
    BY <1>1, ChainsAreEffects DEF IInv, Types
  <2> QED
    BY <1>1, <2>2, <2>4, <2>5 DEF IInv, Types, TypeOK
<1> QED
  BY <1>1, AlwaysIInv, PTL

\* create_invoice.py against delete_sku.py: the SKU of a line is there as long
\* as the line, and an invoice lacks its line only by a crash or because the
\* SKU went between the two transactions.
THEOREM LinesKeepTheirSkus == Spec => []InvoicesKeepTheirSkus
<1>1. ASSUME IInv, NEW r \in Requests
      PROVE  /\ InInvoice(job[r].sku) => job[r].sku \in skus[job[r].on]
             /\ invoice[r] = "empty" =>
                   \/ step[r] \in {"effects", "crashed"}
                   \/ job[r].sku \notin skus[job[r].on]
  <2>1. Types /\ JobsAreKnown /\ SkusAreMade /\ InvoicesAreMade
    BY <1>1 DEF IInv, WorkInOrder
  <2>2. ASSUME InInvoice(job[r].sku)
        PROVE  job[r].sku \in skus[job[r].on]
    <3>1. PICK x \in Requests : invoice[x] = "filled" /\ job[x].sku = job[r].sku
      BY <2>2 DEF InInvoice
    <3>2. /\ job[x].on \in Products /\ job[x].sku \in Requests
          /\ job[x].sku \in skus[job[x].on]
      BY <2>1, <3>1 DEF InvoicesAreMade, JobsAreKnown
    <3>3. Made(job[x].sku, job[x].on) /\ Made(job[r].sku, job[r].on)
      BY <2>1, <3>1, <3>2 DEF SkusAreMade
    <3>4. job[x].on = job[r].on
      BY <3>1, <3>3 DEF Made
    <3> QED
      BY <3>1, <3>2, <3>4
  <2> QED
    BY <2>1, <2>2 DEF InvoicesAreMade
<1>2. IInv => InvoicesKeepTheirSkus
  BY <1>1 DEF InvoicesKeepTheirSkus
<1> QED
  BY <1>2, AlwaysIInv, PTL

\* The next transaction of a chain leaves another chain.
LEMMA TailsDiffer ==
    \A c \in StatusFirst \cup {Approves, Blocks("BLOCKED"), Blocks("HARD_BLOCKED")} : Tail(c) # c
<1>1. \A c \in StatusFirst : Tail(c) \notin StatusFirst
  BY Rests, ChainsDiffer DEF RequestChains
<1>2. Tail(Approves) # Approves
  BY Parts, HeadKinds
<1>3. \A s \in {"BLOCKED", "HARD_BLOCKED"} : Tail(Blocks(s)) # Blocks(s)
  BY Parts, HeadKinds
<1> QED
  BY <1>1, <1>2, <1>3

\* A status comes from the product's creation or from a chain.
LEMMA StatusChanges ==
    ASSUME IInv, [Next]_vars, NEW p \in Products
    PROVE  \/ status'[p] = status[p]
           \/ status[p] = "none" /\ status'[p] = "CREATED"
           \/ \E x \in Procs :
                 SetStatus(x) /\ ProductOf(x) = p /\ status'[p] = Head(todo[x]).what
<1>1. Types
  BY DEF IInv
<1>2. CASE UNCHANGED status
  BY <1>2
<1>3. ASSUME NEW q \in Products, CreateProduct(q)
      PROVE  \/ status'[p] = status[p]
             \/ status[p] = "none" /\ status'[p] = "CREATED"
  <2>1. status[q] = "none" /\ status' = [status EXCEPT ![q] = "CREATED"]
    BY <1>3 DEF CreateProduct
  <2>2. DOMAIN status = Products
    BY <1>1 DEF Types
  <2> QED
    BY <2>1, <2>2
<1>4. ASSUME NEW x \in Procs, SetStatus(x)
      PROVE  \/ status'[p] = status[p]
             \/ SetStatus(x) /\ ProductOf(x) = p /\ status'[p] = Head(todo[x]).what
  BY <1>1, <1>4 DEF SetStatus, Types
<1>5. \/ UNCHANGED status
      \/ \E q \in Products : CreateProduct(q)
      \/ \E x \in Procs : SetStatus(x)
  BY DEF Next, ProductStep, vars, productVars, Ask, Load, CreateSku, InsertImages, EditProduct, EditSku,
         DeleteSku, DeleteProduct, CountSkus, CreateInvoice, AddLine, RecordKey, LookUpKey,
         PostMail, PostShop, Crash, Judge
<1> QED
  BY <1>2, <1>3, <1>4, <1>5

\* apply_moderation_event.py and the sellers' requests: a HARD_BLOCKED product
\* gets another status only by a verdict, or by a request that read an earlier
\* status before the block.
THEOREM OnlyStaleReadsCanUnblock == Spec => OnlyStaleReadsUnblock
<1>1. ASSUME IInv, [Next]_vars, NEW p \in Products,
             status[p] = "HARD_BLOCKED", status'[p] # "HARD_BLOCKED"
      PROVE  \/ \E h \in Handlers : todo'[h] # todo[h]
             \/ \E r \in Requests : todo'[r] # todo[r] /\ seen[r] # "HARD_BLOCKED"
  <2>1. PICK x \in Procs : SetStatus(x)
    BY <1>1, StatusChanges
  <2>2. Types /\ ChainsAreKnown /\ ChainsFitJobs
    BY <1>1 DEF IInv, WorkInOrder
  <2>3. todo'[x] = Tail(todo[x])
    BY <2>1, <2>2 DEF SetStatus, Then, Types
  <2>4. \/ x \in Requests /\ todo[x] \in StatusFirst
        \/ x \in Handlers /\ todo[x] \in {Approves, Blocks("BLOCKED"), Blocks("HARD_BLOCKED")}
    BY <2>1, <2>2, StatusDue DEF SetStatus
  <2>5. todo'[x] # todo[x]
    BY <2>3, <2>4, TailsDiffer
  <2> QED
    BY <2>2, <2>4, <2>5 DEF ChainsFitJobs, Fits
<1>2. IInv /\ [Next]_vars =>
         [\A p \in Products :
             status[p] = "HARD_BLOCKED" /\ status'[p] # "HARD_BLOCKED" =>
                 \/ \E h \in Handlers : todo'[h] # todo[h]
                 \/ \E r \in Requests : todo'[r] # todo[r] /\ seen[r] # "HARD_BLOCKED"]_vars
  BY <1>1
<1> QED
  BY <1>2, AlwaysIInv, PTL DEF Spec, OnlyStaleReadsUnblock

-----------------------------------------------------------------------------
(* Who moves. *)

\* x starts a chain, or does the next transaction of one.
Acts(x) ==
    \/ x \in Requests /\ (DeleteProduct(x) \/ CountSkus(x) \/ CreateInvoice(x) \/ AddLine(x))
    \/ x \in Handlers /\ (RecordKey(x) \/ \E k \in DOMAIN verdicts : LookUpKey(x, k))
    \/ SetStatus(x) \/ PostMail(x) \/ PostShop(x)

\* The others keep their chains, and what they have changed.
LEMMA OthersStand ==
    ASSUME Types, NEW x \in Procs, NEW y \in Procs, x # y, Acts(y)
    PROVE  todo'[x] = todo[x] /\ changed'[x] = changed[x]
<1>1. todo' = todo \/ \E es : todo' = [todo EXCEPT ![y] = es]
  BY DEF Acts, DeleteProduct, CountSkus, CreateInvoice, AddLine, RecordKey, LookUpKey, SetStatus,
         PostMail, PostShop, Then
<1>2. changed' = changed \/ \E c : changed' = [changed EXCEPT ![y] = c]
  BY DEF Acts, DeleteProduct, CountSkus, CreateInvoice, AddLine, RecordKey, LookUpKey, SetStatus,
         PostMail, PostShop
<1> QED
  BY <1>1, <1>2 DEF Types

LEMMA OnlyActors ==
    ASSUME IInv, [Next]_vars, NEW x \in Procs, ~Acts(x)
    PROVE  todo'[x] = todo[x] /\ changed'[x] = changed[x]
<1>1. CASE (\E p \in Products : CreateProduct(p)) \/ (\E p \in Products, d \in Decisions : Judge(p, d))
  BY <1>1 DEF CreateProduct, Judge, productVars
<1>2. CASE \E r \in Requests :
              \/ Ask(r) \/ CreateSku(r) \/ InsertImages(r) \/ EditProduct(r) \/ EditSku(r) \/ DeleteSku(r)
  BY <1>2 DEF Ask, Load, CreateSku, InsertImages, EditProduct, EditSku, DeleteSku
<1>3. CASE \E y \in Procs : Crash(y)
  BY <1>3 DEF Crash
<1>4. CASE \E y \in Procs : Acts(y)
  BY <1>4, OthersStand DEF IInv
<1>5. CASE UNCHANGED vars
  BY <1>5 DEF vars, productVars
<1> QED
  BY <1>1, <1>2, <1>3, <1>4, <1>5 DEF Acts, Procs, Next, ProductStep

\* Only a request that loads its product, or writes its own change, is early
\* in its work.
LEMMA EarlySteps ==
    ASSUME IInv, [Next]_vars, NEW x \in Procs, step'[x] \in Early
    PROVE  step[x] \in Early /\ ~Acts(x)
<1>1. Types
  BY DEF IInv
<1>2. ASSUME NEW y \in Procs, NEW to, Go(y, to), to \notin Early \/ step[y] \in Early
      PROVE  step[x] \in Early
  BY <1>1, <1>2 DEF Go, Types
<1>3. ASSUME NEW y \in Procs, NEW es, Then(y, es)
      PROVE  \E to \in {"done", "effects"} : Go(y, to)
  BY <1>3 DEF Then
<1>4. ASSUME NEW y \in Procs, Acts(y)
      PROVE  \E to \in {"done", "effects", "failed", "replayed"} : Go(y, to)
  BY <1>3, <1>4
  DEF Acts, DeleteProduct, CountSkus, CreateInvoice, AddLine, RecordKey, LookUpKey, SetStatus,
      PostMail, PostShop
<1>5. ASSUME NEW r \in Requests,
             \/ Ask(r) \/ CreateSku(r) \/ InsertImages(r) \/ EditProduct(r) \/ EditSku(r) \/ DeleteSku(r)
      PROVE  step[r] \in Early /\ \E to : Go(r, to)
  BY <1>5 DEF Ask, Load, CreateSku, InsertImages, EditProduct, EditSku, DeleteSku, Doing, Early
<1>6. ASSUME NEW y \in Procs, Crash(y)
      PROVE  Go(y, "crashed")
  BY <1>6 DEF Crash
<1>7. ~Acts(x)
  BY <1>1, <1>4 DEF Go, Types, Early
<1>8. \/ UNCHANGED step
      \/ \E y \in Procs : Acts(y) \/ Crash(y)
      \/ \E r \in Requests :
            \/ Ask(r) \/ CreateSku(r) \/ InsertImages(r) \/ EditProduct(r) \/ EditSku(r) \/ DeleteSku(r)
  BY DEF Acts, Procs, Next, ProductStep, vars, productVars, CreateProduct, Judge
<1>9. ASSUME NEW y \in Procs, Acts(y) \/ Crash(y)
      PROVE  step[x] \in Early
  BY <1>2, <1>4, <1>6, <1>9 DEF Early
<1>10. ASSUME NEW r \in Requests,
              \/ Ask(r) \/ CreateSku(r) \/ InsertImages(r) \/ EditProduct(r) \/ EditSku(r) \/ DeleteSku(r)
       PROVE  step[x] \in Early
  BY <1>2, <1>5, <1>10 DEF Procs
<1> QED
  BY <1>7, <1>8, <1>9, <1>10

\* What an actor leaves of its chain.
LEMMA Progress ==
    ASSUME IInv, [Next]_vars, NEW x \in Procs
    PROVE  todo'[x] = todo[x] \/ todo[x] = <<>> \/ todo'[x] = Tail(todo[x])
<1>1. Types /\ ChainsAreKnown
  BY DEF IInv, WorkInOrder
<1>2. CASE ~Acts(x)
  BY <1>2, OnlyActors
<1>3. CASE x \in Requests /\ (DeleteProduct(x) \/ CountSkus(x) \/ CreateInvoice(x))
  <2>1. step[x] \in {"loaded", "written"}
    BY <1>3 DEF DeleteProduct, CountSkus, CreateInvoice, Doing
  <2> QED
    BY <1>1, <2>1 DEF ChainsAreKnown
<1>4. CASE x \in Requests /\ AddLine(x)
  BY <1>1, <1>4 DEF AddLine, Then, Types
<1>5. CASE x \in Handlers /\ RecordKey(x)
  <2>1. todo'[x] = <<>> /\ todo[x] = Only(Record)
    BY <1>1, <1>5, RecordDue DEF RecordKey, Types
  <2> QED
    BY <2>1, Parts
<1>6. CASE x \in Handlers /\ \E k \in DOMAIN verdicts : LookUpKey(x, k)
  BY <1>1, <1>6 DEF LookUpKey, ChainsAreKnown
<1>7. CASE SetStatus(x) \/ PostMail(x) \/ PostShop(x)
  BY <1>1, <1>7 DEF SetStatus, PostMail, PostShop, Then, Types
<1> QED
  BY <1>2, <1>3, <1>4, <1>5, <1>6, <1>7 DEF Acts

\* Where a chain starts.
LEMMA ChainStarts ==
    ASSUME IInv, [Next]_vars, NEW x \in Procs, todo[x] = <<>>, todo'[x] # <<>>
    PROVE  \/ x \in Requests /\ (DeleteProduct(x) \/ CountSkus(x) \/ CreateInvoice(x))
           \/ x \in Handlers /\ \E k \in DOMAIN verdicts : LookUpKey(x, k) /\ k \notin inbox
<1>1. Types /\ ChainsAreKnown
  BY DEF IInv, WorkInOrder
<1>2. Acts(x) /\ step[x] # "effects"
  BY <1>1, OnlyActors DEF ChainsAreKnown
<1>3. /\ ~AddLine(x) /\ ~RecordKey(x)
      /\ ~SetStatus(x) /\ ~PostMail(x) /\ ~PostShop(x)
  BY <1>2 DEF AddLine, RecordKey, SetStatus, PostMail, PostShop, Due
<1>4. ASSUME NEW k \in DOMAIN verdicts, LookUpKey(x, k)
      PROVE  k \notin inbox
  BY <1>4 DEF LookUpKey
<1> QED
  BY <1>2, <1>3, <1>4 DEF Acts

LEMMA AppendKeepsPosted ==
    ASSUME NEW S, NEW box \in Seq(S), NEW e, NEW type, NEW p, Posted(box, type, p)
    PROVE  Posted(Append(box, e), type, p)
<1>1. PICK i \in DOMAIN box : box[i].type = type /\ box[i].product = p
  BY DEF Posted
<1>2. i \in DOMAIN Append(box, e) /\ Append(box, e)[i] = box[i]
  BY <1>1
<1> QED
  BY <1>1, <1>2 DEF Posted

LEMMA JobStays ==
    ASSUME IInv, [Next]_vars, NEW r \in Requests, step[r] # "idle"
    PROVE  job'[r] = job[r]
<1>1. CASE UNCHANGED job
  BY <1>1
<1>2. ASSUME NEW q \in Requests, Ask(q)
      PROVE  job'[r] = job[r]
  BY <1>2 DEF Ask, Load, IInv, Types
<1>3. (\E q \in Requests : Ask(q)) \/ UNCHANGED job
  BY DEF Next, ProductStep, vars, productVars, CreateProduct, CreateSku, InsertImages, EditProduct, EditSku,
         DeleteSku, DeleteProduct, CountSkus, CreateInvoice, AddLine, RecordKey, LookUpKey,
         SetStatus, PostMail, PostShop, Crash, Judge
<1> QED
  BY <1>1, <1>2, <1>3

LEMMA ProductStays ==
    ASSUME IInv, [Next]_vars, NEW x \in Procs, step[x] # "idle"
    PROVE  ProductOf(x)' = ProductOf(x)
<1>1. Types /\ RowsAreKnown
  BY DEF IInv
<1>2. CASE x \in Requests
  BY <1>2, JobStays DEF ProductOf
<1>3. CASE x \in Handlers
  <2>1. x \notin Requests /\ carried[x] \in DOMAIN verdicts
    BY <1>1, <1>3, LifecycleAssumption DEF RowsAreKnown
  <2>2. carried'[x] = carried[x]
    <3>1. CASE UNCHANGED carried
      BY <3>1
    <3>2. ASSUME NEW h \in Handlers, NEW k \in DOMAIN verdicts, LookUpKey(h, k)
          PROVE  carried'[x] = carried[x]
      BY <1>1, <1>3, <3>2 DEF LookUpKey, Types
    <3>3. (\E h \in Handlers : \E k \in DOMAIN verdicts : LookUpKey(h, k)) \/ UNCHANGED carried
      BY DEF Next, ProductStep, vars, productVars, CreateProduct, Ask, Load, CreateSku, InsertImages,
             EditProduct, EditSku, DeleteSku, DeleteProduct, CountSkus, CreateInvoice, AddLine, RecordKey,
             SetStatus, PostMail, PostShop, Crash, Judge
    <3> QED
      BY <3>1, <3>2, <3>3
  <2>3. verdicts'[carried[x]] = verdicts[carried[x]]
    <3>1. CASE UNCHANGED verdicts
      BY <3>1
    <3>2. ASSUME NEW p \in Products, NEW d \in Decisions, Judge(p, d)
          PROVE  verdicts'[carried[x]] = verdicts[carried[x]]
      BY <1>1, <2>1, <3>2 DEF Judge, RowsAreKnown
    <3>3. (\E p \in Products, d \in Decisions : Judge(p, d)) \/ UNCHANGED verdicts
      BY DEF Next, ProductStep, vars, productVars, CreateProduct, Ask, Load, CreateSku, InsertImages,
             EditProduct, EditSku, DeleteSku, DeleteProduct, CountSkus, CreateInvoice, AddLine, RecordKey,
             LookUpKey, SetStatus, PostMail, PostShop, Crash
    <3> QED
      BY <3>1, <3>2, <3>3
  <2> QED
    BY <2>1, <2>2, <2>3 DEF ProductOf
<1> QED
  BY <1>2, <1>3 DEF Procs

LEMMA RowsStay ==
    ASSUME IInv, [Next]_vars, NEW type, NEW p
    PROVE  /\ Posted(mail, type, p) => Posted(mail', type, p)
           /\ Posted(shop, type, p) => Posted(shop', type, p)
<1>1. mail \in Seq(Messages) /\ shop \in Seq(Events)
  BY DEF IInv, RowsAreKnown
<1>2. mail' = mail \/ \E e : mail' = Append(mail, e)
  BY DEF Next, ProductStep, vars, productVars, CreateProduct, Ask, Load, CreateSku, InsertImages,
         EditProduct, EditSku, DeleteSku, DeleteProduct, CountSkus, CreateInvoice, AddLine, RecordKey,
         LookUpKey, SetStatus, PostMail, PostShop, Crash, Judge
<1>3. shop' = shop \/ \E e : shop' = Append(shop, e)
  BY DEF Next, ProductStep, vars, productVars, CreateProduct, Ask, Load, CreateSku, InsertImages,
         EditProduct, EditSku, DeleteSku, DeleteProduct, CountSkus, CreateInvoice, AddLine, RecordKey,
         LookUpKey, SetStatus, PostMail, PostShop, Crash, Judge
<1> QED
  BY <1>1, <1>2, <1>3, AppendKeepsPosted

-----------------------------------------------------------------------------
(* Changes and what is left to tell of them. *)

\* What the head of a chain says of the change.
LEMMA ByHead ==
    ASSUME NEW es, NEW c, LeftAfter(es, c), es # <<>>
    PROVE  /\ Head(es).kind = "status" =>
                 c = "none" /\ es \in StatusFirst \cup {Approves, Blocks("BLOCKED"), Blocks("HARD_BLOCKED")}
           /\ Head(es).kind = "mail" =>
                 \/ es \in {Only(Mail("CREATED")), Only(Mail("EDITED"))} /\ c = "ON_MODERATION"
                 \/ es = Only(Mail("DELETED")) /\ c = "CREATED"
                 \/ es = Deletes /\ c = "DELETED"
           /\ Head(es).kind = "shop" =>
                 \/ es = Only(Shop("SKU_OUT_OF_STOCK")) /\ c = "none"
                 \/ es = Only(Shop("PRODUCT_DELETED")) /\ c = "DELETED"
                 \/ es = Announces /\ c \in {"BLOCKED", "HARD_BLOCKED"}
           /\ Head(es).kind = "line" => c = "none"
<1> DEFINE k == Head(es).kind
<1>1. CASE /\ c = "none"
           /\ es \in StatusFirst \cup {Approves, Blocks("BLOCKED"), Blocks("HARD_BLOCKED")}
  <2>1. k = "status"
    BY <1>1, HeadKinds
  <2> QED
    BY <1>1, <2>1
<1>2. CASE c = "none" /\ es = Only(Shop("SKU_OUT_OF_STOCK"))
  <2>1. k = "shop"
    BY <1>2, HeadKinds
  <2> QED
    BY <1>2, <2>1
<1>3. CASE c = "none" /\ es = Only(Line)
  <2>1. k = "line"
    BY <1>3, HeadKinds
  <2> QED
    BY <1>3, <2>1
<1>4. CASE \/ es \in {Only(Mail("CREATED")), Only(Mail("EDITED"))} /\ c = "ON_MODERATION"
           \/ es = Only(Mail("DELETED")) /\ c = "CREATED"
           \/ es = Deletes /\ c = "DELETED"
  <2>1. k = "mail"
    BY <1>4, HeadKinds
  <2> QED
    BY <1>4, <2>1
<1>5. CASE \/ es = Only(Shop("PRODUCT_DELETED")) /\ c = "DELETED"
           \/ es = Announces /\ c \in {"BLOCKED", "HARD_BLOCKED"}
  <2>1. k = "shop"
    BY <1>5, HeadKinds
  <2> QED
    BY <1>5, <2>1
<1>6. CASE es = Only(Record)
  <2>1. k = "inbox"
    BY <1>6, HeadKinds
  <2> QED
    BY <2>1
<1> QED
  BY <1>1, <1>2, <1>3, <1>4, <1>5, <1>6 DEF LeftAfter

LEMMA WholeVerdictChains ==
    ASSUME NEW v \in Verdicts
    PROVE  VerdictChain(v) \in {Approves, Blocks("BLOCKED"), Blocks("HARD_BLOCKED")}
BY VerdictsAreKnown DEF Decisions, VerdictChain, Approves, Blocks

\* The chain that x goes on with still fits the change it has made.
LEMMA LeftOf ==
    ASSUME IInv, ChangesFit, [Next]_vars, NEW x \in Procs
    PROVE  LeftAfter(todo'[x], changed'[x])
<1>1. /\ Types /\ RowsAreKnown /\ ChainsAreKnown /\ LeftAfter(todo[x], changed[x])
      /\ step[x] \in Early => changed[x] = "none"
  BY DEF IInv, WorkInOrder, ChangesFit
<1>2. CASE ~Acts(x)
  BY <1>1, <1>2, OnlyActors
<1>3. CASE DeleteProduct(x) /\ x \in Requests
  <2>1. todo'[x] = Deletes /\ changed'[x] = "DELETED"
    BY <1>1, <1>3 DEF DeleteProduct, Then, Deletes, Types
  <2> QED
    BY <2>1 DEF LeftAfter
<1>4. CASE CountSkus(x) /\ x \in Requests
  <2>1. changed'[x] = "none"
    BY <1>1, <1>4 DEF CountSkus, Early
  <2>2. todo'[x] \in {Submits("CREATED"), Submits("EDITED"), Withdraws,
                      Only(Shop("SKU_OUT_OF_STOCK")), <<>>}
    <3>1. ASSUME NEW stocked \in BOOLEAN, Then(x, Withdrawal(x, stocked))
          PROVE  todo'[x] = Withdrawal(x, stocked)
      BY <1>1, <3>1 DEF Then, Types
    <3>2. ASSUME Then(x, Submission(x))
          PROVE  todo'[x] = Submission(x)
      BY <1>1, <3>2 DEF Then, Types
    <3> QED
      BY <1>4, <3>1, <3>2, WithdrawalChains, SubmissionChains DEF CountSkus
  <2> QED
    BY <2>1, <2>2 DEF LeftAfter, StatusFirst
<1>5. CASE CreateInvoice(x) /\ x \in Requests
  <2>1. changed'[x] = "none" /\ todo'[x] = Only(Line)
    BY <1>1, <1>5 DEF CreateInvoice, Doing, Early, Then, Only, Types
  <2> QED
    BY <2>1 DEF LeftAfter
<1>6. CASE AddLine(x) /\ x \in Requests
  <2>1. changed'[x] = changed[x] /\ todo'[x] \in {todo[x], Tail(todo[x])} /\ todo[x] = Only(Line)
    BY <1>1, <1>6, LineDue DEF AddLine, Then, Types
  <2> QED
    BY <1>1, <2>1, Parts DEF LeftAfter
<1>7. CASE RecordKey(x) /\ x \in Handlers
  BY <1>1, <1>7 DEF RecordKey, Types, LeftAfter
<1>8. ASSUME x \in Handlers, NEW k \in DOMAIN verdicts, LookUpKey(x, k)
      PROVE  LeftAfter(todo'[x], changed'[x])
  <2>1. changed'[x] = "none" /\ verdicts[k] \in Verdicts
    BY <1>1, <1>8 DEF LookUpKey, Early, RowsAreKnown
  <2>2. todo'[x] = todo[x] \/ todo'[x] = VerdictChain(verdicts[k])
    BY <1>1, <1>8 DEF LookUpKey, Then, Types
  <2>3. changed[x] = "none"
    BY <1>1, <1>8 DEF LookUpKey, Early
  <2> QED
    BY <1>1, <2>1, <2>2, <2>3, WholeVerdictChains DEF LeftAfter
<1>9. CASE SetStatus(x)
  <2>1. /\ todo'[x] = Tail(todo[x]) /\ changed'[x] = Head(todo[x]).what
        /\ todo[x] # <<>> /\ Head(todo[x]).kind = "status"
    BY <1>1, <1>9 DEF SetStatus, Due, Then, Types, ChainsAreKnown
  <2>2. todo[x] \in StatusFirst \cup {Approves, Blocks("BLOCKED"), Blocks("HARD_BLOCKED")}
    BY <1>1, <2>1, ByHead
  <2>3. CASE todo[x] \in {Submits("CREATED"), Submits("EDITED")}
    <3>1. /\ todo'[x] \in {Only(Mail("CREATED")), Only(Mail("EDITED"))}
          /\ Head(todo[x]) = SetTo("ON_MODERATION")
      BY <2>1, <2>3, Parts
    <3> QED
      BY <2>1, <3>1, Kinds DEF LeftAfter
  <2>4. CASE todo[x] = Withdraws
    <3>1. todo'[x] = Only(Mail("DELETED")) /\ Head(todo[x]) = SetTo("CREATED")
      BY <2>1, <2>4, Parts
    <3> QED
      BY <2>1, <3>1, Kinds DEF LeftAfter
  <2>5. CASE todo[x] = Approves
    BY <2>1, <2>5, Parts DEF LeftAfter
  <2>6. ASSUME NEW s \in {"BLOCKED", "HARD_BLOCKED"}, todo[x] = Blocks(s)
        PROVE  LeftAfter(todo'[x], changed'[x])
    <3>1. todo'[x] = Announces /\ Head(todo[x]) = SetTo(s)
      BY <2>1, <2>6, Parts
    <3> QED
      BY <2>1, <2>6, <3>1, Kinds DEF LeftAfter
  <2> QED
    BY <2>2, <2>3, <2>4, <2>5, <2>6 DEF StatusFirst
<1>10. CASE PostMail(x)
  <2>1. /\ todo'[x] = Tail(todo[x]) /\ changed'[x] = changed[x]
        /\ todo[x] # <<>> /\ Head(todo[x]).kind = "mail"
    BY <1>1, <1>10 DEF PostMail, Due, Then, Types, ChainsAreKnown
  <2>2. (\E t : todo[x] = Only(Mail(t))) \/ (todo[x] = Deletes /\ changed[x] = "DELETED")
    BY <1>1, <2>1, ByHead
  <2>3. todo'[x] = <<>> \/ (todo'[x] = Only(Shop("PRODUCT_DELETED")) /\ changed'[x] = "DELETED")
    BY <2>1, <2>2, Parts
  <2> QED
    BY <2>3 DEF LeftAfter
<1>11. CASE PostShop(x)
  <2>1. /\ todo'[x] = Tail(todo[x]) /\ changed'[x] = changed[x]
        /\ todo[x] # <<>> /\ Head(todo[x]).kind = "shop"
    BY <1>1, <1>11 DEF PostShop, Due, Then, Types, ChainsAreKnown
  <2>2. (\E t : todo[x] = Only(Shop(t))) \/ todo[x] = Announces
    BY <1>1, <2>1, ByHead
  <2>3. todo'[x] \in {<<>>, Only(Record)}
    BY <2>1, <2>2, Parts
  <2> QED
    BY <2>3 DEF LeftAfter
<1> QED
  BY <1>2, <1>3, <1>4, <1>5, <1>6, <1>7, <1>8, <1>9, <1>10, <1>11 DEF Acts

LEMMA ChangesStayFit ==
    ASSUME IInv, ChangesFit, [Next]_vars
    PROVE  ChangesFit'
<1>1. ASSUME NEW x \in Procs, step'[x] \in Early
      PROVE  changed'[x] = "none"
  BY <1>1, EarlySteps, OnlyActors DEF ChangesFit
<1>2. \A x \in Procs : LeftAfter(todo[x], changed[x])' <=> LeftAfter(todo'[x], changed'[x])
  BY DEF LeftAfter, StatusFirst, Submits, Withdraws, Approves, Blocks, Announces, Only, Deletes,
         SetTo, Mail, Shop, Record, Line
<1> QED
  BY <1>1, <1>2, LeftOf DEF ChangesFit, Early

LEMMA InitChangesFit == Init => ChangesFit
BY DEF Init, ProductInit, ChangesFit, LeftAfter, Procs

-----------------------------------------------------------------------------
(* Every change is told once. *)

HasKind(es, kind) == \E i \in DOMAIN es : es[i].kind = kind

\* A chain of which es is left, with a change among these, has told of it.
Through(es, c, changes, kind) == c \in changes /\ ~HasKind(es, kind)

MailChanges == {"ON_MODERATION", "CREATED", "DELETED"}
ShopChanges == {"DELETED", "BLOCKED", "HARD_BLOCKED"}

\* Types of rows to moderation, and to B2C, and the changes they tell.
MailTells(types, changes) ==
    /\ changes \subseteq MailChanges
    /\ \A t \in {"CREATED", "EDITED"} : t \in types <=> "ON_MODERATION" \in changes
    /\ \A c \in {"CREATED", "DELETED"} : "DELETED" \in types <=> c \in changes
ShopTells(types, changes) ==
    /\ changes \subseteq ShopChanges
    /\ "PRODUCT_DELETED" \in types <=> "DELETED" \in changes
    /\ \A c \in {"BLOCKED", "HARD_BLOCKED"} : "PRODUCT_BLOCKED" \in types <=> c \in changes
    /\ "SKU_OUT_OF_STOCK" \notin types

\* Both are finite, and of one size.
Alike(rows, told) == IsFiniteSet(rows) /\ IsFiniteSet(told) /\ SameCount(rows, told)

LEMMA OneMore ==
    ASSUME NEW rows, NEW told, Alike(rows, told), NEW i, i \notin rows, NEW x, x \notin told
    PROVE  Alike(rows \cup {i}, told \cup {x})
BY FS_AddElement DEF Alike, SameCount

LEMMA RowGains ==
    ASSUME NEW S, NEW box \in Seq(S), NEW e, NEW types, NEW p
    PROVE  /\ Len(box) + 1 \notin Rows(box, types, p)
           /\ e.type \in types /\ e.product = p =>
                 Rows(Append(box, e), types, p) = Rows(box, types, p) \cup {Len(box) + 1}
           /\ ~(e.type \in types /\ e.product = p) =>
                 Rows(Append(box, e), types, p) = Rows(box, types, p)
<1>1. DOMAIN box = 1 .. Len(box) /\ Len(box) \in Nat
  OBVIOUS
<1>2. DOMAIN Append(box, e) = 1 .. Len(box) + 1
  BY <1>1
<1>3. \A i \in DOMAIN box : i # Len(box) + 1 /\ Append(box, e)[i] = box[i]
  BY <1>1
<1>4. Append(box, e)[Len(box) + 1] = e
  OBVIOUS
<1>5. DOMAIN Append(box, e) = DOMAIN box \cup {Len(box) + 1}
  BY <1>1, <1>2
<1> QED
  BY <1>3, <1>4, <1>5 DEF Rows

\* What the chains have to tell.
LEMMA KindsLeft ==
    /\ \A kind : ~HasKind(<<>>, kind)
    /\ \A e, kind : HasKind(Only(e), kind) <=> e.kind = kind
    /\ \A kind \in {"mail", "shop"} : HasKind(Deletes, kind)
    /\ HasKind(Announces, "shop") /\ ~HasKind(Announces, "mail")
BY Kinds DEF HasKind, Only, Deletes, Announces

LEMMA WhoOwes ==
    ASSUME NEW st, NEW es, NEW kind \in {"mail", "shop"},
           es # <<>> => st \in {"effects", "crashed", "failed"},
           st = "failed" => es \in {<<>>, Only(Line)}
    PROVE  st \in {"effects", "crashed"} /\ HasKind(es, kind) <=> HasKind(es, kind)
BY KindsLeft, Kinds

\* The changes that were told, by what is left of the chains.
LEMMA ToldAre ==
    ASSUME IInv, NEW changes, NEW kind \in {"mail", "shop"}, NEW p
    PROVE  ToldChanges(changes, kind, p) =
               {x \in Procs : ProductOf(x) = p /\ Through(todo[x], changed[x], changes, kind)}
<1>1. ChainsAreKnown
  BY DEF IInv, WorkInOrder
<1>2. ASSUME NEW x \in Procs
      PROVE  Owes(x, kind) <=> HasKind(todo[x], kind)
  <2>1. PICK st, es : st = step[x] /\ es = todo[x]
    OBVIOUS
  <2>2. /\ es # <<>> => st \in {"effects", "crashed", "failed"}
        /\ st = "failed" => es \in {<<>>, Only(Line)}
    BY <1>1, <2>1 DEF ChainsAreKnown
  <2>3. st \in {"effects", "crashed"} /\ HasKind(es, kind) <=> HasKind(es, kind)
    BY <2>2, WhoOwes
  <2> QED
    BY <2>1, <2>3 DEF Owes, HasKind
<1> QED
  BY <1>2 DEF ToldChanges, Through

LEMMA ToldWillBe ==
    ASSUME IInv', NEW changes, NEW kind \in {"mail", "shop"}, NEW p
    PROVE  ToldChanges(changes, kind, p)' =
               {x \in Procs : ProductOf(x)' = p /\ Through(todo'[x], changed'[x], changes, kind)}
<1>1. ChainsAreKnown'
  BY DEF IInv, WorkInOrder
<1>2. ASSUME NEW x \in Procs
      PROVE  Owes(x, kind)' <=> HasKind(todo'[x], kind)
  <2>1. PICK st, es : st = step'[x] /\ es = todo'[x]
    OBVIOUS
  <2>2. /\ es # <<>> => st \in {"effects", "crashed", "failed"}
        /\ st = "failed" => es \in {<<>>, Only(Line)}
    BY <1>1, <2>1 DEF ChainsAreKnown
  <2>3. st \in {"effects", "crashed"} /\ HasKind(es, kind) <=> HasKind(es, kind)
    BY <2>2, WhoOwes
  <2> QED
    BY <2>1, <2>3 DEF Owes, HasKind
<1> QED
  BY <1>2 DEF ToldChanges, Through

\* Only the row itself makes a change told: without it, what x has told stays.
LEMMA QuietSteps ==
    ASSUME IInv, ChangesFit, [Next]_vars, NEW x \in Procs, NEW changes
    PROVE  /\ changes \subseteq MailChanges /\ ~PostMail(x) =>
                 (Through(todo'[x], changed'[x], changes, "mail") <=>
                     Through(todo[x], changed[x], changes, "mail"))
           /\ changes \subseteq ShopChanges /\ ~PostShop(x) =>
                 (Through(todo'[x], changed'[x], changes, "shop") <=>
                     Through(todo[x], changed[x], changes, "shop"))
<1>1. /\ Types /\ RowsAreKnown /\ ChainsAreKnown /\ LeftAfter(todo[x], changed[x])
      /\ step[x] \in Early => changed[x] = "none"
      /\ LeftAfter(todo'[x], changed'[x])
  BY LeftOf DEF IInv, WorkInOrder, ChangesFit
<1>2. "none" \notin MailChanges \cup ShopChanges
  BY DEF MailChanges, ShopChanges
<1>3. CASE todo'[x] = todo[x] /\ changed'[x] = changed[x]
  BY <1>3
<1>4. CASE changed[x] = "none" /\ changed'[x] = "none"
  BY <1>2, <1>4 DEF Through
<1>5. CASE DeleteProduct(x) /\ x \in Requests
  <2>1. changed[x] = "none" /\ todo'[x] = Deletes
    BY <1>1, <1>5 DEF DeleteProduct, Doing, Early, Then, Deletes, Types
  <2> QED
    BY <1>2, <2>1, KindsLeft DEF Through
<1>6. CASE SetStatus(x)
  <2>1. /\ todo'[x] = Tail(todo[x]) /\ changed'[x] = Head(todo[x]).what
        /\ todo[x] # <<>> /\ Head(todo[x]).kind = "status"
    BY <1>1, <1>6 DEF SetStatus, Due, Then, Types, ChainsAreKnown
  <2>2. /\ changed[x] = "none"
        /\ todo[x] \in StatusFirst \cup {Approves, Blocks("BLOCKED"), Blocks("HARD_BLOCKED")}
    BY <1>1, <2>1, ByHead
  <2>3. CASE todo[x] \in {Submits("CREATED"), Submits("EDITED"), Withdraws}
    <3>1. \E t \in {"CREATED", "EDITED", "DELETED"} : todo'[x] = Only(Mail(t))
      BY <2>1, <2>3, Parts
    <3>2. HasKind(todo'[x], "mail")
      BY <3>1, KindsLeft, Kinds
    <3>3. changed'[x] \in {"ON_MODERATION", "CREATED"}
      BY <2>1, <2>3, Parts, Kinds
    <3> QED
      BY <1>2, <2>2, <3>2, <3>3 DEF Through, ShopChanges
  <2>4. CASE todo'[x] = Announces /\ changed'[x] \in {"BLOCKED", "HARD_BLOCKED"}
    BY <1>2, <2>2, <2>4, KindsLeft DEF Through, MailChanges
  <2>5. CASE changed'[x] = "MODERATED"
    BY <1>2, <2>2, <2>5 DEF Through, MailChanges, ShopChanges
  <2>6. CASE todo[x] \in StatusFirst
    BY <2>3, <2>6 DEF StatusFirst
  <2>7. CASE todo[x] = Approves
    BY <2>1, <2>5, <2>7, Parts, Kinds
  <2>8. ASSUME NEW s \in {"BLOCKED", "HARD_BLOCKED"}, todo[x] = Blocks(s)
        PROVE  todo'[x] = Announces /\ changed'[x] \in {"BLOCKED", "HARD_BLOCKED"}
    <3>1. todo'[x] = Announces /\ Head(todo[x]) = SetTo(s)
      BY <2>1, <2>8, Parts
    <3> QED
      BY <2>1, <3>1, Kinds
  <2> QED
    BY <2>2, <2>4, <2>6, <2>7, <2>8
<1>7. CASE PostMail(x)
  <2>1. /\ todo'[x] = Tail(todo[x]) /\ changed'[x] = changed[x]
        /\ todo[x] # <<>> /\ Head(todo[x]).kind = "mail"
    BY <1>1, <1>7 DEF PostMail, Due, Then, Types, ChainsAreKnown
  <2>2. CASE todo[x] = Deletes
    <3>1. HasKind(todo[x], "shop")
      BY <2>2, KindsLeft
    <3>2. todo'[x] = Only(Shop("PRODUCT_DELETED"))
      BY <2>1, <2>2, Parts
    <3>3. HasKind(todo'[x], "shop")
      BY <3>2, KindsLeft, Kinds
    <3> QED
      BY <1>7, <3>1, <3>3 DEF Through
  <2>3. CASE changed[x] \in {"ON_MODERATION", "CREATED"}
    BY <1>7, <2>1, <2>3 DEF Through, ShopChanges
  <2> QED
    BY <1>1, <2>1, <2>2, <2>3, ByHead
<1>8. CASE PostShop(x)
  <2>1. /\ todo'[x] = Tail(todo[x]) /\ changed'[x] = changed[x]
        /\ todo[x] # <<>> /\ Head(todo[x]).kind = "shop"
    BY <1>1, <1>8 DEF PostShop, Due, Then, Types, ChainsAreKnown
  <2>2. todo[x] \in {Only(Shop("SKU_OUT_OF_STOCK")), Only(Shop("PRODUCT_DELETED")), Announces}
    BY <1>1, <2>1, ByHead
  <2>3. ~HasKind(todo[x], "mail") /\ ~HasKind(todo'[x], "mail")
    <3>1. CASE todo[x] = Announces
      <4>1. todo'[x] = Only(Record)
        BY <2>1, <3>1, Parts
      <4> QED
        BY <3>1, <4>1, KindsLeft, Kinds
    <3>2. ASSUME NEW t, todo[x] = Only(Shop(t))
          PROVE  ~HasKind(todo[x], "mail") /\ ~HasKind(todo'[x], "mail")
      <4>1. todo'[x] = <<>>
        BY <2>1, <3>2, Parts
      <4> QED
        BY <3>2, <4>1, KindsLeft, Kinds
    <3> QED
      BY <2>2, <3>1, <3>2
  <2> QED
    BY <1>8, <2>1, <2>3 DEF Through
<1>9. CASE RecordKey(x) /\ x \in Handlers
  <2>1. todo[x] = Only(Record) /\ todo'[x] = <<>> /\ changed'[x] = changed[x]
    BY <1>1, <1>9, RecordDue DEF RecordKey, Types
  <2> QED
    BY <2>1, KindsLeft, Kinds DEF Through
<1>10. CASE AddLine(x) /\ x \in Requests
  <2>1. changed'[x] = changed[x] /\ todo[x] = Only(Line)
    BY <1>1, <1>10, LineDue DEF AddLine
  <2>2. changed[x] = "none"
    BY <1>1, <1>10, <2>1, ByHead, ChainsDiffer, HeadKinds
  <2> QED
    BY <1>4, <2>1, <2>2
<1>11. CASE x \in Requests /\ (CountSkus(x) \/ CreateInvoice(x))
  <2>1. step[x] \in Early /\ changed'[x] = changed[x]
    BY <1>11 DEF CountSkus, CreateInvoice, Doing, Early
  <2> QED
    BY <1>1, <1>4, <2>1
<1>12. ASSUME x \in Handlers, NEW k \in DOMAIN verdicts, LookUpKey(x, k)
       PROVE  step[x] \in Early /\ changed'[x] = changed[x]
  BY <1>12 DEF LookUpKey, Early
<1>13. CASE ~Acts(x)
  BY <1>3, <1>13, OnlyActors
<1> QED
  BY <1>1, <1>4, <1>5, <1>6, <1>7, <1>8, <1>9, <1>10, <1>11, <1>12, <1>13 DEF Acts

\* What was told of a product stays told, but for the request or delivery that
\* inserts a row.
LEMMA ToldStands ==
    ASSUME IInv, IInv', ChangesFit, ChangesFit', [Next]_vars, NEW x \in Procs, NEW p,
           NEW changes, "none" \notin changes, NEW kind \in {"mail", "shop"},
           Through(todo'[x], changed'[x], changes, kind) <=> Through(todo[x], changed[x], changes, kind)
    PROVE  x \in ToldChanges(changes, kind, p)' <=> x \in ToldChanges(changes, kind, p)
<1>1. /\ x \in ToldChanges(changes, kind, p) <=>
             ProductOf(x) = p /\ Through(todo[x], changed[x], changes, kind)
      /\ x \in ToldChanges(changes, kind, p)' <=>
             ProductOf(x)' = p /\ Through(todo'[x], changed'[x], changes, kind)
  BY ToldAre, ToldWillBe
<1>2. CASE changed[x] \in changes
  <2>1. step[x] # "idle"
    BY <1>2 DEF ChangesFit, Early
  <2> QED
    BY <1>1, <2>1, ProductStays
<1>3. CASE changed[x] \notin changes
  BY <1>1, <1>3 DEF Through
<1> QED
  BY <1>2, <1>3

\* A row and the change it tells come together, and others stand.
LEMMA TallyGrows ==
    ASSUME NEW S, NEW box \in Seq(S), NEW e, NEW types, NEW p, NEW told, NEW later, NEW x,
           Alike(Rows(box, types, p), told), x \notin told,
           \A y : y # x => (y \in later <=> y \in told),
           x \in later <=> e.type \in types /\ e.product = p
    PROVE  Alike(Rows(Append(box, e), types, p), later)
<1>1. CASE e.type \in types /\ e.product = p
  <2>1. later = told \cup {x}
    BY <1>1
  <2>2. /\ Rows(Append(box, e), types, p) = Rows(box, types, p) \cup {Len(box) + 1}
        /\ Len(box) + 1 \notin Rows(box, types, p)
    BY <1>1, RowGains
  <2> QED
    BY <2>1, <2>2, OneMore
<1>2. CASE ~(e.type \in types /\ e.product = p)
  <2>1. \A y : y \in later <=> y \in told
    BY <1>2
  <2>3. later = told
    BY <2>1
  <2>2. Rows(Append(box, e), types, p) = Rows(box, types, p)
    BY <1>2, RowGains
  <2> QED
    BY <2>2, <2>3
<1> QED
  BY <1>1, <1>2

\* Rows to moderation and the changes they tell grow together.
LEMMA MailTally ==
    ASSUME IInv, IInv', ChangesFit, ChangesFit', [Next]_vars, NEW p, NEW types, NEW changes,
           MailTells(types, changes),
           Alike(Rows(mail, types, p), ToldChanges(changes, "mail", p))
    PROVE  Alike(Rows(mail', types, p), ToldChanges(changes, "mail", p)')
<1>1. /\ Types /\ ChainsAreKnown /\ mail \in Seq(Messages) /\ "none" \notin changes
      /\ changes \subseteq MailChanges
  BY DEF IInv, WorkInOrder, RowsAreKnown, MailTells, MailChanges
<1>2. \A x \in ToldChanges(changes, "mail", p) : x \in Procs
  BY DEF ToldChanges
<1>3. \A x \in ToldChanges(changes, "mail", p)' : x \in Procs
  BY DEF ToldChanges
<1>4. CASE ~\E x \in Procs : PostMail(x)
  <2>1. UNCHANGED mail
    BY <1>4 DEF Next, ProductStep, vars, productVars, CreateProduct, Ask, Load, CreateSku,
           InsertImages, EditProduct, EditSku, DeleteSku, DeleteProduct, CountSkus, CreateInvoice,
           AddLine, RecordKey, LookUpKey, SetStatus, PostShop, Crash, Judge
  <2>2. \A x \in Procs : x \in ToldChanges(changes, "mail", p)' <=> x \in ToldChanges(changes, "mail", p)
    BY <1>1, <1>4, QuietSteps, ToldStands
  <2>3. ToldChanges(changes, "mail", p)' = ToldChanges(changes, "mail", p)
    BY <1>2, <1>3, <2>2
  <2> QED
    BY <2>1, <2>3
<1>5. ASSUME NEW x \in Procs, PostMail(x)
      PROVE  Alike(Rows(mail', types, p), ToldChanges(changes, "mail", p)')
  <2>1. ASSUME NEW y \in Procs, y # x
        PROVE  y \in ToldChanges(changes, "mail", p)' <=> y \in ToldChanges(changes, "mail", p)
    <3>1. todo'[y] = todo[y] /\ changed'[y] = changed[y]
      BY <1>1, <1>5, <2>1, OthersStand DEF Acts
    <3> QED
      BY <1>1, <3>1, ToldStands
  <2>2. PICK es, c, new :
           es = todo[x] /\ c = changed[x] /\ new = [type |-> Head(es).what, product |-> ProductOf(x)]
    OBVIOUS
  <2>3. /\ mail' = Append(mail, new) /\ todo'[x] = Tail(es) /\ changed'[x] = c
        /\ es # <<>> /\ Head(es).kind = "mail" /\ step[x] # "idle" /\ LeftAfter(es, c)
    BY <1>1, <1>5, <2>2 DEF PostMail, Due, Then, Types, ChainsAreKnown, ChangesFit
  <2>4. \/ es \in {Only(Mail("CREATED")), Only(Mail("EDITED"))} /\ c = "ON_MODERATION"
        \/ es = Only(Mail("DELETED")) /\ c = "CREATED"
        \/ es = Deletes /\ c = "DELETED"
    BY <2>3, ByHead
  <2>5. HasKind(es, "mail") /\ ~HasKind(Tail(es), "mail") /\ (new.type \in types <=> c \in changes)
    <3>1. CASE es = Deletes /\ c = "DELETED"
      <4>1. Tail(es) = Only(Shop("PRODUCT_DELETED")) /\ Head(es) = Mail("DELETED")
        BY <3>1, Parts
      <4>2. HasKind(es, "mail") /\ ~HasKind(Tail(es), "mail")
        BY <3>1, <4>1, KindsLeft, Kinds
      <4>3. new.type = "DELETED"
        BY <2>2, <4>1, Kinds
      <4> QED
        BY <3>1, <4>2, <4>3 DEF MailTells
    <3>2. ASSUME NEW t, es = Only(Mail(t))
          PROVE  HasKind(es, "mail") /\ ~HasKind(Tail(es), "mail") /\ new.type = t
      <4>1. Tail(es) = <<>> /\ Head(es) = Mail(t)
        BY <3>2, Parts
      <4> QED
        BY <2>2, <3>2, <4>1, KindsLeft, Kinds
    <3> QED
      BY <2>4, <3>1, <3>2 DEF MailTells
  <2>6. new.product = ProductOf(x) /\ ProductOf(x)' = ProductOf(x)
    BY <2>2, <2>3, ProductStays
  <2>7. x \notin ToldChanges(changes, "mail", p)
    BY <2>2, <2>5, ToldAre DEF Through
  <2>8. x \in ToldChanges(changes, "mail", p)' <=> new.type \in types /\ new.product = p
    <3>1. Through(todo'[x], changed'[x], changes, "mail") <=> new.type \in types
      BY <2>3, <2>5 DEF Through
    <3>2. x \in ToldChanges(changes, "mail", p)' <=>
              ProductOf(x)' = p /\ Through(todo'[x], changed'[x], changes, "mail")
      BY ToldWillBe
    <3> QED
      BY <2>6, <3>1, <3>2
  <2> QED
    BY <1>1, <1>2, <1>3, <2>1, <2>3, <2>7, <2>8, TallyGrows
<1> QED
  BY <1>4, <1>5

\* Rows to B2C and the changes they tell grow together.
LEMMA ShopTally ==
    ASSUME IInv, IInv', ChangesFit, ChangesFit', [Next]_vars, NEW p, NEW types, NEW changes,
           ShopTells(types, changes),
           Alike(Rows(shop, types, p), ToldChanges(changes, "shop", p))
    PROVE  Alike(Rows(shop', types, p), ToldChanges(changes, "shop", p)')
<1>1. /\ Types /\ ChainsAreKnown /\ shop \in Seq(Events) /\ "none" \notin changes
      /\ changes \subseteq ShopChanges
  BY DEF IInv, WorkInOrder, RowsAreKnown, ShopTells, ShopChanges
<1>2. \A x \in ToldChanges(changes, "shop", p) : x \in Procs
  BY DEF ToldChanges
<1>3. \A x \in ToldChanges(changes, "shop", p)' : x \in Procs
  BY DEF ToldChanges
<1>4. CASE ~\E x \in Procs : PostShop(x)
  <2>1. UNCHANGED shop
    BY <1>4 DEF Next, ProductStep, vars, productVars, CreateProduct, Ask, Load, CreateSku,
           InsertImages, EditProduct, EditSku, DeleteSku, DeleteProduct, CountSkus, CreateInvoice,
           AddLine, RecordKey, LookUpKey, SetStatus, PostMail, Crash, Judge
  <2>2. \A x \in Procs : x \in ToldChanges(changes, "shop", p)' <=> x \in ToldChanges(changes, "shop", p)
    BY <1>1, <1>4, QuietSteps, ToldStands
  <2>3. ToldChanges(changes, "shop", p)' = ToldChanges(changes, "shop", p)
    BY <1>2, <1>3, <2>2
  <2> QED
    BY <2>1, <2>3
<1>5. ASSUME NEW x \in Procs, PostShop(x)
      PROVE  Alike(Rows(shop', types, p), ToldChanges(changes, "shop", p)')
  <2>1. ASSUME NEW y \in Procs, y # x
        PROVE  y \in ToldChanges(changes, "shop", p)' <=> y \in ToldChanges(changes, "shop", p)
    <3>1. todo'[y] = todo[y] /\ changed'[y] = changed[y]
      BY <1>1, <1>5, <2>1, OthersStand DEF Acts
    <3> QED
      BY <1>1, <3>1, ToldStands
  <2>2. PICK es, c, new :
           es = todo[x] /\ c = changed[x] /\ new = [type |-> Head(es).what, product |-> ProductOf(x)]
    OBVIOUS
  <2>3. /\ shop' = Append(shop, new) /\ todo'[x] = Tail(es) /\ changed'[x] = c
        /\ es # <<>> /\ Head(es).kind = "shop" /\ step[x] # "idle" /\ LeftAfter(es, c)
    BY <1>1, <1>5, <2>2 DEF PostShop, Due, Then, Types, ChainsAreKnown, ChangesFit
  <2>4. \/ es = Only(Shop("SKU_OUT_OF_STOCK")) /\ c = "none"
        \/ es = Only(Shop("PRODUCT_DELETED")) /\ c = "DELETED"
        \/ es = Announces /\ c \in {"BLOCKED", "HARD_BLOCKED"}
    BY <2>3, ByHead
  <2>5. HasKind(es, "shop") /\ ~HasKind(Tail(es), "shop") /\ (new.type \in types <=> c \in changes)
    <3>1. CASE es = Announces /\ c \in {"BLOCKED", "HARD_BLOCKED"}
      <4>1. Tail(es) = Only(Record) /\ Head(es) = Shop("PRODUCT_BLOCKED")
        BY <3>1, Parts
      <4>2. HasKind(es, "shop") /\ ~HasKind(Tail(es), "shop")
        BY <3>1, <4>1, KindsLeft, Kinds
      <4>3. new.type = "PRODUCT_BLOCKED"
        BY <2>2, <4>1, Kinds
      <4> QED
        BY <3>1, <4>2, <4>3 DEF ShopTells
    <3>2. ASSUME NEW t, es = Only(Shop(t))
          PROVE  HasKind(es, "shop") /\ ~HasKind(Tail(es), "shop") /\ new.type = t
      <4>1. Tail(es) = <<>> /\ Head(es) = Shop(t)
        BY <3>2, Parts
      <4> QED
        BY <2>2, <3>2, <4>1, KindsLeft, Kinds
    <3> QED
      BY <1>1, <2>4, <3>1, <3>2 DEF ShopTells
  <2>6. new.product = ProductOf(x) /\ ProductOf(x)' = ProductOf(x)
    BY <2>2, <2>3, ProductStays
  <2>7. x \notin ToldChanges(changes, "shop", p)
    BY <2>2, <2>5, ToldAre DEF Through
  <2>8. x \in ToldChanges(changes, "shop", p)' <=> new.type \in types /\ new.product = p
    <3>1. Through(todo'[x], changed'[x], changes, "shop") <=> new.type \in types
      BY <2>3, <2>5 DEF Through
    <3>2. x \in ToldChanges(changes, "shop", p)' <=>
              ProductOf(x)' = p /\ Through(todo'[x], changed'[x], changes, "shop")
      BY ToldWillBe
    <3> QED
      BY <2>6, <3>1, <3>2
  <2> QED
    BY <1>1, <1>2, <1>3, <2>1, <2>3, <2>7, <2>8, TallyGrows
<1> QED
  BY <1>4, <1>5

AllTold ==
    \A p \in Products :
        /\ Alike(Rows(mail, {"CREATED", "EDITED"}, p), ToldChanges({"ON_MODERATION"}, "mail", p))
        /\ Alike(Rows(mail, {"DELETED"}, p), ToldChanges({"DELETED", "CREATED"}, "mail", p))
        /\ Alike(Rows(shop, {"PRODUCT_DELETED"}, p), ToldChanges({"DELETED"}, "shop", p))
        /\ Alike(Rows(shop, {"PRODUCT_BLOCKED"}, p), ToldChanges({"BLOCKED", "HARD_BLOCKED"}, "shop", p))

\* A product that goes to moderation, or back from it, is deleted or blocked,
\* is told of in one outbox row, each time: the rows about it are as many as the
\* changes, but for chains that have their row ahead of them or died before it.
THEOREM ChangesAreAlwaysTold == Spec => []ChangesAreTold
<1>1. Init => AllTold
  <2>1. ASSUME Init
        PROVE  \A box \in {mail, shop} : \A types, p : Rows(box, types, p) = {}
    BY <2>1 DEF Init, ProductInit, Rows
  <2>2. ASSUME Init, NEW changes, "none" \notin changes
        PROVE  \A kind, p : ToldChanges(changes, kind, p) = {}
    BY <2>2 DEF Init, ProductInit, ToldChanges
  <2>3. Alike({}, {})
    BY FS_EmptySet DEF Alike, SameCount
  <2> QED
    BY <2>1, <2>2, <2>3 DEF AllTold
<1>2. IInv /\ IInv' /\ ChangesFit /\ AllTold /\ [Next]_vars => ChangesFit' /\ AllTold'
  <2>1. SUFFICES ASSUME IInv, IInv', ChangesFit, AllTold, [Next]_vars
                 PROVE  ChangesFit' /\ AllTold'
    OBVIOUS
  <2>2. ChangesFit'
    BY <2>1, ChangesStayFit
  <2>3. /\ MailTells({"CREATED", "EDITED"}, {"ON_MODERATION"})
        /\ MailTells({"DELETED"}, {"DELETED", "CREATED"})
    BY DEF MailTells, MailChanges
  <2>4. /\ ShopTells({"PRODUCT_DELETED"}, {"DELETED"})
        /\ ShopTells({"PRODUCT_BLOCKED"}, {"BLOCKED", "HARD_BLOCKED"})
    BY DEF ShopTells, ShopChanges
  <2>5. ASSUME NEW p \in Products, NEW types, NEW changes, MailTells(types, changes),
               Alike(Rows(mail, types, p), ToldChanges(changes, "mail", p))
        PROVE  Alike(Rows(mail, types, p), ToldChanges(changes, "mail", p))'
    <3>1. Alike(Rows(mail', types, p), ToldChanges(changes, "mail", p)')
      BY <2>1, <2>2, <2>5, MailTally
    <3> QED
      BY <3>1 DEF Alike, SameCount, Rows
  <2>6. ASSUME NEW p \in Products, NEW types, NEW changes, ShopTells(types, changes),
               Alike(Rows(shop, types, p), ToldChanges(changes, "shop", p))
        PROVE  Alike(Rows(shop, types, p), ToldChanges(changes, "shop", p))'
    <3>1. Alike(Rows(shop', types, p), ToldChanges(changes, "shop", p)')
      BY <2>1, <2>2, <2>6, ShopTally
    <3> QED
      BY <3>1 DEF Alike, SameCount, Rows
  <2>7. ASSUME NEW p \in Products
        PROVE  /\ Alike(Rows(mail, {"CREATED", "EDITED"}, p), ToldChanges({"ON_MODERATION"}, "mail", p))'
               /\ Alike(Rows(mail, {"DELETED"}, p), ToldChanges({"DELETED", "CREATED"}, "mail", p))'
               /\ Alike(Rows(shop, {"PRODUCT_DELETED"}, p), ToldChanges({"DELETED"}, "shop", p))'
               /\ Alike(Rows(shop, {"PRODUCT_BLOCKED"}, p),
                        ToldChanges({"BLOCKED", "HARD_BLOCKED"}, "shop", p))'
    BY <2>1, <2>3, <2>4, <2>5, <2>6 DEF AllTold
  <2> QED
    BY <2>2, <2>7 DEF AllTold
<1>3. AllTold => ChangesAreTold
  BY DEF AllTold, Alike, ChangesAreTold
<1> QED
  BY <1>1, <1>2, <1>3, AlwaysIInv, InitChangesFit, PTL DEF Spec

-----------------------------------------------------------------------------
(* Second submissions. *)

LEMMA LaterStays ==
    ASSUME IInv, [Next]_vars, NEW r \in Requests, step[r] \in Later, job[r].op # "create_invoice"
    PROVE  step'[r] \in Later /\ (step[r] = "done" => step'[r] = "done")
<1>1. Types /\ ChainsAreKnown /\ ChainsFitJobs /\ Requests \subseteq Procs
  BY DEF IInv, WorkInOrder, Procs
<1>2. CASE UNCHANGED step
  BY <1>2
<1>3. ASSUME NEW q \in Requests, Ask(q) \/ CreateSku(q) \/ EditProduct(q) \/ EditSku(q) \/ DeleteSku(q)
      PROVE  step'[r] = step[r]
  <2>1. step[q] \in {"idle", "loaded"} /\ \E to : Go(q, to)
    BY <1>3 DEF Ask, Load, CreateSku, EditProduct, EditSku, DeleteSku, Doing
  <2> QED
    BY <2>1 DEF Later, Go
<1>11. ASSUME NEW q \in Requests, InsertImages(q)
       PROVE  step'[r] \in Later /\ (step[r] = "done" => step'[r] = "done")
  BY <1>1, <1>11 DEF InsertImages, Later, Go, Types
<1>4. ASSUME NEW q \in Requests, DeleteProduct(q) \/ CountSkus(q) \/ CreateInvoice(q)
      PROVE  step'[r] \in Later /\ (step[r] = "done" => step'[r] = "done")
  <2>1. step[q] \in {"loaded", "written"} /\ \E es : Then(q, es)
    BY <1>4 DEF DeleteProduct, CountSkus, CreateInvoice, Doing
  <2> QED
    BY <1>1, <2>1 DEF Later, Then, Go, Types
<1>5. ASSUME NEW q \in Requests, AddLine(q)
      PROVE  step'[r] = step[r]
  <2>1. job[q].op = "create_invoice"
    BY <1>1, <1>5, LineDue DEF AddLine, ChainsFitJobs, Fits
  <2>2. \E to : Go(q, to)
    BY <1>5 DEF AddLine, Then
  <2> QED
    BY <2>1, <2>2 DEF Go
<1>6. ASSUME NEW h \in Handlers, RecordKey(h) \/ \E k \in DOMAIN verdicts : LookUpKey(h, k)
      PROVE  step'[r] = step[r]
  <2>1. h # r /\ \E to : Go(h, to)
    BY <1>6, LifecycleAssumption DEF RecordKey, LookUpKey, Then
  <2> QED
    BY <2>1 DEF Go
<1>7. ASSUME NEW x \in Procs, SetStatus(x) \/ PostMail(x) \/ PostShop(x)
      PROVE  step'[r] \in Later /\ (step[r] = "done" => step'[r] = "done")
  <2>1. step[x] = "effects" /\ \E es : Then(x, es)
    BY <1>7 DEF SetStatus, PostMail, PostShop, Due
  <2> QED
    BY <1>1, <2>1 DEF Later, Then, Go, Types
<1>8. ASSUME NEW x \in Procs, Crash(x)
      PROVE  step'[r] \in Later /\ (step[r] = "done" => step'[r] = "done")
  BY <1>1, <1>8 DEF Crash, Later, Go, Types
<1>9. CASE (\E p \in Products : CreateProduct(p)) \/ \E p \in Products, d \in Decisions : Judge(p, d)
  <2>1. UNCHANGED step
    BY <1>9 DEF CreateProduct, Judge, productVars
  <2> QED
    BY <1>2, <2>1
<1>10. CASE UNCHANGED vars
  <2>1. UNCHANGED step
    BY <1>10 DEF vars, productVars
  <2> QED
    BY <1>2, <2>1
<1> QED
  BY <1>3, <1>4, <1>5, <1>6, <1>7, <1>8, <1>9, <1>10, <1>11 DEF Next, ProductStep

LEMMA GoneForGood ==
    ASSUME IInv, [Next]_vars, NEW p \in Products, NEW r \in Requests, r \notin skus[p], step[r] \in Later
    PROVE  r \notin skus'[p]
<1>1. Types
  BY DEF IInv
<1>2. CASE UNCHANGED skus
  BY <1>2
<1>3. ASSUME NEW q \in Requests, CreateSku(q)
      PROVE  r \notin skus'[p]
  BY <1>1, <1>3 DEF CreateSku, Doing, Later, Types
<1>4. ASSUME NEW q \in Requests, DeleteSku(q)
      PROVE  r \notin skus'[p]
  BY <1>1, <1>4 DEF DeleteSku, Types
<1>5. (\E q \in Requests : CreateSku(q) \/ DeleteSku(q)) \/ UNCHANGED skus
  BY DEF Next, ProductStep, vars, productVars, CreateProduct, Ask, Load, InsertImages, EditProduct,
         EditSku, DeleteProduct, CountSkus, CreateInvoice, AddLine, RecordKey, LookUpKey,
         SetStatus, PostMail, PostShop, Crash, Judge
<1> QED
  BY <1>2, <1>3, <1>4, <1>5

LEMMA MakersStay ==
    ASSUME IInv, [Next]_vars, NEW p, NEW r \in Requests, Maker(r, p)
    PROVE  Maker(r, p)' /\ (step[r] = "done" => step'[r] = "done")
<1>1. job'[r] = job[r]
  BY JobStays DEF Maker, Later
<1> QED
  BY <1>1, LaterStays DEF Maker

LEMMA LossStays ==
    ASSUME IInv, [Next]_vars, NEW p \in Products, Lost(p)
    PROVE  Lost(p)'
<1>1. PICK r \in Requests : Maker(r, p) /\ r \notin skus[p]
  BY DEF Lost
<1>2. Maker(r, p)' /\ r \notin skus'[p]
  BY <1>1, MakersStay, GoneForGood DEF Maker
<1> QED
  BY <1>2 DEF Lost

\* Who is about to submit a product made a SKU of it.
LEMMA SubmittersAreMakers ==
    ASSUME IInv, NEW p, NEW r \in Requests, Submitter(r, p)
    PROVE  Maker(r, p) /\ step[r] \in {"effects", "crashed"}
<1>1. ChainsAreKnown /\ ChainsFitJobs /\ r \in Procs
  BY DEF IInv, WorkInOrder, Procs
<1>2. todo[r] \notin {<<>>, Only(Line)}
  BY ChainsDiffer DEF Submitter
<1>3. step[r] \in {"effects", "crashed"}
  BY <1>1, <1>2 DEF ChainsAreKnown
<1> QED
  BY <1>1, <1>3 DEF Submitter, Maker, Later, ChainsFitJobs, Fits

\* If a product has one SKU, but two made one, a SKU is gone.
LEMMA TwoMadeOneLeft ==
    ASSUME IInv, NEW p \in Products, IsFirstSku(p),
           NEW r \in Requests, NEW q \in Requests, r # q, Maker(r, p), Maker(q, p)
    PROVE  Lost(p)
<1>1. IsFiniteSet(skus[p])
  BY DEF IInv, WorkInOrder, SkusAreMade
<1>2. PICK y : skus[p] = {y}
  BY <1>1, FS_Singleton DEF IsFirstSku
<1> QED
  BY <1>2 DEF Lost

LEMMA NewSubmitter ==
    ASSUME IInv, [Next]_vars, NEW p, NEW r \in Requests, Submitter(r, p)'
    PROVE  Submitter(r, p) \/ (Maker(r, p) /\ step[r] = "written" /\ IsFirstSku(p))
<1>1. Types /\ ChainsAreKnown /\ r \in Procs
  BY DEF IInv, WorkInOrder, Procs
<1>2. CASE todo[r] # <<>>
  <2>1. job'[r] = job[r]
    BY <1>1, <1>2, JobStays DEF ChainsAreKnown
  <2>2. todo[r] \in Submitting
    BY <1>1, <1>2, Progress, Rests DEF Submitter, ChainsAreKnown
  <2> QED
    BY <2>1, <2>2 DEF Submitter
<1>3. CASE todo[r] = <<>>
  <2>1. todo'[r] \in Submitting /\ todo'[r] # todo[r]
    BY <1>3, ChainsDiffer DEF Submitter
  <2>2. DeleteProduct(r) \/ CountSkus(r) \/ CreateInvoice(r)
    BY <1>1, <1>3, <2>1, ChainStarts, LifecycleAssumption
  <2>3. CASE CountSkus(r)
    <3>1. job' = job /\ step[r] = "written"
      BY <2>3 DEF CountSkus
    <3>2. Then(r, Submission(r))
      <4>1. ASSUME NEW stocked \in BOOLEAN, Then(r, Withdrawal(r, stocked))
            PROVE  FALSE
        <5>1. todo'[r] = Withdrawal(r, stocked)
          BY <1>1, <4>1 DEF Then, Types
        <5>2. Withdrawal(r, stocked) \notin Submitting
          BY WithdrawalChains, ChainsDiffer
        <5> QED
          BY <2>1, <5>1, <5>2
      <4> QED
        BY <2>3, <4>1 DEF CountSkus
    <3>3. todo'[r] = Submission(r)
      BY <1>1, <3>2 DEF Then, Types
    <3>4. Submission(r) = Submits("CREATED")
      BY <2>1, <3>3, SubmissionChains, ChainsDiffer
    <3> QED
      BY <3>1, <3>4, SubmissionChains DEF Maker, Later, Submitter
  <2>4. CASE DeleteProduct(r)
    BY <1>1, <2>1, <2>4, ChainsDiffer DEF DeleteProduct, Deletes, Then, Types
  <2>5. CASE CreateInvoice(r)
    BY <1>1, <2>1, <2>5, ChainsDiffer DEF CreateInvoice, Only, Then, Types
  <2> QED
    BY <2>2, <2>3, <2>4, <2>5
<1> QED
  BY <1>2, <1>3

LEMMA NewSubmission ==
    ASSUME IInv, [Next]_vars, NEW p, NEW i \in Submissions(p)', i \notin Submissions(p)
    PROVE  /\ i = Len(mail) + 1
           /\ \E x \in Requests : Submitter(x, p) /\ todo'[x] = <<>> /\ step'[x] = "done"
<1>1. Types /\ RowsAreKnown /\ ChainsAreKnown /\ Requests \subseteq Procs
  BY DEF IInv, WorkInOrder, Procs
<1>2. mail[i] = [type |-> "CREATED", product |-> p] => i \notin DOMAIN mail
  BY DEF Submissions
<1>3. i \in DOMAIN mail' /\ mail'[i] = [type |-> "CREATED", product |-> p]
  BY DEF Submissions
<1>4. PICK x \in Procs : PostMail(x)
  <2>1. (\E x \in Procs : PostMail(x)) \/ UNCHANGED mail
    BY DEF Next, ProductStep, vars, productVars, CreateProduct, Ask, Load, CreateSku, InsertImages,
           EditProduct, EditSku, DeleteSku, DeleteProduct, CountSkus, CreateInvoice, AddLine, RecordKey,
           LookUpKey, SetStatus, PostShop, Crash, Judge
  <2> QED
    BY <1>2, <1>3, <2>1
<1> DEFINE new == [type |-> Head(todo[x]).what, product |-> ProductOf(x)]
<1>5. i = Len(mail) + 1 /\ new = [type |-> "CREATED", product |-> p]
  <2>1. mail' = Append(mail, new) /\ mail \in Seq(Messages)
    BY <1>1, <1>4 DEF PostMail, RowsAreKnown
  <2> HIDE DEF new
  <2> QED
    BY <1>2, <1>3, <2>1
<1>6. Head(todo[x]).what = "CREATED" /\ ProductOf(x) = p
  BY <1>5
<1>7. /\ x \in Requests
      /\ todo[x] \in {Deletes, Only(Mail("CREATED")), Only(Mail("EDITED")), Only(Mail("DELETED"))}
  BY <1>1, <1>4, MailDue DEF PostMail
<1>8. todo[x] = Only(Mail("CREATED"))
  BY <1>6, <1>7, Parts, Kinds
<1>9. Then(x, <<>>)
  BY <1>4, <1>8, Parts DEF PostMail
<1>10. todo'[x] = <<>> /\ step'[x] = "done"
  BY <1>1, <1>7, <1>9 DEF Then, Go, Types
<1> QED
  BY <1>5, <1>6, <1>7, <1>8, <1>10 DEF Submitter, Submitting, ProductOf

LEMMA FewStep ==
    ASSUME IInv, [Next]_vars, NEW p \in Products, Few(p)
    PROVE  Few(p)'
<1>1. Lost(p) => Lost(p)'
  BY LossStays
<1>2. ASSUME NEW r \in Requests, NEW q \in Requests, r # q, Submitter(r, p)', Submitter(q, p)'
      PROVE  Lost(p)
  BY <1>2, NewSubmitter, SubmittersAreMakers, TwoMadeOneLeft DEF Few
<1>3. ASSUME NEW r \in Requests, Submitter(r, p)', NEW i \in Submissions(p)'
      PROVE  Lost(p)
  <2>1. CASE i \in Submissions(p)
    <3>1. PICK q \in Requests : Maker(q, p) /\ step[q] = "done"
      BY <2>1 DEF Few
    <3>2. CASE Submitter(r, p)
      BY <2>1, <3>2 DEF Few
    <3>3. CASE Maker(r, p) /\ step[r] = "written" /\ IsFirstSku(p)
      BY <3>1, <3>3, TwoMadeOneLeft
    <3> QED
      BY <1>3, <3>2, <3>3, NewSubmitter
  <2>2. CASE i \notin Submissions(p)
    <3>1. PICK x \in Requests : Submitter(x, p) /\ todo'[x] = <<>>
      BY <2>2, NewSubmission
    <3>2. x # r
      BY <1>3, <3>1, ChainsDiffer DEF Submitter
    <3> QED
      BY <1>3, <3>1, <3>2, NewSubmitter, SubmittersAreMakers, TwoMadeOneLeft DEF Few
  <2> QED
    BY <2>1, <2>2
<1>4. ASSUME NEW i \in Submissions(p)', NEW j \in Submissions(p)', i # j
      PROVE  Lost(p)
  BY <1>4, NewSubmission DEF Few
<1>5. ASSUME NEW i \in Submissions(p)'
      PROVE  \E r \in Requests : Maker(r, p)' /\ step'[r] = "done"
  <2>1. CASE i \in Submissions(p)
    BY <2>1, MakersStay DEF Few
  <2>2. CASE i \notin Submissions(p)
    <3>1. PICK x \in Requests : Submitter(x, p) /\ step'[x] = "done"
      BY <2>2, NewSubmission
    <3> QED
      BY <3>1, SubmittersAreMakers, MakersStay
  <2> QED
    BY <2>1, <2>2
<1> QED
  BY <1>1, <1>2, <1>3, <1>4, <1>5 DEF Few

\* create_sku.py: however many first SKUs are created at once, moderation gets
\* a second submission of a product only after a SKU of it was deleted.
THEOREM SecondSubmissionsFollowDeletes == Spec => []SecondSubmissionAfterDelete
<1> DEFINE AllFew == \A p \in Products : Few(p)
<1>1. Init => AllFew
  BY ChainsDiffer DEF Init, ProductInit, Few, Submissions, Submitter, Procs
<1>2. IInv /\ AllFew /\ [Next]_vars => AllFew'
  BY FewStep
<1>3. ASSUME IInv, AllFew
      PROVE  SecondSubmissionAfterDelete
  <2>1. SUFFICES ASSUME NEW p \in Products, Cardinality(Submissions(p)) > 1
                 PROVE  Lost(p)
    BY DEF SecondSubmissionAfterDelete, Lost, Maker, Later
  <2>2. IsFiniteSet(Submissions(p))
    <3>1. IsFiniteSet(1 .. Len(mail)) /\ Submissions(p) \subseteq 1 .. Len(mail)
      BY <1>3, FS_Interval DEF IInv, RowsAreKnown, Submissions
    <3> QED
      BY <3>1, FS_Subset
  <2>3. Submissions(p) # {} /\ \A i : Submissions(p) # {i}
    BY <2>1, <2>2, FS_EmptySet, FS_Singleton
  <2>4. PICK i \in Submissions(p), j \in Submissions(p) : i # j
    BY <2>3
  <2> QED
    BY <1>3, <2>4 DEF Few
<1> HIDE DEF AllFew
<1> QED
  BY <1>1, <1>2, <1>3, AlwaysIInv, PTL DEF Spec

-----------------------------------------------------------------------------
(* Steps of the moderation service. *)

\* The ticket of p gets the status s, and no other changes.
Marks(p, s) ==
    /\ ticket' \in [Products -> [status : T!Statuses, owner : Moderators \cup {Nobody}]]
    /\ p \in Products /\ s # "none" /\ ticket'[p].status = s
    /\ \A q \in Products \ {p} : ticket'[q] = ticket[q]

LEMMA Marking ==
    ASSUME TicketTypes, NEW p \in Products, NEW s \in T!Statuses \ {"none"},
           NEW o \in Moderators \cup {Nobody},
           ticket' = [ticket EXCEPT ![p] = [status |-> s, owner |-> o]]
    PROVE  Marks(p, s)
BY DEF TicketTypes, Marks

\* What a ticket may become: it stays, and is made or archived as a row of B2B says.
TicketsKept ==
    /\ ticket' \in [Products -> [status : T!Statuses, owner : Moderators \cup {Nobody}]]
    /\ \A q \in Products :
          /\ ticket[q].status # "none" => ticket'[q].status # "none"
          /\ ticket'[q].status # "none" => ticket[q].status # "none" \/ Posted(mail, "CREATED", q)
          /\ ticket'[q].status = "ARCHIVED" =>
                ticket[q].status = "ARCHIVED" \/ Posted(mail, "DELETED", q)

LEMMA NoMarkKeeps ==
    ASSUME TicketTypes, UNCHANGED ticket
    PROVE  TicketsKept
BY DEF TicketTypes, TicketsKept

LEMMA MarksKeep ==
    ASSUME TicketTypes, NEW p, NEW s, Marks(p, s),
           ticket[p].status # "none" \/ Posted(mail, "CREATED", p),
           s = "ARCHIVED" => Posted(mail, "DELETED", p)
    PROVE  TicketsKept
BY DEF TicketTypes, TicketsKept, Marks

LEMMA KeptTicketsFollow ==
    ASSUME TInv, TicketsKept, UNCHANGED mail
    PROVE  TicketsFollowMail'
BY DEF TInv, TicketsKept, TicketsFollowMail, Posted

LEMMA VerdictRows ==
    ASSUME TicketTypes
    PROVE  /\ verdicts \in Seq(T!Verdicts)
           /\ \A i \in DOMAIN verdicts : verdicts[i].by \in ModeratorRequests
<1>1. verdicts \in Seq(T!Verdicts)
  BY DEF TicketTypes
<1>2. \A i \in DOMAIN verdicts : verdicts[i] \in T!Verdicts
  BY <1>1
<1>3. \A v \in T!Verdicts : v.by \in ModeratorRequests
  BY DEF T!Verdicts
<1> QED
  BY <1>1, <1>2, <1>3

\* A delivery's step.
LEMMA DeliverySteps ==
    ASSUME TInv, NEW d \in Deliveries, NEW to \in T!Steps, T!Go(d, to), TicketsKept,
           UNCHANGED <<mail, tJob, verdicts>>, queue' \in Seq(Products),
           handling' \in [Deliveries -> Nat], handling'[d] \in DOMAIN mail,
           \A e \in Deliveries \ {d} : handling'[e] = handling[e],
           tSeen' \in [T!Procs -> T!Statuses], \A x \in T!Procs \ {d} : tSeen'[x] = tSeen[x],
           to = "read" =>
               mail[handling'[d]].product \in Products /\ ticket'[mail[handling'[d]].product].status # "none"
    PROVE  TInv'
<1>1. TicketTypes /\ TicketsAreRead /\ VerdictsWereReviewed
  BY DEF TInv
<1>2. d \in T!Procs /\ ModeratorRequests \subseteq T!Procs /\ Deliveries \subseteq T!Procs
      /\ d \notin ModeratorRequests
  BY ModerationAssumption DEF T!Procs
<1>3. /\ tStep' \in [T!Procs -> T!Steps] /\ tStep'[d] = to
      /\ \A x \in T!Procs \ {d} : tStep'[x] = tStep[x]
  BY <1>1, <1>2 DEF T!Go, TicketTypes
<1>4. TicketTypes'
  BY <1>1, <1>2, <1>3 DEF TicketTypes, TicketsKept
<1>5. TicketsAreRead'
  <2>1. ASSUME NEW r \in ModeratorRequests
        PROVE  /\ tStep'[r] \in {"selected", "read", "checked"} => HasTicket(tJob[r].on)'
               /\ tStep'[r] \in {"read", "checked"} => tSeen'[r] = "IN_REVIEW"
               /\ tStep'[r] = "checked" => tJob'[r].op \in DOMAIN T!Decisions
    BY <1>1, <1>2, <1>3 DEF TicketsAreRead, HasTicket, TicketsKept
  <2>2. ASSUME NEW e \in Deliveries, tStep'[e] = "read"
        PROVE  HasTicket(T!ProductOf(e))'
    <3>1. CASE e = d
      BY <1>3, <2>2, <3>1 DEF HasTicket, T!ProductOf
    <3>2. CASE e # d
      BY <1>1, <1>2, <1>3, <2>2, <3>2 DEF TicketsAreRead, HasTicket, T!ProductOf, TicketsKept
    <3> QED
      BY <3>1, <3>2
  <2> QED
    BY <2>1, <2>2 DEF TicketsAreRead
<1>6. VerdictsWereReviewed'
  <2>1. \A i \in DOMAIN verdicts : verdicts[i].by \in ModeratorRequests
    BY <1>1, VerdictRows
  <2> QED
    BY <1>1, <1>2, <1>3, <2>1 DEF VerdictsWereReviewed
<1>7. TicketsFollowMail'
  BY KeptTicketsFollow
<1> QED
  BY <1>4, <1>5, <1>6, <1>7 DEF TInv

\* A request's step, that may make a verdict.
LEMMA RequestSteps ==
    ASSUME TInv, NEW r \in ModeratorRequests, NEW to \in T!Steps, T!Go(r, to), TicketsKept,
           tStep[r] # "done", UNCHANGED <<mail, queue, handling>>,
           tJob' \in [ModeratorRequests -> T!Jobs],
           \A q \in ModeratorRequests \ {r} : tJob'[q] = tJob[q],
           tSeen' \in [T!Procs -> T!Statuses], \A x \in T!Procs \ {r} : tSeen'[x] = tSeen[x],
           \/ UNCHANGED verdicts
           \/ /\ \E v \in T!Verdicts : verdicts' = Append(verdicts, v) /\ v.by = r
              /\ to = "done" /\ tSeen'[r] = "IN_REVIEW",
           to \in {"selected", "read", "checked"} =>
               tJob'[r].on \in Products /\ ticket'[tJob'[r].on].status # "none",
           to \in {"read", "checked"} => tSeen'[r] = "IN_REVIEW",
           to = "checked" => tJob'[r].op \in DOMAIN T!Decisions
    PROVE  TInv'
<1>1. TicketTypes /\ TicketsAreRead /\ VerdictsWereReviewed
  BY DEF TInv
<1>2. r \in T!Procs /\ ModeratorRequests \subseteq T!Procs /\ Deliveries \subseteq T!Procs
      /\ r \notin Deliveries
  BY ModerationAssumption DEF T!Procs
<1>3. /\ tStep' \in [T!Procs -> T!Steps] /\ tStep'[r] = to
      /\ \A x \in T!Procs \ {r} : tStep'[x] = tStep[x]
  BY <1>1, <1>2 DEF T!Go, TicketTypes
<1>4. verdicts \in Seq(T!Verdicts) /\ verdicts' \in Seq(T!Verdicts)
  BY <1>1, VerdictRows
<1>5. TicketTypes'
  BY <1>1, <1>2, <1>3, <1>4 DEF TicketTypes, TicketsKept
<1>6. TicketsAreRead'
  <2>1. ASSUME NEW q \in ModeratorRequests
        PROVE  /\ tStep'[q] \in {"selected", "read", "checked"} => HasTicket(tJob[q].on)'
               /\ tStep'[q] \in {"read", "checked"} => tSeen'[q] = "IN_REVIEW"
               /\ tStep'[q] = "checked" => tJob'[q].op \in DOMAIN T!Decisions
    <3>1. CASE q = r
      BY <1>3, <3>1 DEF HasTicket
    <3>2. CASE q # r
      BY <1>1, <1>2, <1>3, <3>2 DEF TicketsAreRead, HasTicket, TicketsKept
    <3> QED
      BY <3>1, <3>2
  <2>2. ASSUME NEW e \in Deliveries, tStep'[e] = "read"
        PROVE  HasTicket(T!ProductOf(e))'
    BY <1>1, <1>2, <1>3, <2>2 DEF TicketsAreRead, HasTicket, T!ProductOf, TicketsKept
  <2> QED
    BY <2>1, <2>2 DEF TicketsAreRead
<1>7. VerdictsWereReviewed'
  <2>1. ASSUME NEW i \in DOMAIN verdicts
        PROVE  tStep'[verdicts[i].by] = "done" /\ tSeen'[verdicts[i].by] = "IN_REVIEW"
    <3>1. verdicts[i].by \in ModeratorRequests \ {r}
      BY <1>1, <2>1, VerdictRows DEF VerdictsWereReviewed
    <3> QED
      BY <1>1, <1>2, <1>3, <2>1, <3>1 DEF VerdictsWereReviewed
  <2>2. CASE UNCHANGED verdicts
    BY <2>1, <2>2 DEF VerdictsWereReviewed
  <2>3. ASSUME NEW v \in T!Verdicts, verdicts' = Append(verdicts, v), v.by = r,
               to = "done", tSeen'[r] = "IN_REVIEW"
        PROVE  VerdictsWereReviewed'
    <3>1. ASSUME NEW i \in DOMAIN verdicts', i \notin DOMAIN verdicts
          PROVE  verdicts'[i] = v
      BY <1>4, <2>3, <3>1
    <3>2. ASSUME NEW i \in DOMAIN verdicts
          PROVE  verdicts'[i] = verdicts[i]
      BY <1>4, <2>3, <3>2
    <3> QED
      BY <1>3, <2>1, <2>3, <3>1, <3>2 DEF VerdictsWereReviewed
  <2> QED
    BY <2>2, <2>3
<1>8. TicketsFollowMail'
  BY KeptTicketsFollow
<1> QED
  BY <1>5, <1>6, <1>7, <1>8 DEF TInv

LEMMA DeliverKeeps ==
    ASSUME TInv, mail \in Seq(Messages), NEW d \in Deliveries, T!Deliver(d)
    PROVE  TInv' /\ UNCHANGED verdicts
<1>1. TicketTypes /\ TicketsAreRead /\ d \in T!Procs
  BY DEF TInv, T!Procs
<1>2. ASSUME NEW k \in DOMAIN mail, T!RecordKey(d, k)
      PROVE  TInv' /\ UNCHANGED verdicts
  <2>1. PICK to \in {"duplicate", "recorded"} : T!Go(d, to)
    BY <1>2 DEF T!RecordKey
  <2>2. to \in T!Steps /\ to # "read"
    BY <2>1 DEF T!Steps
  <2>3. k \in Nat
    OBVIOUS
  <2>4. /\ handling' \in [Deliveries -> Nat] /\ handling'[d] = k
        /\ \A e \in Deliveries \ {d} : handling'[e] = handling[e]
    BY <1>1, <1>2, <2>3 DEF T!RecordKey, TicketTypes
  <2>5. TicketsKept
    BY <1>1, <1>2, NoMarkKeeps DEF T!RecordKey
  <2>6. /\ UNCHANGED <<mail, tJob, verdicts>> /\ queue' \in Seq(Products)
        /\ tSeen' \in [T!Procs -> T!Statuses] /\ \A x \in T!Procs \ {d} : tSeen'[x] = tSeen[x]
    BY <1>1, <1>2 DEF T!RecordKey, TicketTypes
  <2> QED
    BY <2>1, <2>2, <2>4, <2>5, <2>6, DeliverySteps
<1>3. ASSUME tStep[d] \in {"recorded", "read"}
      PROVE  /\ handling[d] \in DOMAIN mail
             /\ T!ProductOf(d) \in Products
             /\ T!ProductOf(d) = mail[handling[d]].product
             /\ Posted(mail, T!TypeOf(d), T!ProductOf(d))
  <2>1. handling[d] \in DOMAIN mail
    BY <1>1, <1>3 DEF TicketTypes
  <2>2. mail[handling[d]] \in Messages
    BY <2>1
  <2> QED
    BY <2>1, <2>2 DEF T!ProductOf, T!TypeOf, Messages, Posted
<1>4. ASSUME NEW to \in T!Steps, T!Go(d, to), tStep[d] \in {"recorded", "read"}, TicketsKept,
             UNCHANGED <<mail, tJob, verdicts, handling>>, queue' \in Seq(Products),
             tSeen' \in [T!Procs -> T!Statuses], \A x \in T!Procs \ {d} : tSeen'[x] = tSeen[x],
             to = "read" => ticket[T!ProductOf(d)].status # "none"
      PROVE  TInv' /\ UNCHANGED verdicts
  <2>1. handling' \in [Deliveries -> Nat] /\ handling' = handling
    BY <1>1, <1>4 DEF TicketTypes
  <2>2. handling[d] \in DOMAIN mail
    BY <1>3, <1>4
  <2>3. to = "read" =>
            mail[handling[d]].product \in Products /\ ticket'[mail[handling[d]].product].status # "none"
    BY <1>3, <1>4 DEF TicketsKept
  <2> QED
    BY <1>4, <2>1, <2>2, <2>3, DeliverySteps
<1>5. CASE T!OnCreated(d)
  <2>1. /\ tStep[d] = "recorded" /\ T!TypeOf(d) = "CREATED"
        /\ UNCHANGED <<mail, tJob, verdicts, handling, tSeen>>
    BY <1>5 DEF T!OnCreated
  <2>2. PICK p : p = T!ProductOf(d)
    OBVIOUS
  <2>3. p \in Products /\ Posted(mail, "CREATED", p)
    BY <1>3, <2>1, <2>2
  <2>4. CASE ticket[p].status = "none"
    <3>1. /\ ticket' = [ticket EXCEPT ![p].status = "PENDING"]
          /\ queue' = Append(queue, p) /\ T!Go(d, "done")
      BY <1>5, <2>2, <2>4 DEF T!OnCreated
    <3>2. Marks(p, "PENDING")
      BY <1>1, <2>3, <3>1 DEF TicketTypes, Marks, T!Statuses
    <3>3. TicketsKept
      BY <1>1, <2>3, <3>2, MarksKeep
    <3>4. queue' \in Seq(Products)
      BY <1>1, <2>3, <3>1 DEF TicketTypes
    <3> QED
      BY <1>1, <1>4, <2>1, <3>1, <3>3, <3>4 DEF T!Steps, TicketTypes
  <2>5. CASE ticket[p].status # "none"
    <3>1. T!Go(d, "failed") /\ UNCHANGED <<ticket, queue>>
      BY <1>5, <2>2, <2>5 DEF T!OnCreated
    <3>2. TicketsKept
      BY <1>1, <3>1, NoMarkKeeps
    <3> QED
      BY <1>1, <1>4, <2>1, <3>1, <3>2 DEF T!Steps, TicketTypes
  <2> QED
    BY <2>4, <2>5
<1>6. CASE T!ReadForEdit(d)
  <2>1. tStep[d] = "recorded" /\ UNCHANGED <<mail, ticket, queue, handling, tJob, verdicts>>
    BY <1>6 DEF T!ReadForEdit
  <2>2. PICK p : p = T!ProductOf(d)
    OBVIOUS
  <2>3. p \in Products /\ ticket[p].status \in T!Statuses
    BY <1>1, <1>3, <2>1, <2>2 DEF TicketTypes
  <2>4. tSeen' \in [T!Procs -> T!Statuses] /\ \A x \in T!Procs \ {d} : tSeen'[x] = tSeen[x]
    BY <1>1, <1>6, <2>2, <2>3 DEF T!ReadForEdit, TicketTypes
  <2>5. PICK to \in {"failed", "done", "read"} :
            T!Go(d, to) /\ (to = "read" => ticket[p].status # "none")
    BY <1>6, <2>2 DEF T!ReadForEdit
  <2>6. TicketsKept /\ to \in T!Steps
    BY <1>1, <2>1, NoMarkKeeps DEF T!Steps
  <2> QED
    BY <1>1, <1>4, <2>1, <2>2, <2>4, <2>5, <2>6 DEF TicketTypes
<1>7. CASE T!ResetTicket(d)
  <2>1. /\ tStep[d] = "read" /\ UNCHANGED <<mail, queue, handling, tJob, tSeen, verdicts>>
        /\ T!Go(d, "done") /\ T!Write(T!ProductOf(d), "PENDING", Nobody)
    BY <1>7 DEF T!ResetTicket
  <2>2. PICK p : p = T!ProductOf(d)
    OBVIOUS
  <2>3. p \in Products /\ ticket[p].status # "none"
    BY <1>1, <2>1, <2>2 DEF TicketsAreRead, HasTicket
  <2>4. Marks(p, "PENDING")
    BY <1>1, <2>1, <2>2, <2>3, Marking DEF T!Write, T!Statuses
  <2>5. TicketsKept
    BY <1>1, <2>3, <2>4, MarksKeep
  <2> QED
    BY <1>1, <1>4, <2>1, <2>5 DEF T!Steps, TicketTypes
<1>8. CASE T!OnDeleted(d)
  <2>1. /\ tStep[d] = "recorded" /\ T!TypeOf(d) = "DELETED" /\ T!Go(d, "done")
        /\ UNCHANGED <<mail, queue, handling, tJob, tSeen, verdicts>>
    BY <1>8 DEF T!OnDeleted
  <2>2. PICK p : p = T!ProductOf(d)
    OBVIOUS
  <2>3. p \in Products /\ Posted(mail, "DELETED", p)
    BY <1>3, <2>1, <2>2
  <2>4. TicketsKept
    <3>1. CASE UNCHANGED ticket
      BY <1>1, <3>1, NoMarkKeeps
    <3>2. CASE T!Write(p, "ARCHIVED", ticket[p].owner) /\ ticket[p].status # "none"
      <4>1. ticket[p].owner \in Moderators \cup {Nobody}
        BY <1>1, <2>3 DEF TicketTypes
      <4>2. Marks(p, "ARCHIVED")
        BY <1>1, <2>3, <3>2, <4>1, Marking DEF T!Write, T!Statuses
      <4> QED
        BY <1>1, <2>3, <3>2, <4>2, MarksKeep
    <3> QED
      BY <1>8, <2>2, <3>1, <3>2 DEF T!OnDeleted
  <2> QED
    BY <1>1, <1>4, <2>1, <2>4 DEF T!Steps, TicketTypes
<1> QED
  BY <1>2, <1>5, <1>6, <1>7, <1>8 DEF T!Deliver

\* A step that leaves tickets alone.
LEMMA QuietRequest ==
    ASSUME TInv, NEW r \in ModeratorRequests, NEW to \in T!Steps, T!Go(r, to), tStep[r] # "done",
           UNCHANGED <<mail, ticket, queue, handling, verdicts, tJob, tSeen>>,
           to = "selected" => tStep[r] = "selected",
           to \in {"read", "checked"} => tStep[r] \in {"read", "checked"},
           to = "checked" => tJob[r].op \in DOMAIN T!Decisions
    PROVE  TInv'
<1>1. TicketTypes /\ TicketsAreRead
  BY DEF TInv
<1>2. TicketsKept /\ tJob' \in [ModeratorRequests -> T!Jobs] /\ tSeen' \in [T!Procs -> T!Statuses]
  BY <1>1, NoMarkKeeps DEF TicketTypes
<1>3. /\ to \in {"selected", "read", "checked"} =>
            tJob'[r].on \in Products /\ ticket'[tJob'[r].on].status # "none"
      /\ to \in {"read", "checked"} => tSeen'[r] = "IN_REVIEW"
  BY <1>1 DEF TicketsAreRead, HasTicket
<1> QED
  BY <1>2, <1>3, RequestSteps

\* A step that ends a request by writing its ticket.
LEMMA WritingRequest ==
    ASSUME TInv, NEW r \in ModeratorRequests, tStep[r] \in {"selected", "read", "checked"},
           T!Go(r, "done"), UNCHANGED <<mail, queue, handling, tJob, tSeen>>,
           NEW s \in T!Statuses \ {"none", "ARCHIVED"}, NEW o \in Moderators \cup {Nobody},
           ticket' = [ticket EXCEPT ![tJob[r].on] = [status |-> s, owner |-> o]],
           \/ UNCHANGED verdicts
           \/ /\ \E v \in T!Verdicts : verdicts' = Append(verdicts, v) /\ v.by = r
              /\ tStep[r] = "checked"
    PROVE  TInv'
<1>1. TicketTypes /\ TicketsAreRead
  BY DEF TInv
<1>2. PICK p : p = tJob[r].on
  OBVIOUS
<1>3. p \in Products /\ ticket[p].status # "none"
  BY <1>1, <1>2 DEF TicketsAreRead, HasTicket
<1>4. TicketsKept
  BY <1>1, <1>2, <1>3, Marking, MarksKeep
<1>5. tStep[r] = "checked" => tSeen'[r] = "IN_REVIEW"
  BY <1>1 DEF TicketsAreRead
<1>6. "done" \in T!Steps /\ tJob' \in [ModeratorRequests -> T!Jobs] /\ tSeen' \in [T!Procs -> T!Statuses]
  BY <1>1 DEF T!Steps, TicketTypes
<1> QED
  BY <1>4, <1>5, <1>6, RequestSteps

LEMMA AskKeeps ==
    ASSUME TInv, mail \in Seq(Messages), NEW r \in ModeratorRequests, T!Ask(r)
    PROVE  TInv' /\ UNCHANGED verdicts
<1>1. TicketTypes /\ r \in T!Procs
  BY DEF TInv, T!Procs
<1>2. PICK m \in Moderators :
          \/ T!SelectNext(r, m) \/ T!QueueEmpty(r, m)
          \/ \E op \in DOMAIN T!Decisions \cup {"release"}, p \in Products : T!ReadTicket(r, op, m, p)
  BY DEF T!Ask
<1>3. tStep[r] = "idle" /\ UNCHANGED <<mail, ticket, queue, handling, verdicts>>
  BY <1>2 DEF T!SelectNext, T!QueueEmpty, T!ReadTicket, T!Start
<1>4. TicketsKept
  BY <1>1, <1>3, NoMarkKeeps
<1>5. ASSUME NEW op \in {"claim", "release"} \cup DOMAIN T!Decisions,
             NEW p \in Products \cup {Nobody}, T!Start(r, op, m, p)
      PROVE  /\ tJob' \in [ModeratorRequests -> T!Jobs]
             /\ tJob'[r].on = p
             /\ \A q \in ModeratorRequests \ {r} : tJob'[q] = tJob[q]
  <2>1. [op |-> op, by |-> m, on |-> p] \in T!Jobs
    BY DEF T!Jobs
  <2> HIDE DEF T!Jobs
  <2> QED
    BY <1>1, <1>5, <2>1 DEF T!Start, TicketTypes
<1>6. ASSUME T!SelectNext(r, m)
      PROVE  TInv'
  <2>1. PICK i \in T!Claimable : T!Start(r, "claim", m, queue[i])
    BY <1>6 DEF T!SelectNext
  <2>2. queue[i] \in Products /\ ticket[queue[i]].status # "none"
    BY <1>1, <2>1 DEF TicketTypes, T!Claimable
  <2>3. T!Go(r, "selected") /\ UNCHANGED tSeen
    BY <1>6 DEF T!SelectNext
  <2>4. "selected" \in T!Steps /\ tSeen' \in [T!Procs -> T!Statuses]
    BY <1>1, <2>3 DEF T!Steps, TicketTypes
  <2>5. PICK p : p = queue[i]
    OBVIOUS
  <2>6. /\ tJob' \in [ModeratorRequests -> T!Jobs] /\ tJob'[r].on = p
        /\ \A q \in ModeratorRequests \ {r} : tJob'[q] = tJob[q]
    BY <1>5, <2>1, <2>2, <2>5
  <2> QED
    BY <1>3, <1>4, <2>2, <2>3, <2>4, <2>5, <2>6, RequestSteps
<1>7. ASSUME T!QueueEmpty(r, m)
      PROVE  TInv'
  <2>1. T!Start(r, "claim", m, Nobody) /\ T!Go(r, "empty") /\ UNCHANGED tSeen
    BY <1>7 DEF T!QueueEmpty
  <2>2. "empty" \in T!Steps /\ tSeen' \in [T!Procs -> T!Statuses]
    BY <1>1, <2>1 DEF T!Steps, TicketTypes
  <2>3. /\ tJob' \in [ModeratorRequests -> T!Jobs]
        /\ \A q \in ModeratorRequests \ {r} : tJob'[q] = tJob[q]
    BY <1>5, <2>1
  <2> QED
    BY <1>3, <1>4, <2>1, <2>2, <2>3, RequestSteps
<1>8. ASSUME NEW op \in DOMAIN T!Decisions \cup {"release"}, NEW p \in Products,
             T!ReadTicket(r, op, m, p)
      PROVE  TInv'
  <2>1. T!Start(r, op, m, p) /\ tSeen' = [tSeen EXCEPT ![r] = ticket[p].status]
    BY <1>8 DEF T!ReadTicket
  <2>2. PICK to \in {"read", "refused"} :
            T!Go(r, to) /\ (to = "read" => ticket[p].status = "IN_REVIEW")
    BY <1>8 DEF T!ReadTicket, T!MayDecide
  <2>3. ticket[p].status \in T!Statuses
    BY <1>1 DEF TicketTypes
  <2>4. /\ tSeen' \in [T!Procs -> T!Statuses] /\ tSeen'[r] = ticket[p].status
        /\ \A x \in T!Procs \ {r} : tSeen'[x] = tSeen[x]
    BY <1>1, <2>1, <2>3 DEF TicketTypes
  <2>5. /\ tJob' \in [ModeratorRequests -> T!Jobs] /\ tJob'[r].on = p
        /\ \A q \in ModeratorRequests \ {r} : tJob'[q] = tJob[q]
    BY <1>5, <2>1
  <2>6. to \in T!Steps
    BY DEF T!Steps
  <2> QED
    BY <1>3, <1>4, <2>2, <2>4, <2>5, <2>6, RequestSteps
<1> QED
  BY <1>2, <1>3, <1>6, <1>7, <1>8

LEMMA DecideKeeps ==
    ASSUME TInv, NEW r \in ModeratorRequests, T!Decide(r)
    PROVE  TInv' /\ \E v \in T!Verdicts : verdicts' = Append(verdicts, v)
<1>1. TicketTypes /\ TicketsAreRead
  BY DEF TInv
<1>2. PICK p : p = tJob[r].on
  OBVIOUS
<1>3. PICK s : s = T!Decisions[tJob[r].op]
  OBVIOUS
<1>4. /\ tStep[r] = "checked" /\ T!Go(r, "done")
      /\ UNCHANGED <<mail, queue, handling, tJob, tSeen>>
      /\ T!Write(p, s, ticket[p].owner)
      /\ verdicts' = Append(verdicts, [product |-> p, status |-> s, by |-> r])
  BY <1>2, <1>3 DEF T!Decide
<1>5. p \in Products /\ s \in T!Decided
  BY <1>1, <1>2, <1>3, <1>4 DEF TicketsAreRead, HasTicket, T!Decisions, T!Decided
<1>6. ticket[p].owner \in Moderators \cup {Nobody}
  BY <1>1, <1>5 DEF TicketTypes
<1>7. s \in T!Statuses \ {"none", "ARCHIVED"}
  BY <1>5 DEF T!Statuses, T!Decided
<1>8. PICK v \in T!Verdicts : v = [product |-> p, status |-> s, by |-> r]
  BY <1>5 DEF T!Verdicts
<1>9. v.by = r
  BY <1>8
<1>10. ticket' = [ticket EXCEPT ![tJob[r].on] = [status |-> s, owner |-> ticket[p].owner]]
  BY <1>2, <1>4 DEF T!Write
<1>11. verdicts' = Append(verdicts, v)
  BY <1>4, <1>8
<1> QED
  BY <1>4, <1>6, <1>7, <1>9, <1>10, <1>11, WritingRequest

LEMMA RequestKeeps ==
    ASSUME TInv, mail \in Seq(Messages), NEW r \in ModeratorRequests,
           T!CommitClaim(r) \/ T!Release(r) \/ CheckInB2B(r)
    PROVE  TInv' /\ UNCHANGED verdicts
<1>1. TicketTypes /\ TicketsAreRead
  BY DEF TInv
<1>2. CASE T!CommitClaim(r)
  <2>1. /\ tStep[r] = "selected" /\ T!Go(r, "done")
        /\ UNCHANGED <<mail, queue, handling, tJob, tSeen, verdicts>>
        /\ ticket' = [ticket EXCEPT ![tJob[r].on] = [status |-> "IN_REVIEW", owner |-> tJob[r].by]]
    BY <1>2 DEF T!CommitClaim
  <2>2. tJob[r].by \in Moderators \cup {Nobody}
    BY <1>1 DEF TicketTypes, T!Jobs
  <2>3. "IN_REVIEW" \in T!Statuses \ {"none", "ARCHIVED"}
    BY DEF T!Statuses
  <2> QED
    BY <2>1, <2>2, <2>3, WritingRequest
<1>3. CASE T!Release(r)
  <2>1. /\ tStep[r] = "read" /\ T!Go(r, "done")
        /\ UNCHANGED <<mail, queue, handling, tJob, tSeen, verdicts>>
        /\ ticket' = [ticket EXCEPT ![tJob[r].on] = [status |-> "PENDING", owner |-> Nobody]]
    BY <1>3 DEF T!Release, T!Write
  <2>2. "PENDING" \in T!Statuses \ {"none", "ARCHIVED"}
    BY DEF T!Statuses
  <2> QED
    BY <2>1, <2>2, WritingRequest
<1>4. CASE CheckInB2B(r)
  <2>1. PICK ok \in BOOLEAN : T!Check(r, ok)
    BY <1>4 DEF CheckInB2B
  <2>2. PICK to \in {"checked", "refused"} : T!Go(r, to)
    BY <2>1 DEF T!Check
  <2>3. /\ tStep[r] = "read" /\ tJob[r].op \in DOMAIN T!Decisions
        /\ UNCHANGED <<mail, ticket, queue, handling, tJob, tSeen, verdicts>>
    BY <2>1 DEF T!Check
  <2>4. to \in T!Steps
    BY DEF T!Steps
  <2> QED
    BY <2>2, <2>3, <2>4, QuietRequest
<1> QED
  BY <1>2, <1>3, <1>4

LEMMA TicketCrashKeeps ==
    ASSUME TInv, NEW x \in T!Procs, T!Crash(x)
    PROVE  TInv' /\ UNCHANGED verdicts
<1>1. /\ tStep[x] \in {"selected", "read", "checked", "recorded"} /\ T!Go(x, "crashed")
      /\ UNCHANGED <<mail, ticket, queue, handling, tJob, tSeen, verdicts>>
  BY DEF T!Crash
<1>2. "crashed" \in T!Steps
  BY DEF T!Steps
<1>3. CASE x \in ModeratorRequests
  BY <1>1, <1>2, <1>3, QuietRequest
<1>4. CASE x \in Deliveries
  <2>1. TicketTypes
    BY DEF TInv
  <2>2. /\ TicketsKept /\ queue' \in Seq(Products) /\ handling' \in [Deliveries -> Nat]
        /\ tSeen' \in [T!Procs -> T!Statuses]
    BY <1>1, <2>1, NoMarkKeeps DEF TicketTypes
  <2>3. handling'[x] \in DOMAIN mail
    BY <1>1, <1>4, <2>1 DEF TicketTypes
  <2> QED
    BY <1>1, <1>2, <1>4, <2>2, <2>3, DeliverySteps
<1> QED
  BY <1>3, <1>4 DEF T!Procs

-----------------------------------------------------------------------------
(* Steps of B2B, seen from moderation. *)

LEMMA MailGrows ==
    ASSUME IInv, [Next]_vars
    PROVE  \A i \in DOMAIN mail : i \in DOMAIN mail' /\ mail'[i] = mail[i]
<1>1. mail \in Seq(Messages)
  BY DEF IInv, RowsAreKnown
<1>2. mail' = mail \/ \E e : mail' = Append(mail, e)
  BY DEF Next, ProductStep, vars, productVars, CreateProduct, Ask, Load, CreateSku, InsertImages,
         EditProduct, EditSku, DeleteSku, DeleteProduct, CountSkus, CreateInvoice, AddLine, RecordKey,
         LookUpKey, SetStatus, PostMail, PostShop, Crash, Judge
<1> QED
  BY <1>1, <1>2

LEMMA ProductStepKeepsTickets ==
    ASSUME MInv, ProductStep, UNCHANGED ticketOnly
    PROVE  TInv'
<1>1. IInv /\ [Next]_vars /\ TInv /\ UNCHANGED verdicts
  BY DEF MInv, Next, ProductStep, CreateProduct, Ask, Load, CreateSku, InsertImages, EditProduct,
         EditSku, DeleteSku, DeleteProduct, CountSkus, CreateInvoice, AddLine, RecordKey,
         LookUpKey, SetStatus, PostMail, PostShop, Crash
<1>2. \A i \in DOMAIN mail : i \in DOMAIN mail' /\ mail'[i] = mail[i]
  BY <1>1, MailGrows
<1>3. TicketTypes'
  BY <1>1, <1>2 DEF TInv, TicketTypes, ticketOnly
<1>4. TicketsAreRead'
  <2>1. ASSUME NEW d \in Deliveries, tStep[d] = "read"
        PROVE  T!ProductOf(d)' = T!ProductOf(d)
    BY <1>1, <1>2, <2>1 DEF TInv, TicketTypes, T!ProductOf, ticketOnly
  <2> QED
    BY <1>1, <2>1 DEF TInv, TicketsAreRead, HasTicket, ticketOnly
<1>5. VerdictsWereReviewed'
  BY <1>1 DEF TInv, VerdictsWereReviewed, ticketOnly
<1>6. TicketsFollowMail'
  <2>1. \A type, p : Posted(mail, type, p) => Posted(mail, type, p)'
    BY <1>1, RowsStay DEF Posted
  <2> QED
    BY <1>1, <2>1 DEF TInv, TicketsFollowMail, ticketOnly
<1> QED
  BY <1>3, <1>4, <1>5, <1>6 DEF TInv

\* Who has changed a product changes none again.
LEMMA ChangesLast ==
    ASSUME IInv, ChangesFit, [Next]_vars, NEW x \in Procs, changed[x] # "none"
    PROVE  changed'[x] = changed[x]
<1>1. Types /\ ChainsAreKnown /\ LeftAfter(todo[x], changed[x]) /\ step[x] \notin Early
  BY DEF IInv, WorkInOrder, ChangesFit
<1>2. ~DeleteProduct(x)
  BY <1>1 DEF DeleteProduct, Doing, Early
<1>3. ~SetStatus(x)
  BY <1>1, ByHead DEF SetStatus, Due, ChainsAreKnown
<1>4. CASE ~Acts(x)
  BY <1>4, OnlyActors
<1>5. CASE Acts(x)
  BY <1>2, <1>3, <1>5
  DEF Acts, CountSkus, CreateInvoice, AddLine, RecordKey, LookUpKey, PostMail, PostShop
<1> QED
  BY <1>4, <1>5

\* A SKU that was deleted does not come back.
LEMMA EmptiedStays ==
    ASSUME IInv, [Next]_vars, NEW r \in Requests, Emptied(r)
    PROVE  Emptied(r)' /\ job'[r] = job[r]
<1>1. Types /\ JobsAreKnown /\ SkusAreMade
  BY DEF IInv, WorkInOrder
<1>2. step[r] # "idle"
  BY <1>1, LifecycleAssumption DEF JobsAreKnown, Emptied
<1>3. job'[r] = job[r]
  BY <1>2, JobStays
<1>4. PICK s, p : s = job[r].sku /\ p = job[r].on
  OBVIOUS
<1>5. s \in Requests /\ p \in Products /\ s \notin skus[p] /\ Made(s, p)
  BY <1>1, <1>2, <1>4 DEF Emptied, JobsAreKnown, SkusAreMade
<1>6. step[s] # "loaded"
  BY <1>5 DEF Made
<1>7. ASSUME NEW q \in Requests, CreateSku(q)
      PROVE  s \notin skus'[p]
  BY <1>1, <1>5, <1>6, <1>7 DEF CreateSku, Doing, Types
<1>8. ASSUME NEW q \in Requests, DeleteSku(q)
      PROVE  s \notin skus'[p]
  BY <1>1, <1>5, <1>8 DEF DeleteSku, Types
<1>9. (\E q \in Requests : CreateSku(q) \/ DeleteSku(q)) \/ UNCHANGED skus
  BY DEF Next, ProductStep, vars, productVars, CreateProduct, Ask, Load, InsertImages, EditProduct,
         EditSku, DeleteProduct, CountSkus, CreateInvoice, AddLine, RecordKey, LookUpKey,
         SetStatus, PostMail, PostShop, Crash, Judge
<1>10. s \notin skus'[p]
  BY <1>5, <1>7, <1>8, <1>9
<1> QED
  BY <1>3, <1>4, <1>10 DEF Emptied

LEMMA GoneStays ==
    ASSUME IInv, ChangesFit, [Next]_vars, NEW p \in Products, Gone(p)
    PROVE  Gone(p)'
<1>1. deleted[p] => deleted'[p]
  <2>1. ASSUME NEW r \in Requests, DeleteProduct(r)
        PROVE  deleted[p] => deleted'[p]
    BY <2>1 DEF DeleteProduct, IInv, Types
  <2>2. (\E r \in Requests : DeleteProduct(r)) \/ UNCHANGED deleted
    BY DEF Next, ProductStep, vars, productVars, CreateProduct, Ask, Load, CreateSku, InsertImages,
           EditProduct, EditSku, DeleteSku, CountSkus, CreateInvoice, AddLine, RecordKey,
           LookUpKey, SetStatus, PostMail, PostShop, Crash, Judge
  <2> QED
    BY <2>1, <2>2
<1>2. ASSUME NEW r \in Requests, TookBack(r, p)
      PROVE  TookBack(r, p)'
  <2>1. r \in Procs /\ changed[r] = "CREATED" /\ step[r] # "idle"
    BY <1>2 DEF Procs, TookBack, ChangesFit, Early
  <2>2. Emptied(r)
    BY <1>2, <2>1 DEF IInv, WorkInOrder, JobsAreKnown, TookBack, Emptied
  <2>3. changed'[r] = "CREATED"
    BY <2>1, ChangesLast
  <2> QED
    BY <1>2, <2>2, <2>3, EmptiedStays DEF TookBack, Emptied
<1> QED
  BY <1>1, <1>2 DEF Gone

\* The chains that tell moderation of a deletion are not the others.
LEMMA DeletingChains ==
    /\ \A c \in {Deletes, Only(Mail("DELETED"))} :
          /\ c \notin {<<>>, Only(Line), Only(Shop("SKU_OUT_OF_STOCK")), Only(Shop("PRODUCT_DELETED"))}
          /\ c \notin StatusFirst
          /\ \A t \in {"CREATED", "EDITED"} : c # Only(Mail(t))
    /\ \A c \in {Deletes, Only(Line), Only(Shop("SKU_OUT_OF_STOCK")),
                 Submits("CREATED"), Submits("EDITED"), <<>>} : c # Withdraws
<1>1. \A c \in {Deletes, Only(Mail("DELETED"))} : Head(c).kind = "mail" /\ c # <<>>
  BY HeadKinds, ChainsDiffer
<1>2. \A c \in {Only(Line), Only(Shop("SKU_OUT_OF_STOCK")), Only(Shop("PRODUCT_DELETED"))} \cup StatusFirst :
          Head(c).kind # "mail"
  BY HeadKinds
<1>3. \A c \in {Deletes, Only(Mail("DELETED"))} :
          \A t \in {"CREATED", "EDITED"} : c # Only(Mail(t))
  BY Parts, Kinds
<1>4. \A c \in {Deletes, Only(Line), Only(Shop("SKU_OUT_OF_STOCK"))} : Head(c).kind # "status"
  BY HeadKinds
<1>5. Withdraws \in StatusFirst /\ Withdraws # <<>> /\ Head(Withdraws).kind = "status"
  BY HeadKinds, ChainsDiffer DEF StatusFirst
<1>6. ASSUME NEW t
      PROVE  Submits(t) # Withdraws
  <2>1. Head(Submits(t)).what = "ON_MODERATION"
    BY Parts, Kinds
  <2>2. Head(Withdraws).what = "CREATED"
    BY Parts, Kinds
  <2> QED
    BY <2>1, <2>2
<1> QED
  BY <1>1, <1>2, <1>3, <1>4, <1>5, <1>6

\* What a count of SKUs leads to.
LEMMA CountedChains ==
    ASSUME IInv, NEW r \in Requests, CountSkus(r)
    PROVE  /\ todo'[r] \in {Submits("CREATED"), Submits("EDITED"), Withdraws,
                            Only(Shop("SKU_OUT_OF_STOCK")), <<>>}
           /\ todo'[r] = Withdraws => job[r].op = "delete_sku"
<1>1. Types /\ r \in Procs
  BY DEF IInv, Procs
<1>2. ASSUME NEW stocked \in BOOLEAN, Then(r, Withdrawal(r, stocked))
      PROVE  todo'[r] \in {Withdraws, Only(Shop("SKU_OUT_OF_STOCK")), <<>>}
  BY <1>1, <1>2, WithdrawalChains DEF Then, Types
<1>3. ASSUME Then(r, Submission(r))
      PROVE  todo'[r] \in {Submits("CREATED"), Submits("EDITED"), <<>>}
  BY <1>1, <1>3, SubmissionChains DEF Then, Types
<1> QED
  BY <1>2, <1>3, DeletingChains DEF CountSkus

\* A request whose own change is written.
LEMMA WrittenBy ==
    ASSUME IInv, [Next]_vars, NEW r \in Requests, step'[r] = "written"
    PROVE  step[r] = "written" \/ CreateSku(r) \/ EditProduct(r) \/ EditSku(r) \/ DeleteSku(r)
<1>1. Types /\ Requests \subseteq Procs
  BY DEF IInv, Procs
<1>2. r \in Procs /\ ~Acts(r)
  BY <1>1, EarlySteps DEF Early
<1>3. ASSUME NEW y \in Procs, NEW to, Go(y, to), to # "written"
      PROVE  step[r] = "written"
  BY <1>1, <1>3 DEF Go, Types
<1>4. ASSUME NEW y \in Procs, Acts(y)
      PROVE  step'[r] = step[r]
  <2>1. y # r
    BY <1>2, <1>4
  <2>2. \E to : Go(y, to)
    BY <1>4
    DEF Acts, DeleteProduct, CountSkus, CreateInvoice, AddLine, RecordKey, LookUpKey, SetStatus,
        PostMail, PostShop, Then
  <2> QED
    BY <2>1, <2>2 DEF Go
<1>5. ASSUME NEW q \in Requests, Ask(q) \/ InsertImages(q)
      PROVE  step[r] = "written"
  <2>1. \E to : Go(q, to) /\ to # "written"
    BY <1>5 DEF Ask, Load, InsertImages
  <2> QED
    BY <1>1, <1>3, <2>1
<1>6. ASSUME NEW q \in Requests, q # r, CreateSku(q) \/ EditProduct(q) \/ EditSku(q) \/ DeleteSku(q)
      PROVE  step'[r] = step[r]
  <2>1. \E to : Go(q, to)
    BY <1>6 DEF CreateSku, EditProduct, EditSku, DeleteSku
  <2> QED
    BY <1>6, <2>1 DEF Go
<1>7. ASSUME NEW y \in Procs, Crash(y)
      PROVE  step[r] = "written"
  BY <1>3, <1>7 DEF Crash
<1>8. \/ UNCHANGED step
      \/ \E y \in Procs : Acts(y) \/ Crash(y)
      \/ \E q \in Requests :
            \/ Ask(q) \/ CreateSku(q) \/ InsertImages(q) \/ EditProduct(q) \/ EditSku(q) \/ DeleteSku(q)
  BY DEF Acts, Procs, Next, ProductStep, vars, productVars, CreateProduct, Judge
<1> QED
  BY <1>4, <1>5, <1>6, <1>7, <1>8

LEMMA ProductStepKeepsDeletions ==
    ASSUME MInv, ProductStep
    PROVE  DeletionsAreMeant'
<1>1. /\ IInv /\ ChangesFit /\ [Next]_vars /\ DeletionsAreMeant
      /\ Types /\ RowsAreKnown /\ ChainsAreKnown /\ JobsAreKnown /\ Requests \subseteq Procs
  BY DEF MInv, Next, IInv, WorkInOrder, Procs
<1>2. ASSUME NEW p \in Products, Posted(mail', "DELETED", p)
      PROVE  Gone(p)'
  <2>1. CASE Posted(mail, "DELETED", p)
    BY <1>1, <2>1, GoneStays DEF DeletionsAreMeant
  <2>2. CASE ~Posted(mail, "DELETED", p)
    <3>1. PICK x \in Procs : PostMail(x)
      <4>1. (\E x \in Procs : PostMail(x)) \/ UNCHANGED mail
        BY DEF ProductStep, CreateProduct, Ask, Load, CreateSku, InsertImages, EditProduct,
               EditSku, DeleteSku, DeleteProduct, CountSkus, CreateInvoice, AddLine, RecordKey,
               LookUpKey, SetStatus, PostShop, Crash
      <4> QED
        BY <1>2, <2>2, <4>1
    <3>2. PICK new : new = [type |-> Head(todo[x]).what, product |-> ProductOf(x)]
      OBVIOUS
    <3>3. mail' = Append(mail, new) /\ mail \in Seq(Messages)
      BY <1>1, <3>1, <3>2 DEF PostMail, RowsAreKnown
    <3>4. new.type = "DELETED" /\ new.product = p
      BY <1>2, <2>2, <3>3 DEF Posted
    <3>5. Head(todo[x]).what = "DELETED" /\ ProductOf(x) = p
      BY <3>2, <3>4
    <3>6. /\ x \in Requests
          /\ todo[x] \in {Deletes, Only(Mail("CREATED")), Only(Mail("EDITED")), Only(Mail("DELETED"))}
      BY <1>1, <3>1, MailDue DEF PostMail
    <3>7. todo[x] \in {Deletes, Only(Mail("DELETED"))}
      BY <3>5, <3>6, Parts, Kinds
    <3>8. Gone(p)
      BY <1>1, <3>5, <3>6, <3>7 DEF DeletionsAreMeant, ProductOf
    <3> QED
      BY <1>1, <3>8, GoneStays
  <2> QED
    BY <2>1, <2>2
<1>3. ASSUME NEW r \in Requests, todo'[r] \in {Deletes, Only(Mail("DELETED"))}
      PROVE  Gone(job[r].on)'
  <2>1. todo'[r] # <<>> /\ r \in Procs
    BY <1>1, <1>3, DeletingChains
  <2>2. CASE todo[r] # <<>>
    <3>1. step[r] # "idle"
      BY <1>1, <2>1, <2>2 DEF ChainsAreKnown
    <3>2. PICK p : p = job[r].on
      OBVIOUS
    <3>3. p \in Products /\ job'[r].on = p
      BY <1>1, <3>1, <3>2, JobStays DEF JobsAreKnown
    <3>4. CASE todo[r] \in {Deletes, Only(Mail("DELETED"))}
      <4>1. Gone(p)'
        BY <1>1, <3>2, <3>3, <3>4, GoneStays DEF DeletionsAreMeant
      <4> QED
        BY <3>3, <4>1 DEF Gone
    <3>5. CASE todo[r] \notin {Deletes, Only(Mail("DELETED"))}
      <4>1. todo'[r] = Tail(todo[r]) /\ todo'[r] # todo[r] /\ todo[r] \in RequestChains \ {<<>>}
        BY <1>1, <1>3, <2>1, <2>2, <3>5, Progress DEF ChainsAreKnown
      <4>2. todo[r] = Withdraws
        BY <1>3, <3>5, <4>1, Parts, DeletingChains DEF RequestChains, StatusFirst
      <4>3. Acts(r) /\ Head(todo[r]).kind = "status"
        BY <1>1, <2>1, <4>1, <4>2, OnlyActors, HeadKinds DEF StatusFirst
      <4>4. SetStatus(r)
        <5>1. step[r] = "effects" \/ ~SetStatus(r) => r \in Requests /\ r \notin Handlers
          BY LifecycleAssumption
        <5>2. ~DeleteProduct(r) /\ ~CountSkus(r) /\ ~CreateInvoice(r)
          BY <1>1, <2>1, <2>2 DEF DeleteProduct, CountSkus, CreateInvoice, Doing, ChainsAreKnown
        <5>3. ~AddLine(r) /\ ~PostMail(r) /\ ~PostShop(r)
          BY <4>3 DEF AddLine, PostMail, PostShop, Due
        <5> QED
          BY <4>3, <5>2, <5>3, LifecycleAssumption DEF Acts
      <4>5. changed'[r] = "CREATED"
        BY <1>1, <2>1, <4>2, <4>4, Parts, Kinds DEF SetStatus, Types
      <4>6. Emptied(r)
        BY <1>1, <4>2 DEF DeletionsAreMeant
      <4>7. TookBack(r, p)'
        BY <1>1, <3>2, <4>5, <4>6, EmptiedStays DEF TookBack, Emptied
      <4> QED
        BY <3>3, <4>7 DEF Gone, TookBack
    <3> QED
      BY <3>4, <3>5
  <2>3. CASE todo[r] = <<>>
    <3>1. DeleteProduct(r) \/ CountSkus(r) \/ CreateInvoice(r)
      BY <1>1, <2>1, <2>3, ChainStarts, LifecycleAssumption
    <3>2. CASE DeleteProduct(r)
      <4>1. job[r].on \in Products /\ job' = job
        BY <1>1, <3>2 DEF DeleteProduct, Doing, JobsAreKnown
      <4>2. deleted'[job[r].on]
        BY <1>1, <3>2, <4>1 DEF DeleteProduct, Types
      <4> QED
        BY <4>1, <4>2 DEF Gone
    <3>3. CASE CountSkus(r)
      BY <1>1, <1>3, <3>3, CountedChains, DeletingChains DEF StatusFirst
    <3>4. CASE CreateInvoice(r)
      <4>1. todo'[r] = Only(Line)
        BY <1>1, <2>1, <3>4 DEF CreateInvoice, Then, Types, Only
      <4> QED
        BY <1>3, <4>1, DeletingChains
    <3> QED
      BY <3>1, <3>2, <3>3, <3>4
  <2> QED
    BY <2>2, <2>3
<1>4. ASSUME NEW r \in Requests, todo'[r] = Withdraws
      PROVE  Emptied(r)
  <2>1. todo'[r] # <<>> /\ r \in Procs
    BY <1>1, <1>4, DeletingChains
  <2>2. CASE todo[r] # <<>>
    <3>1. todo[r] \in RequestChains \ {<<>>}
      BY <1>1, <2>2 DEF ChainsAreKnown
    <3>2. Tail(todo[r]) # Withdraws
      BY <3>1, Rests DEF StatusFirst
    <3> QED
      <4>1. todo[r] = Withdraws
        BY <1>1, <1>4, <2>1, <2>2, <3>2, Progress
      <4> QED
        BY <1>1, <4>1 DEF DeletionsAreMeant
  <2>3. CASE todo[r] = <<>>
    <3>1. DeleteProduct(r) \/ CountSkus(r) \/ CreateInvoice(r)
      BY <1>1, <2>1, <2>3, ChainStarts, LifecycleAssumption
    <3>2. ~DeleteProduct(r)
      BY <1>1, <1>4, <2>1, DeletingChains DEF DeleteProduct, Then, Deletes, Types
    <3>3. ~CreateInvoice(r)
      BY <1>1, <1>4, <2>1, DeletingChains DEF CreateInvoice, Then, Only, Types
    <3>4. CASE CountSkus(r)
      BY <1>1, <1>4, <3>4, CountedChains DEF DeletionsAreMeant, CountSkus
    <3> QED
      BY <3>1, <3>2, <3>3, <3>4
  <2> QED
    BY <2>2, <2>3
<1>5. ASSUME NEW r \in Requests, step'[r] = "written", job'[r].op = "delete_sku"
      PROVE  Emptied(r)'
  <2>1. CASE step[r] = "written"
    <3>1. job'[r] = job[r]
      BY <1>1, <2>1, JobStays
    <3> QED
      BY <1>1, <1>5, <2>1, <3>1, EmptiedStays DEF DeletionsAreMeant
  <2>2. CASE CreateSku(r) \/ EditProduct(r) \/ EditSku(r)
    BY <1>5, <2>2 DEF CreateSku, EditProduct, EditSku, Doing
  <2>3. CASE DeleteSku(r)
    <3>1. PICK s, p : s = job[r].sku /\ p = job[r].on
      OBVIOUS
    <3>2. s \in Requests /\ p \in Products /\ job' = job
      BY <1>1, <2>3, <3>1 DEF DeleteSku, Doing, JobsAreKnown
    <3>3. s \in skus[p] /\ ~InInvoice(s)
      BY <1>1, <1>5, <2>3, <3>1 DEF DeleteSku, Go, Types
    <3>4. s \notin skus'[p]
      BY <1>1, <2>3, <3>1, <3>2, <3>3 DEF DeleteSku, Types
    <3> QED
      BY <1>5, <3>1, <3>2, <3>4 DEF Emptied
  <2> QED
    BY <1>1, <1>5, <2>1, <2>2, <2>3, WrittenBy
<1> QED
  <2>1. \A p \in Products : Posted(mail, "DELETED", p)' <=> Posted(mail', "DELETED", p)
    BY DEF Posted
  <2>2. \A r \in Requests :
            /\ (todo[r] \in {Deletes, Only(Mail("DELETED"))})' <=>
                   todo'[r] \in {Deletes, Only(Mail("DELETED"))}
            /\ (todo[r] = Withdraws)' <=> todo'[r] = Withdraws
    BY DEF Deletes, Only, Withdraws, SetTo, Mail, Shop
  <2>3. \A r \in Requests : todo'[r] = Withdraws => Emptied(r)'
    BY <1>1, <1>4, EmptiedStays
  <2> QED
    BY <1>2, <1>3, <1>5, <2>1, <2>2, <2>3 DEF DeletionsAreMeant

-----------------------------------------------------------------------------
(* Statuses and verdicts. *)

LEMMA CarriedStays ==
    ASSUME IInv, ProductStep, NEW h \in Handlers, step[h] # "idle"
    PROVE  carried'[h] = carried[h]
<1>1. ASSUME NEW g \in Handlers, NEW k \in DOMAIN verdicts, LookUpKey(g, k)
      PROVE  carried'[h] = carried[h]
  BY <1>1 DEF LookUpKey, IInv, Types
<1>2. (\E g \in Handlers : \E k \in DOMAIN verdicts : LookUpKey(g, k)) \/ UNCHANGED carried
  BY DEF ProductStep, CreateProduct, Ask, Load, CreateSku, InsertImages, EditProduct,
         EditSku, DeleteSku, DeleteProduct, CountSkus, CreateInvoice, AddLine, RecordKey,
         SetStatus, PostMail, PostShop, Crash
<1> QED
  BY <1>1, <1>2

\* A chain that sets the status of a verdict has not begun.
Whole == {Approves, Blocks("BLOCKED"), Blocks("HARD_BLOCKED")}

LEMMA BegunIsNotWhole ==
    \A c \in HandlerChains \ {<<>>} : Tail(c) \notin Whole
<1>1. \A c \in HandlerChains \ {<<>>} : Tail(c) \in {Announces, Only(Record), <<>>}
  BY Parts DEF HandlerChains
<1>2. {Announces, Only(Record)} \cap Whole = {}
  BY HeadKinds DEF Whole
<1>3. <<>> \notin Whole
  BY Lengths DEF Whole, Approves, Blocks
<1> QED
  BY <1>1, <1>2, <1>3

LEMMA ChainsOfVerdicts ==
    ASSUME NEW v \in Verdicts
    PROVE  /\ VerdictChain(v) = Approves => v.status = "APPROVED"
           /\ \A s : VerdictChain(v) = Blocks(s) => v.status = s
<1>1. CASE v.status = "APPROVED"
  <2>1. VerdictChain(v) = Approves
    BY <1>1 DEF VerdictChain, Approves
  <2>2. \A s : Blocks(s) # Approves
    BY Parts, Kinds, Lengths DEF Announces, Only
  <2> QED
    BY <1>1, <2>1, <2>2
<1>2. CASE v.status # "APPROVED"
  <2>1. VerdictChain(v) = Blocks(v.status)
    BY <1>2 DEF VerdictChain, Blocks
  <2>2. Blocks(v.status) # Approves
    BY Parts, Kinds, Lengths DEF Announces, Only
  <2>3. \A s : Blocks(v.status) = Blocks(s) => v.status = s
    BY Parts, Kinds
  <2> QED
    BY <2>1, <2>2, <2>3
<1> QED
  BY <1>1, <1>2

LEMMA ProductStepKeepsDecisions ==
    ASSUME MInv, ProductStep
    PROVE  StatusesFollowVerdicts'
<1>1. /\ IInv /\ [Next]_vars /\ StatusesFollowVerdicts
      /\ Types /\ RowsAreKnown /\ ChainsAreKnown /\ Handlers \subseteq Procs
  BY DEF MInv, Next, IInv, WorkInOrder, Procs
<1>2. UNCHANGED verdicts
  BY DEF ProductStep, CreateProduct, Ask, Load, CreateSku, InsertImages, EditProduct,
         EditSku, DeleteSku, DeleteProduct, CountSkus, CreateInvoice, AddLine, RecordKey,
         LookUpKey, SetStatus, PostMail, PostShop, Crash
<1>3. ASSUME NEW p \in Products, status'[p] \in DOMAIN ShownAs
      PROVE  Decision(status[p], p)'
  <2>1. CASE status'[p] = status[p]
    BY <1>1, <1>2, <1>3, <2>1 DEF StatusesFollowVerdicts, Decision
  <2>2. CASE status'[p] = "CREATED"
    BY <1>3, <2>2 DEF ShownAs
  <2>3. ASSUME NEW x \in Procs, SetStatus(x), ProductOf(x) = p, status'[p] = Head(todo[x]).what
        PROVE  Decision(status[p], p)'
    <3>1. CASE x \in Requests /\ todo[x] \in StatusFirst
      BY <1>3, <2>3, <3>1, Parts, Kinds DEF StatusFirst, ShownAs
    <3>2. CASE x \in Handlers /\ todo[x] \in {Approves, Blocks("BLOCKED"), Blocks("HARD_BLOCKED")}
      <4>1. verdicts[carried[x]].product = p /\ carried[x] \in DOMAIN verdicts
        BY <1>1, <2>3, <3>2, LifecycleAssumption DEF ProductOf, RowsAreKnown, SetStatus, Due
      <4>2. verdicts[carried[x]].status = ShownAs[status'[p]]
        <5>1. CASE todo[x] = Approves
          BY <1>1, <2>3, <3>2, <5>1, Parts, Kinds DEF StatusesFollowVerdicts, ShownAs
        <5>2. ASSUME NEW b \in {"BLOCKED", "HARD_BLOCKED"}, todo[x] = Blocks(b)
              PROVE  verdicts[carried[x]].status = ShownAs[status'[p]]
          BY <1>1, <2>3, <3>2, <5>2, Parts, Kinds DEF StatusesFollowVerdicts, ShownAs
        <5> QED
          BY <3>2, <5>1, <5>2
      <4> QED
        BY <1>2, <4>1, <4>2 DEF Decision
    <3> QED
      BY <1>1, <2>3, <3>1, <3>2, StatusDue DEF SetStatus
  <2> QED
    BY <1>1, <2>1, <2>2, <2>3, StatusChanges
<1>4. ASSUME NEW h \in Handlers, todo'[h] \in Whole
      PROVE  \/ todo'[h] = todo[h] /\ carried'[h] = carried[h]
             \/ carried'[h] \in DOMAIN verdicts /\ todo'[h] = VerdictChain(verdicts[carried'[h]])
  <2>1. todo'[h] # <<>> /\ h \in Procs /\ h \notin Requests
    BY <1>1, <1>4, Lengths, LifecycleAssumption DEF Whole, Approves, Blocks
  <2>2. CASE todo[h] # <<>>
    <3>1. carried'[h] = carried[h]
      BY <1>1, <2>1, <2>2, CarriedStays DEF ChainsAreKnown
    <3>2. todo'[h] # Tail(todo[h])
      BY <1>1, <1>4, <2>2, BegunIsNotWhole DEF ChainsAreKnown
    <3> QED
      BY <1>1, <2>1, <2>2, <3>1, <3>2, Progress
  <2>3. CASE todo[h] = <<>>
    <3>1. PICK k \in DOMAIN verdicts : LookUpKey(h, k) /\ k \notin inbox
      BY <1>1, <2>1, <2>3, ChainStarts
    <3> QED
      BY <1>1, <2>1, <3>1 DEF LookUpKey, Then, Types
  <2> QED
    BY <2>2, <2>3
<1>5. ASSUME NEW h \in Handlers
      PROVE  /\ todo'[h] = Approves => verdicts[carried'[h]].status = "APPROVED"
             /\ \A s \in {"BLOCKED", "HARD_BLOCKED"} :
                   todo'[h] = Blocks(s) => verdicts[carried'[h]].status = s
  <2>1. \A k \in DOMAIN verdicts : verdicts[k] \in Verdicts
    BY <1>1 DEF RowsAreKnown
  <2> QED
    BY <1>1, <1>4, <2>1, ChainsOfVerdicts DEF Whole, StatusesFollowVerdicts
<1> QED
  <2>1. \A h \in Handlers : /\ (todo[h] = Approves)' <=> todo'[h] = Approves
                            /\ \A s : (todo[h] = Blocks(s))' <=> todo'[h] = Blocks(s)
    BY DEF Approves, Blocks, SetTo, Shop, Record
  <2> QED
    BY <1>2, <1>3, <1>5 DEF StatusesFollowVerdicts

LEMMA TicketStepKeepsTickets ==
    ASSUME TInv, mail \in Seq(Messages),
           T!TicketStep \/ \E r \in ModeratorRequests : CheckInB2B(r)
    PROVE  /\ TInv' /\ UNCHANGED mail
           /\ UNCHANGED verdicts \/ \E v \in T!Verdicts : verdicts' = Append(verdicts, v)
<1>1. ASSUME NEW d \in Deliveries, T!Deliver(d)
      PROVE  TInv' /\ UNCHANGED verdicts /\ UNCHANGED mail
  <2>1. UNCHANGED mail
    BY <1>1 DEF T!Deliver, T!RecordKey, T!OnCreated, T!ReadForEdit, T!ResetTicket, T!OnDeleted
  <2> QED
    BY <1>1, <2>1, DeliverKeeps
<1>2. ASSUME NEW r \in ModeratorRequests, T!Ask(r)
      PROVE  TInv' /\ UNCHANGED verdicts /\ UNCHANGED mail
  <2>1. UNCHANGED mail
    BY <1>2 DEF T!Ask, T!SelectNext, T!QueueEmpty, T!ReadTicket
  <2> QED
    BY <1>2, <2>1, AskKeeps
<1>3. ASSUME NEW r \in ModeratorRequests, T!CommitClaim(r) \/ T!Release(r) \/ CheckInB2B(r)
      PROVE  TInv' /\ UNCHANGED verdicts /\ UNCHANGED mail
  <2>1. UNCHANGED mail
    BY <1>3 DEF T!CommitClaim, T!Release, CheckInB2B, T!Check
  <2> QED
    BY <1>3, <2>1, RequestKeeps
<1>4. ASSUME NEW r \in ModeratorRequests, T!Decide(r)
      PROVE  TInv' /\ UNCHANGED mail /\ \E v \in T!Verdicts : verdicts' = Append(verdicts, v)
  <2>1. UNCHANGED mail
    BY <1>4 DEF T!Decide
  <2> QED
    BY <1>4, <2>1, DecideKeeps
<1>5. ASSUME NEW x \in T!Procs, T!Crash(x)
      PROVE  TInv' /\ UNCHANGED verdicts /\ UNCHANGED mail
  <2>1. UNCHANGED mail
    BY <1>5 DEF T!Crash
  <2> QED
    BY <1>5, <2>1, TicketCrashKeeps
<1> QED
  BY <1>1, <1>2, <1>3, <1>4, <1>5 DEF T!TicketStep

\* B2B stands still while moderation may decide.
LEMMA TicketStepKeepsProducts ==
    ASSUME MInv, UNCHANGED productVars,
           UNCHANGED verdicts \/ \E v \in T!Verdicts : verdicts' = Append(verdicts, v)
    PROVE  IInv' /\ ChangesFit' /\ DeletionsAreMeant' /\ StatusesFollowVerdicts'
<1>1. IInv /\ TicketTypes /\ RowsAreKnown /\ ChainsAreKnown
  BY DEF MInv, TInv, IInv, WorkInOrder
<1>2. verdicts \in Seq(T!Verdicts) /\ verdicts \in Seq(Verdicts)
  BY <1>1, VerdictRows DEF RowsAreKnown
<1>3. /\ verdicts' \in Seq(Verdicts) /\ DOMAIN verdicts \subseteq DOMAIN verdicts'
      /\ \A i \in DOMAIN verdicts : verdicts'[i] = verdicts[i]
  <2>1. T!Verdicts \subseteq Verdicts
    BY DEF Verdicts
  <2> QED
    BY <1>2, <2>1
<1>4. IInv'
  BY <1>1, <1>3, VerdictsGrow
<1>5. DeletionsAreMeant'
  BY DEF MInv, DeletionsAreMeant, Gone, TookBack, Emptied, Posted, productVars, Deletes, Only, Withdraws,
         SetTo, Mail, Shop
<1>6. StatusesFollowVerdicts'
  <2>1. ASSUME NEW p \in Products, NEW s, Decision(s, p)
        PROVE  \E i \in DOMAIN verdicts' :
                  verdicts'[i].product = p /\ verdicts'[i].status = ShownAs[s]
    BY <1>3, <2>1 DEF Decision
  <2>2. ASSUME NEW h \in Handlers, todo[h] # <<>>
        PROVE  carried[h] \in DOMAIN verdicts
    BY <1>1, <2>2 DEF ChainsAreKnown, RowsAreKnown, Procs
  <2>3. <<>> # Approves /\ \A s : <<>> # Blocks(s)
    BY Lengths DEF Approves, Blocks
  <2>4. UNCHANGED <<status, todo, carried>> /\ StatusesFollowVerdicts
    BY DEF productVars, MInv
  <2>5. \A p \in Products : status[p] \in DOMAIN ShownAs => Decision(status[p], p)'
    BY <2>1, <2>4 DEF StatusesFollowVerdicts, Decision
  <2>6. ASSUME NEW h \in Handlers
        PROVE  /\ todo[h] = Approves => verdicts'[carried[h]].status = "APPROVED"
               /\ \A s \in {"BLOCKED", "HARD_BLOCKED"} :
                     todo[h] = Blocks(s) => verdicts'[carried[h]].status = s
    BY <1>3, <2>2, <2>3, <2>4 DEF StatusesFollowVerdicts
  <2>7. \A h \in Handlers : /\ (todo[h] = Approves)' <=> todo[h] = Approves
                            /\ \A s : (todo[h] = Blocks(s))' <=> todo[h] = Blocks(s)
    BY <2>4 DEF Approves, Blocks, SetTo, Shop, Record
  <2> QED
    BY <2>4, <2>5, <2>6, <2>7 DEF StatusesFollowVerdicts
<1>7. ChangesFit'
  BY DEF MInv, ChangesFit, productVars, Early, LeftAfter, StatusFirst, Submits, Withdraws, Approves, Blocks,
         Announces, Only, Deletes, SetTo, Mail, Shop, Record, Line
<1> QED
  BY <1>4, <1>5, <1>6, <1>7

LEMMA InitMInv == BothInit => MInv
<1> SUFFICES ASSUME BothInit PROVE MInv
  OBVIOUS
<1>1. Init /\ verdicts = <<>> /\ mail = <<>>
  BY DEF BothInit, Init, T!TicketInit, ProductInit
<1>2. IInv /\ ChangesFit
  BY <1>1, InitIInv, InitChangesFit
<1>3. TicketTypes
  BY <1>1 DEF BothInit, T!TicketInit, TicketTypes, T!Statuses, T!Jobs, T!Steps, T!Procs
<1>4. TicketsAreRead
  BY DEF BothInit, T!TicketInit, TicketsAreRead, T!Procs
<1>5. VerdictsWereReviewed /\ TicketsFollowMail
  BY <1>1 DEF BothInit, T!TicketInit, VerdictsWereReviewed, TicketsFollowMail
<1>6. DeletionsAreMeant
  <2>1. \A r \in Requests : todo[r] = <<>> /\ step[r] = "idle"
    BY DEF BothInit, ProductInit, Procs
  <2> QED
    BY <1>1, <2>1, DeletingChains DEF DeletionsAreMeant, Posted
<1>7. StatusesFollowVerdicts
  <2>1. \A h \in Handlers : todo[h] = <<>>
    BY DEF BothInit, ProductInit, Procs
  <2>2. <<>> # Approves /\ \A s : <<>> # Blocks(s)
    BY Lengths DEF Approves, Blocks
  <2>3. \A p \in Products : status[p] = "none"
    BY DEF BothInit, ProductInit
  <2> QED
    BY <2>1, <2>2, <2>3 DEF StatusesFollowVerdicts, ShownAs
<1> QED
  BY <1>2, <1>3, <1>4, <1>5, <1>6, <1>7 DEF MInv, TInv

LEMMA StepKeepsMInv == MInv /\ [BothNext]_bothVars => MInv'
<1> SUFFICES ASSUME MInv, [BothNext]_bothVars PROVE MInv'
  OBVIOUS
<1>1. CASE ProductStep /\ UNCHANGED ticketOnly
  <2>1. IInv' /\ ChangesFit'
    BY <1>1, StepKeepsIInv, ChangesStayFit DEF MInv, Next
  <2> QED
    BY <1>1, <2>1, ProductStepKeepsTickets, ProductStepKeepsDeletions, ProductStepKeepsDecisions DEF MInv
<1>2. CASE \/ T!TicketStep /\ UNCHANGED productOnly
           \/ \E r \in ModeratorRequests : CheckInB2B(r)
  <2>1. mail \in Seq(Messages) /\ TInv
    BY DEF MInv, IInv, RowsAreKnown
  <2>2. /\ TInv' /\ UNCHANGED mail
        /\ UNCHANGED verdicts \/ \E v \in T!Verdicts : verdicts' = Append(verdicts, v)
    BY <1>2, <2>1, TicketStepKeepsTickets
  <2>3. UNCHANGED productVars
    BY <1>2, <2>2 DEF CheckInB2B, productOnly, productVars
  <2> QED
    BY <2>2, <2>3, TicketStepKeepsProducts DEF MInv
<1>3. CASE UNCHANGED bothVars
  <2>1. UNCHANGED <<productVars, verdicts>> /\ UNCHANGED <<mail, ticketOnly>>
    BY <1>3 DEF bothVars, productOnly, productVars
  <2>2. TInv'
    BY <2>1 DEF MInv, TInv, TicketTypes, TicketsAreRead, HasTicket, T!ProductOf, VerdictsWereReviewed,
           TicketsFollowMail, Posted, ticketOnly
  <2> QED
    BY <2>1, <2>2, TicketStepKeepsProducts DEF MInv
<1> QED
  BY <1>1, <1>2, <1>3 DEF BothNext

LEMMA AlwaysMInv == BothSpec => []MInv
BY InitMInv, StepKeepsMInv, PTL DEF BothSpec

\* apply_moderation_event.py behind approve_ticket.py and block_ticket.py:
\* however late, often or out of order the rows arrive, B2B sells or blocks a
\* product only as a moderator decided whose request found the ticket in review.
THEOREM StatusesAreDecided == BothSpec => []StatusIsDecided
<1>1. ASSUME MInv
      PROVE  StatusIsDecided
  <2>1. ASSUME NEW p \in Products, status[p] \in DOMAIN ShownAs
        PROVE  \E i \in DOMAIN verdicts :
                  /\ verdicts[i].product = p /\ verdicts[i].status = ShownAs[status[p]]
                  /\ tSeen[verdicts[i].by] = "IN_REVIEW"
    <3>1. Decision(status[p], p)
      BY <1>1, <2>1 DEF MInv, StatusesFollowVerdicts
    <3> QED
      BY <1>1, <3>1 DEF MInv, TInv, Decision, VerdictsWereReviewed
  <2> QED
    BY <1>1, <2>1 DEF MInv, TInv, TicketsFollowMail, StatusIsDecided
<1> QED
  BY <1>1, AlwaysMInv, PTL

\* handle_b2b_event.py: a ticket is archived only for a product that a seller
\* deleted, or took back from moderation by deleting its last SKU.
THEOREM ArchivedWereWithdrawn == BothSpec => []ArchivedWasWithdrawn
<1>1. MInv => ArchivedWasWithdrawn
  BY DEF MInv, TInv, TicketsFollowMail, DeletionsAreMeant, Gone, ArchivedWasWithdrawn
<1> QED
  BY <1>1, AlwaysMInv, PTL
=============================================================================
