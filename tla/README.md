# A verification project for tochka-karas-b2b

TLA+ models of the marketplace in this repository, the TLC runs that check them
on small instances, and TLAPS proofs of what matters most for instances of any
size.  Everything is translated from the Python sources; file names below are
relative to `src/`.

Check a model with `tlc -config <cfg> <module>` (the `runs` of `PROJECT.json`
pair them), a proof with `tlapm <module>.tla`.

## 1. The system

Three FastAPI services, each with a PostgreSQL database of its own, and a
library they share.  A service runs one asyncio process or several; within one
process, requests interleave at every `await`, so every transaction boundary is
an interleaving point.

| Part | State | Operations | Models |
|---|---|---|---|
| B2B `inventory` | `skus.active_quantity / reserved_quantity`, `fulfilled_orders`, `processed_events` | `POST /inventory/reserve, unreserve, fulfill` | `Stock`, `Inventory`, `InventoryTx` |
| B2B `products`, `skus` | `products.status / deleted`, `skus`, outbox rows | create, edit, delete | `ProductLifecycle` |
| B2B `events`, `inbox` | `processed_events` | verdicts of moderation | `ProductLifecycle`, `Inbox` |
| B2B `invoices` | `invoices`, `invoice_items` | create | `ProductLifecycle` |
| B2B `public`, reads of `products` | none of its own | listing, card, batch, similar, facets, SKU; a seller's list and card | `PublicCatalog`, `Storefront` |
| moderation `tickets`, `queue` | `tickets` (status, owner), row locks, outbox | claim, release, approve, block | `Tickets` |
| moderation `events`, `inbox` | `processed_events` | CREATED, EDITED, DELETED of products | `Tickets` |
| moderation `blocking_reasons` | `blocking_reasons`, `tickets.blocking_reason_id` | create, update, delete, look-up by a block | `BlockingReasons` |
| `auth` of the three services, moderation `moderators` | accounts, `refresh_tokens`, `refresh_blacklist` | register, login, refresh, logout, block | `Sessions` |
| B2C `orders` | `orders`, `order_items`, outbox rows | checkout, cancel, mark delivered | `Orders` |
| B2C `cart` | `carts`, `cart_items` | add, update, remove, clear, merge; view, validate | `Cart`; `Storefront` |
| B2C `events`, `inbox` | `processed_events`, `sku_unavailability` | events of B2B | `Inbox` |
| B2C `addresses`, `payment_methods`, `favorites`, `subscriptions` | one table each | create, update, delete | `BuyerRecords` |
| B2C `buyers` | contents of a profile | update | not modelled |
| B2C `catalog`, `categories`, `home`, the list of favorites | banners, collections, a mirror of categories | views over B2B, tree, breadcrumbs | `Storefront`, `Categories` |
| shared `outbox` | one outbox table per service | enqueue, claim batch, send, retry | `Outbox` |
| shared `inbox` | one table per service | `IdempotentHandler` | `Inbox` |
| shared `db`, `http_clients` | sessions, pool, timeouts | | inside the models above |

How the parts interact:

* B2C calls B2B synchronously over HTTP: reserve at checkout, unreserve at
  cancellation, the public catalogue for whatever a buyer looks at.  Fulfill goes through B2C's outbox.  A call may fail, may be lost,
  and may take effect after the caller gave up.
* B2B and moderation talk through outboxes: submissions one way, verdicts the
  other way.  Moderation calls B2B back once, synchronously, when it approves.
* Inside one service the database is the shared state.  Most use-cases are
  *chains of transactions*: the repositories open a session per call, so a
  use-case reads in one transaction, decides in Python, and writes in another.
  The exceptions are the inventory use-cases, `claim_next`, the decisions of
  moderation together with their outbox row, and the insert of an order with its
  items.

What is hard about it, and what correctness means for each part:

* *inventory*: concurrent reserves of the same rows, retries of a request that is
  still running, several rows per request.  No unit is sold twice, none is
  lost or invented, each key takes effect once, nobody waits for ever.
* *orders*: everything a synchronous call between two databases can do wrong.
  One order per key, no order without a reserve, no reserve without an order
  but after a fault, no delivery without a fulfill, no cancellation that keeps stock.
* *tickets*: decisions against claims, releases and events that arrive at the
  same time.  One moderator per claim, one effect per event, B2B told of the
  decision the ticket shows.
* *product lifecycle*: sellers' chains against verdicts that arrive late or
  twice.  Every change is told to whom it concerns; a hard block holds.
* *cart*: writes computed from older reads, and a merge that is a loop of
  transactions.  No line beyond what B2B offered, nothing removed comes back, no
  increment and no guest's item is lost but to a race.
* *sessions*: one token presented several times at once.  A token is exchanged at
  most once, a login has at most one live token, a logout holds.
* *a buyer's records*: check, then write.  One default row, or two only after a race.
* *blocking reasons*: a reason is deleted while a block that found it active is on its
  way.  No ticket refers to a hidden reason but after a PATCH or that race.
* *the shop window*: an answer is put together from several statements, each with a
  snapshot of its own, and a listing from several requests.  What an answer says holds
  if nothing changed in between, and says no more than that if something did; the
  numbers of one answer agree with the rows of another.
* *outbox*: at least once, in the presence of crashes between send and mark.
* *inbox*: what a duplicated or racing delivery does.

`PROJECT.json` lists the hazards line by line, with the property that covers
each, or why none does; where the code is exposed to a hazard and a property only bounds the damage,
a note says what remains.

## 2. The modules

**Stock** holds the tables of the inventory and the effect of one committed
transaction.  `Move` is the UPDATE of the SKU rows, `ReserveEffect`,
`UnreserveEffect` and `FulfillEffect` the three endpoints.  `zeroKey` is the part
of the outbox table that can stop a reserve: reserve.py leaves the outbox key at
its default `UUID(0)`, under a UNIQUE column.

**Inventory** is the abstract specification: a request is one step, entirely or
not at all, or an answer that leaves the tables alone.

**InventoryTx** is the implementation.  `Lookup` opens the transaction and reads
the inbox or `fulfilled_orders`; `LockRow` and `SkipMissing` are the rows of
`SELECT ... ORDER BY id FOR UPDATE` one at a time; the `Commit` actions compute
from `copy`, the values the transaction read, and never from the table;
`UniqueViolation` and `Conflict` roll back.  `CheckReserves` and `DeleteRow` are
the two transactions of `delete_sku`.  `AtomicRequests` says that it implements
Inventory.

**Orders** runs checkouts, cancellations and deliveries of B2C against the tables
of Stock.  A call is in `net` until B2B serves it, whether its client still
waits or not: this is how a late call and a lost answer look alike to the client.
`EditCart` is every cart endpoint.  `Operate` stands for the shop's
operator: nothing in the repository moves an order from PAID to DELIVERING.

**Tickets** is the moderation service.  A request is `ReadTicket` (its guards),
`Check` (the call to B2B, or the lookup of reasons) and `Decide` or `Release`; an
event is `RecordKey` and then its effect.  Only `SelectNext` holds a row lock.
`mail` is what B2B sent; deliveries take any of it, in any order, repeatedly.

**BlockingReasons** extends Tickets by the catalogue of reasons.  A block is `StartBlock`,
one `LookUp` per reason and `DecideBlock`; a DELETE is `BeginChange`, `FindReferences`,
`SetActive`, three transactions.  Every step is a step of Tickets or leaves its variables
alone, which is proved (`ReasonsRefineTickets`); so Tickets needs no run of its own.
`met` records which blocks and DELETEs were under way together.  `SendInOrder` keeps of B2B only that an
edit is told after a CREATED; a product may be deleted that was never submitted.

**ProductLifecycle** is B2B's side, invoices included.  A request is `Load`, its own change, a count
of SKUs, and then `todo`, the remaining transactions of its chain, which a crash
cuts anywhere; create_sku fails at its images (`InsertImages`) if its SKU was deleted meanwhile.
Verdicts are chains too, ending in the inbox record.  `changed` is history: the status
that each chain has set, or that it deleted the product.  No action reads it; it is what
outbox rows are counted against.
Requests that the caller's rights or the payload refuse change nothing and are
left out; `Load` reads product and SKU in one step; the transactions by which
create_product fills a new product, which no one else sees yet, are one step.

**Moderation** composes the two: it extends ProductLifecycle and has Tickets as the
instance `T`; `mail` of the one is `mail` of the other, and likewise `verdicts`.  A step
is one of either side, or `CheckInB2B`, which ties approve to B2B's answer.

**Cart** has the carts of a guest and of the buyer the guest becomes.  `WithCart` and
`CreateCart` find or insert the cart, `ReadItem` reads the item and asks B2B for the
stock, and `Add`, `UpdateItem`, `RemoveItem` write.  A merge is `ListItems`, then
`NextItem` and `MergeItem` for each item, then `DeleteGuestCart`.  `Shelf` is the
most B2B ever answers; refusals are possible at any amount, as B2B may have less
or be away.  Requests never hold a row between two statements, so a row may be
gone, or be another one, when they write: `Alive`.  The tables of carts are `carts`
and `line`, the specification is `CartSpec`: Cart is proved about next to Orders.

**PublicCatalog** is what B2B shows: the tables, each statement of
`catalog_repository.py` and of the seller's list as an operator over them (`ShortPage`,
`TotalCount`, `Found`, `AttachSkus`, `Samples`, `FacetRows`, `PriceRange`), and `Change`,
any one committed change of product, stock, price or SKU by the rest of B2B.  The default
isolation of PostgreSQL gives every statement a snapshot of its own, also inside one
session, so a change may fall between any two.

**Storefront** follows one read request from the question to the answer, statement by
statement, and a listing over all its pages (`walk`, with the products that stayed
throughout, whether others left, came or changed places, and whether two of the rows had one
time of creation).  It is the translation of
parameters by B2C (`B2BQuery`, `Clamp`), the answers B2C works out (`CardOf`, `CartItem`,
`CartResponse`, `ValidateResponse`, `CollectionResponse`), the errors, and
`ShopChanges` between two statements.  `raced` says that a change fell in between.
Collections, banners, favorites and lines of carts are chosen with the request,
as no code here writes the first two and the others are BuyerRecords' and Cart's.

**Categories** has the tree of `get_tree` and `get_flat`, built from the roots down, and
the walk of `get_breadcrumbs` from a category up, as recursive functions over one read of
the table; Storefront asks them over every hierarchy of three categories, cycles included.

**Sessions** is `auth` of the three services, told apart by `service`, as they are
almost the same: sellers have an INN besides the email, moderators are created
by an admin and may be blocked, and B2C and moderation check other things of an
account than B2B.  A token is named by the request that got it.  A refresh is
`CheckBlacklist`, `CheckRow`, `CheckAccount`, `Revoke`, `DeleteRow`, `IssueRow`, `Answer`,
each a transaction; a logout takes the first and `Revoke`.

**BuyerRecords** has the two tables with a default row as one, and the two lists of products
as two, for one buyer (all statements are restricted to the caller's rows).
`UnsetOthers` and the write that follows are two transactions; so are the lookup
in a list and the INSERT.

**Outbox** is the shared table and its workers.  A tick is one transaction:
`Claim` takes a batch with SKIP LOCKED, `SendOk` and `SendFails` collect
`marks`, `CommitTick` writes them, `Rollback` loses them although the target
received the rows.  The dispatch function is a parameter of the worker and not in
the repository; it is modelled as answering, failing, or failing late.

**Inbox** is IdempotentHandler with its session and the connection pool.  For
the keys in `OwnTransactions` the handler commits through sessions of its own (B2B's
`apply_moderation_event`); for the others it writes through the inbox's session
(B2C's product events).  Of the former only the moment its effect is committed counts here; the chain
of transactions is ProductLifecycle's.  Moderation does neither, it records the key first, and
is in Tickets.

**InventoryTxProofs, ProductLifecycleProofs, BuyerRecordsProofs, StorefrontProofs** hold the theorems
about the modules they are named for, **PurchaseProofs** those about Orders and Cart,
**BlockingReasonsProofs** those about Tickets and BlockingReasons, **SharedProofs** those about what the
services have in common: Outbox, Inbox and Sessions.  **Sums** has what the proofs need of sums over finite sets.

Definitions marked `Mutant` are plausible wrong versions of the definition after
them.  Each property is shown to fail under one of them.

## 3. The runs

| Run | Asks | Instance |
|---|---|---|
| `InventoryTx` | stock adds up, no oversale, one effect per key, every open transaction is answered, implements `Inventory` | 3 requests of every kind and content, 2 SKUs of 2 and 1 units, 2 keys, 1 order, one SKU deletable |
| `Orders` | one order per key, orders are reserved, orphan and negative reserves explained, delivered is fulfilled, cancelled is unreserved | 2 checkouts, 1 cancel, 1 delivery, 2 SKUs, 1 change of the cart |
| `Tickets` | claims exclusive, decision is sent, what reopens a hard block, what hides a reason in use (`BlockingReasons`) | 1 product, an admin, 3 requests, 2 deliveries, 2 events, 3 reasons, 2 requests to the catalogue |
| `ProductLifecycle` | every change is told in one row, when a product is submitted twice, lines of invoices keep their SKUs, what lifts a hard block | 1 product, 3 requests, 2 deliveries of 1 verdict |
| `Moderation` | B2B shows only what was decided, archived was deleted or taken back | 1 product, 2 sellers' and 3 moderators' requests, 2 deliveries |
| `Outbox` | deliveries accounted for, every row settles | 2 rows, 2 workers, batches of 2, 2 retries, 2 faults |
| `Inbox` | at most once where nothing went wrong, exactly with the record in one session, every delivery is answered | 4 deliveries, 2 keys of either kind, 3 connections |
| `Sessions` | one live token per login, logout holds, what ends a login | 4 requests of any kind, 2 accounts that would share an INN, each service |
| `Cart` | lines fit the stock, removed stays removed, an increment is lost only to a race, a merge keeps every item or the guest's cart | 3 requests, 2 carts, 2 SKUs of which B2B has 2 |
| `BuyerRecords` | two defaults only by a race, the last word counts | 3 requests, 2 old addresses, 2 lists |
| `Storefront` | what is missing from or twice in a listing, a card's price and stock, facets against the listing, carts valid or not, tree against breadcrumbs | any one read request, 3 products, 4 SKUs, pages of 1 or 2, 2 changes, hierarchies of 3 categories |
| `InventoryTxOutboxKey` | a sentence of the repository that the code does not keep (section 5) | as `InventoryTx` |

Why these bounds are enough to be interesting.  A lost update, a double effect or a
lock cycle takes two requests and two rows; the third request lets a retry or an
unreserve meet two others, and stocks of 2 and 1 let one pair of reserves fit
and another not.  In Orders two checkouts may share a key, the cart may change between
them, and an order may meet one cancellation and one delivery at the same time.
`InventoryTx` takes alike requests in one order (`MCInit`) where a symmetry would not do,
liveness being checked with it: requests that have not begun differ in nothing, so any
behaviour is one of these up to their names.
In Tickets and ProductLifecycle every race found is between a reader and one
writer; the third request is the one that restores the state in between (claim
after release, create after delete).  One product is enough in Tickets, as no step reads
two tickets but the queue, and the proofs hold for any number; three reasons are one hard,
one soft and one that shares a code.  In Storefront three products fill two pages and leave one over
for a change to push across the border, two of them created at the same time; two changes let a
product go and come back, or one leave and another come.
In Moderation a ticket goes through claim,
decision and a second decision.  In Outbox `MaxRetries = 2` has a
first, a middle and a last try; two faults let both workers lose a batch.  In Sessions the fourth request
lets a logout and two refreshes meet on the token of a login.  In Cart and in BuyerRecords two
requests race and the third removes what they read, or puts right what they left.
In Inbox a pool of 3 lets three outer sessions starve each other.
`MaxQty`, `MaxEdits`, `MaxMail`, `MaxVerdicts` and `MaxDowns` bound counters
that the code leaves unbounded and appear only in guards.

Deadlock is checked for `InventoryTx`, where a transaction must never be stuck
(`AllAnswered` is its proper end).  The other systems may simply come to rest when
all requests are answered (in Storefront, the one there is), so their configurations turn the check off.

### Fairness

* `InventoryTx`: weak fairness of each request's own steps.  The event loop runs a
  ready coroutine and PostgreSQL grants a free row lock.  Requests need not arrive,
  and faults need not happen.  Deletion of a SKU is not fair either.
* `Outbox`: weak fairness of a worker's own steps, restart included, and of the
  backoff timer.  `worker.py` loops until it is stopped and survives a failing
  tick.  Faults are finitely many (`MaxDowns`); without that a row may be
  claimed and rolled back for ever.  No service of the repository starts a
  worker, so the liveness result is one about the library.
* `Inbox`: weak fairness of each delivery.  The event loop, the database and the
  pool's timeout go on; the timeout is what makes the property true.

## 4. The proofs

All theorems hold for any sets of SKUs, requests, keys, rows and so on, under the named
`ASSUME`s of the modules: identifiers of different kinds are different, stocks are
naturals, the pool and the batch have room for one, and what a sum is taken over is
finite (`OrderIds`, `IdemKeys`, the `Requests` of Cart).  PublicCatalog has a finite catalogue whose
SKUs have products and whose prices are naturals (`CatalogAssumption`: a foreign key, NOT NULL,
kopecks); in Storefront a line of a cart has a quantity of one at least and the product of its SKU or none,
and a limit is positive (`StorefrontAssumption`).  An invariant is proved by a
strengthening `IInv`: `Init => IInv`, `IInv /\ [Next]_vars => IInv'`, `IInv => Inv`.

* `Sums`.  `MapThenSumSet` of the community modules takes the elements of a set in an
  order of its choice.  The facts that matter (`SumSplit`: any element can be taken out;
  `SumChange`: a sum changes by as much as its only summand that does; `SumOrder`:
  larger summands make a larger sum) need induction over the subsets of a finite set.
  It is done as the search for a smallest counterexample, in the set of subsets where
  the claim fails (`Smallest`), as induction theorems with an operator parameter are of no use here.
* `InventoryTxProofs`.  `IInv` adds to the checked invariants that a lock is held
  exactly by an open transaction that visited an existing row (`LocksMatch`,
  `HeldRowsExist`), that rows are visited in order (`VisitsInOrder`), that `todo` is
  what the lookup left (`TodoIsRight`), and that an applied request is recorded
  (`AppliedIsRecorded`).  The current copy is what makes a computed value equal to
  the new value of the table; the record is what makes the second commit of a key
  fail.  From it: `TypeCorrect`, `CopiesCurrent`, `LocksAscend`, `NeverOversold`,
  `EffectAtMostOnce`, `BooksAreKept`, and `ImplementsInventory`, the refinement.
  `NoUnitLost` makes the step-wise `BooksAreKept` a statement about all that was ever
  shipped: the sum over the orders follows the one summand that a fulfill changes.
* `BlockingReasonsProofs`.  First Tickets.  A lock belongs to a claim between its SELECT and its UPDATE
  (`LocksAreClaims`), and every delivery past `idle` left its key in the inbox
  (`DeliveriesAreRecorded`).  From it: `TypeCorrect`, `EventsTakeEffectOnce`,
  `ClaimsAreExclusive`.  A handler that goes on with a ticket saw it neither archived nor
  hard blocked (`SeenAlive`), from which `ReopenedOnStaleReads`.  For every decided ticket
  there is an outbox row that tells of it and none later (`DecisionIsLast`): a decision
  and its row are one transaction.  From it `DecisionsAreSent`.
  Then the catalogue.  `ReasonsRefineTickets` maps every step to one of Tickets or a
  stutter.  `HiddenReasonsWereRaced` takes `RInv`: who is under way together has met
  (`MetIsComplete`); the first reason of a block that looked it up is offered still, or
  was patched away or deleted while the block ran (`FirstIsOffered`); what a DELETE
  found unreferenced is referred to only by blocks it met (`ReferencesCameLater`);
  and what is hidden is explained (`HiddenIsExplained`).  The look-up of the block and
  the search of the DELETE guard against each other, and only one that began before
  the other ended can slip through.
* `SharedProofs`.  Outbox: what a worker has claimed is in one of its two hands
  (`HandsInOrder`), and failures counted in the table are never more than those
  that happened (`FailuresAreCounted`).  From it: `OutboxTypeCorrect`, `RowsAreNotShared`,
  `DeliveriesAddUp`, `NotGivenUpEarly`, `SettledRowsStay`.
  Inbox: an uncommitted record is the only one of its key
  (`PendingIsUnique`), and a handler with own transactions committed before
  (`RanIsApplied`).  From it: `TypeCorrect`, `RecordsAreTrue`, `OneSessionIsExactlyOnce`.
  `CleanRunsCount` counts without numbers: an event applied twice has two deliveries past
  their handlers (`EffectsHaveRuns`), of which one at most is done (`DoneIsUnique`).
  Sessions: `SessionsIInv` says which request holds which token at which stage
  (`StagesFit`), that a token's child belongs to the same login (`TokensDescend`),
  that a token someone could use is stored or was revoked (`StoredOrRevoked`,
  `UsedAreRevoked`), and that each login is carried by one token or one request
  (`OneCarrier`).  The last is the reason: UNIQUE in the blacklist lets one request through, and
  only that one issues.  From it: `SessionsTypeCorrect`, `TokensAreUsedOnce`,
  `LoginsHaveOneToken`, `LogoutsHold`.  A second, smaller invariant says that who
  registered has an account (`RegisteredHaveAccounts`), and gives `AccountsStayUnique`.
  A third says that only issued tokens are revoked and that every login whose client got a token has
  a `Reason`, a request that carries it on or accounts for its end (`ReasonInv`): each step
  that takes a reason away puts another of the same login in its place.  It gives
  `EndedLoginsHaveReasons`.
* `PurchaseProofs`.  Orders: an order is there from the step that answers 201 (`CreatedExist`),
  under a key of its own (`KeysAreUnique`); a request's order exists (`TargetsExist`); a 200
  of B2B, however late, means that the effect is in its tables (`AnswersAreTrue`), and
  SENT that all items are fulfilled (`SentIsFulfilled`).  From it: `TypeCorrect`,
  `KeysHaveOneOrder`, `OrdersHaveReserves`, `CancelledGaveBack`, `DeliveredHaveRows`.
  `OrphansAreExplained` takes a second invariant: a call is under way only for a client
  that waits, gave up or died (`CallsArePending`), and what is booked has its order, or a
  checkout that is still to take B2B's 200 or never will (`BookersRemain`).
  `NegativeReservesExplained` takes a third, the books of reserved_quantity: it is the sum, over
  the keys, of what was booked under the key less what the key's order gave back by a
  cancellation or a delivery (`BooksAgree`).  A reserve, an unreserve or a fulfill moves the SKU and
  one summand by the same amount; a summand is negative only where the theorem says.

  Cart: every step is told by what it does to the one request that moves (`Turns`) and to a
  line (`LineMoves`), and `CartIInv` is kept by such moves.  What a request is about to
  write B2B has offered (`WritesFit`); no row's id is inserted twice (`IdsAreSpent`); an addition
  knows what is in its item unless someone wrote it since (`SeenIsCurrent`); what was answered
  before a merge began is listed by it, and what the merge is done with is in the buyer's cart
  unless another request overlapped (`MergesFit`); what a removal is about to remove
  is there, or at most what later requests asked for, a sum over requests (`RemovalsFit`).  From it:
  `CartTypeCorrect`, `CartFitsTheShelf`, `RemovedItemsStayRemoved`, `OnlyRacesLoseIncrements`,
  `CartsAreMergedOrKept`.
* `ProductLifecycleProofs`.  `Types` has the finitely many chains a request or a delivery can
  have left (`RequestChains`, `HandlerChains`) in place of all sequences.  `WorkInOrder` says whose they
  are: a chain under way is not empty and an answered one is done (`ChainsAreKnown`), a
  submission belongs to create_sku and no chain that begins with a status to a request that saw HARD_BLOCKED
  (`ChainsFitJobs`), a SKU to the request that made it (`SkusAreMade`), an invoice's
  line to a SKU that is there (`InvoicesAreMade`).  From it: `TypeCorrect`, `LinesKeepTheirSkus`,
  `OnlyStaleReadsCanUnblock`.  `ChangesAreAlwaysTold` adds `ChangesFit`: what is left of a chain says
  which change it has made, if any (`LeftAfter`), so that a chain makes one change at most and tells it
  after.  The rows of a kind and the changes told by them are then two sets that grow together: no
  step but the insert of a row makes a change told (`QuietSteps`), what was told of a product stays so
  (`ToldStands`), and the insert adds one to both sets or to neither (`TallyGrows`, `MailTally`,
  `ShopTally`); they are finite and of one size from the start.
  `SecondSubmissionsFollowDeletes` adds `Few`: of two requests that submit one product as its
  first SKU, or have, the SKU of one is gone, since each counted exactly one.
  The same module proves Moderation, with `MInv`: the invariant above holds there too, as
  moderation only appends verdicts (`VerdictsGrow`).  `StatusesFollowVerdicts` ties a status,
  or a chain that is to set one, to the verdict it was made from, `VerdictsWereReviewed` the
  verdict to a request that had read IN_REVIEW (`TicketsAreRead`): `StatusesAreDecided`.
  `TicketsFollowMail` ties a ticket and its archiving to B2B's rows, `DeletionsAreMeant` a row
  DELETED, or a chain that is to post one, to a deletion of the product, or to a request that set it
  back to CREATED and whose SKU is gone for good (`EmptiedStays`): `ArchivedWereWithdrawn`.
* `StorefrontProofs`.  An invariant per kind of answer, each over `ShopTypeOK` and the shape of a
  request, and all of one form: a first statement's result is true of the tables until a change sets
  `raced`, and an answer is what the code makes of it.  `CardInv` and the fact that a least element of
  a set of naturals exists give `CardsStayCurrent`.  `FacetInv` gives
  `FacetsAlwaysCountTheListing`: what remains is that the two translations of the parameters select
  the same rows (`FacetCounts`) and that the range of prices cuts off none (`RangeCovers`).
  `CartInv` gives `CartsStayCurrent`: a batch is a set of products, each found visible, and a line is
  orderable exactly if its SKU is in that batch with the stock (`EnrichedLine`, `EnrichedCart`); so the
  half of the promise that speaks of stock holds whatever the first statement saw.

  `PagesStayExplained` is about sequences, and is proved by ranks instead.  The rank of a row is
  the number of rows before it, a cardinality; a sequence sorted by a strict total order has each row at its
  rank (`SortedByRank`), there is one (`SortedExists`, without induction: the rows are put
  at their ranks), and a page is the rows with ranks from `offset` to `offset + limit` (`PageIsStretch`).
  `PagesInv` then says (`Walked`) that, unless a row left or changed places, each row that stayed
  was read or has a rank not below the next offset; and that, unless one came or changed places, what was read
  is read once and has ranks below it.  A change keeps this as ranks only move when someone left, came or
  moved (`WalkIsKept`).  `TotalInv` has the same for the number of rows, which decides whether there is a
  next page; the seller's list counts first, so there it needs that nobody came either.
  The attempt to prove it found the property wrong for the seller's list: a tie excuses a missing row
  even when one of the two has gone by the time the walk ends.  TLC had not met it while the tie of
  its instance was between the oldest products; it is between the newest now, and `walk.tied`
  remembers it.
* `BuyerRecordsProofs`.  A request precedes another if it had ended when that began
  (`BeforeIsEnded`).  A default row is so by a request that is done (`SettersAreDone`);
  between UnsetOthers and the write another default can only come of a
  request that was under way (`OthersAreLater`), and likewise a list's row between
  lookup and INSERT (`MarksAreLater`).  From it: `TypeCorrect`, `DefaultsRaced`,
  `LastWordsCount`, `FailuresRaced`, `AnswersHold`.

Some invariants are proved and not run, as a proof says more than a run: the types of
these modules, `CopiesAreCurrent`, `LockOrder` and `EveryStepConserves` of
InventoryTx, `EventOnce` of Tickets, `OneWorkerPerRow` of Outbox, `RecordedIsApplied` of
Inbox, `TokenIsUsedOnce` and `AccountsAreUnique` of Sessions, `GivenUpAfterRetries` and `SettledIsFinal` of
Outbox, `AnsweredMarksHold` and `FailedAddWasRaced` of BuyerRecords, `ShopTypeOK` of PublicCatalog.

Only model-checked: all liveness (the prover has no rule for fairness or ENABLED), and
`TreeAgreesWithCrumbs`, which is about two recursive functions over paths and a fold over their
results: it holds for a reason (a path down is a walk up) that takes an induction over data.
Every other safety property of a run is proved.
No module declares a RECURSIVE operator.

## 5. Where the code and its documents disagree

One is the run that expects a violation, `UniqueViolationMeansRepeat`: all
SKU_OUT_OF_STOCK rows of reserve share one outbox key, so the second SKU to run out
makes its reserve fail with 500.

More are stated in the modules, under "What comments say", and
fail when put into the configuration of their module in place of its properties:
`ReservedSkuStays` (InventoryTx: a reserve commits between the guard and the
DELETE of delete_sku), `ReserveCoversFulfill` and `FulfillMeansDelivered` (Orders:
reserved_quantity below zero; the outbox row commits before the status),
`HardBlockIsFinal` and `DecidedByHolder` (Tickets: decisions on stale reads),
`ReferencedIsNotDeleted` (BlockingReasons: delete.py:15-18 promises that no reason in use is
deleted; a block may set it between the search and the update),
`HardBlockedIsTerminal` and `FirstSkuIsSubmitted` (ProductLifecycle, the second
with two requests: stale statuses, two first SKUs at once), `AtMostOnce` (Inbox: B2B
applies a verdict before it records it), `LoserIsReplayed` (Inbox: the loser of a race for
a key answers 500, its session being of no use after the rollback),
`CancelOnlyCancelable` (Orders: an order that moved on while B2B was asked is
cancelled all the same), `SubmissionGetsTicket` (Moderation: a product withdrawn with its last
SKU and submitted again never gets a ticket), `LogoutAlwaysEndsLogin` (Sessions: a refresh that
revoked the token first goes on), `IncrementsNotLost` and `NothingLeftBehind` (Cart:
two additions at once; an item added to a guest's cart after the merge listed it),
`OneDefault` and `AddIsIdempotent` (BuyerRecords: two requests at once).  For most of them a checked
property says how far things can go wrong: `NegativeReserveExplained`,
`OnlyStaleReadsReopen`, `HiddenReasonWasRaced`, `OnlyStaleReadsUnblock`, `SecondSubmissionAfterDelete`,
`CleanRunsApplyOnce`, `LogoutEndsLogin`, `IncrementsCountAlone`, `MergedOrKept`, `TwoDefaultsWereRaced`,
`FailedAddWasRaced`.

Not modelled, but noticed while reading: B2B's events are named CREATED, EDITED, DELETED and
moderation expects PRODUCT_CREATED and so on; the verdict says
`blocking_reason_ids` where B2B reads `blocking_reason_id`; approve asks for
a product with a service key on a route that wants a seller's token.  The first two
would be the business of the dispatcher, which does not exist yet; the
models take the messages as understood.

The shop window has more of them.  What the models contain, as the code does it:

* Favorites are enriched over `GET /api/v1/products?ids=`, a route that wants a seller's
  token (b2b products/routers.py:57) while the client sends a service key: PUT is always
  503 and the list always without items, where list_favorites.py:30 promises them.
* catalog_repository.py:114 speaks of filters on the minimal price; the code asks for
  one SKU above the lower bound and one, maybe another, below the upper.
* A sold-out product leaves the batch, so the cart calls it PRODUCT_DELETED.
  get_product.py says both that such a product is 404 and that it is shown with no stock.
* A cycle of categories is 422 for breadcrumbs, and silently missing from the tree.
* Facets of B2C leave out seller and search and drop the range of prices.
* The route of similar products admits 50, the use-case clamps to 20; a collection has
  no handling of errors, so B2B being away is a 500.

And what they abstract from: list_products.py:199 says B2B escapes the special characters of
LIKE, catalog_repository.py:111 does not; the error for long searches says 255 characters,
the check 200; the docstring of the banner model puts the greatest priority first (banner.py:17),
the query the least; the home client finds neither price nor image in full cards;
two creations of a reason with one code at once end in a 500 instead of 409, and PATCH
with `is_active: null` runs into NOT NULL.

## 6. Not modelled

* Lists and cards of moderation and of orders: single reads of what the models above hold.
* B2C `buyers`: one read, and one UPDATE of the contents of a profile.
* Contents: names, prices, images, characteristics, addresses, reasons' texts.
* Rights: a request that is refused for its caller changes nothing.
* The encoding of JWTs and password hashing, HTTP parsing, logging, migrations.
* `sku_unavailability` in B2C: written, but read nowhere.
* A product edited after approve asked B2B for it and before the verdict arrives is
  shown MODERATED in a version nobody reviewed.  Contents are abstract, so no
  property says so.

## 7. Plan

1. *(done)* inventory: `Stock`, `Inventory`, `InventoryTx`, their proofs.
2. *(done)* orders over it; tickets; the product lifecycle; both composed.
3. *(done)* the shared outbox and inbox, with proofs.
4. *(done)* the cart; sessions, with proofs; a buyer's records; invoices.
5. *(done)* blocking reasons, with proofs; the catalogue and all that B2C makes of it.
6. *(done)* proofs of every safety property but `TreeAgreesWithCrumbs`.
7. Left: Outbox under the names of its three services, composed with Moderation in place
   of the plain sequences `mail` and `verdicts`.
