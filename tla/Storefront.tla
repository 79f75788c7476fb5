------------------------------ MODULE Storefront ------------------------------
(***************************************************************************)
(* What a buyer and a seller are shown: the read requests of b2c (catalog,  *)
(* cart, favorites, home, categories) and of the seller's cabinet, each one *)
(* a chain of statements over the tables of PublicCatalog with committed    *)
(* changes of other requests in between.  One request is followed from the  *)
(* question to the answer; a listing is followed over all its pages.        *)
(*                                                                         *)
(* Tables that nothing in this code writes (collections, banners, the       *)
(* category mirror) and the lines of a cart are chosen with the request.    *)
(***************************************************************************)
EXTENDS PublicCatalog

CONSTANTS Sellers,
          BuyerFilters,     \* parsed ?filter[...] of the buyer's listing
          Searches,         \* ?q: None, "blank", "short", "long" or a term
          Sorts,            \* ?sort: None or a word, known or not
          Limits, PageCap, SimilarCap,
          Carts,            \* sequences of [sku, product, quantity]
          Collections,      \* slug of a collection -> ordered product ids
          Favorites,        \* sequences of product ids
          Banners,          \* banner -> [active, from, to, priority]
          Clock,
          CategoryIds

\* A line of a cart has a quantity of at least 1 and the product B2B named for
\* its SKU, or NULL; a reason is no NULL; the routes refuse a limit below 1.
ASSUME StorefrontAssumption ==
    /\ \A lines \in Carts :
         /\ lines \in Seq([sku : Skus, product : Products \cup {None}, quantity : Nat \ {0}])
         /\ \A line \in ToSet(lines) : line.product \in {None, ProductOf[line.sku]}
    /\ None \notin {"PRODUCT_DELETED", "OUT_OF_STOCK", "QUANTITY_REDUCED"}
    /\ Limits \subseteq Nat \ {0} /\ PageCap \in Nat \ {0}

VARIABLES req,              \* the request in progress
          walk              \* history of a listing read page by page

vars == <<shop, req, walk>>

Tree == INSTANCE Categories

Idle == [kind |-> None, arg |-> None, stage |-> "idle", read |-> None, raced |-> FALSE, answer |-> None]

NoWalk == [stay |-> {}, left |-> FALSE, came |-> FALSE, tied |-> FALSE, shown |-> << >>]

Init == ShopInit /\ req = Idle /\ walk = NoWalk

Unasked == req.stage = "idle"

Ask(kind, arg) == req' = [Idle EXCEPT !.kind = kind, !.arg = arg, !.stage = "first"]

AskAndAnswer(kind, arg, answer) ==
    req' = [Idle EXCEPT !.kind = kind, !.arg = arg, !.stage = "done", !.answer = answer]

At(kind, stage) == req.kind = kind /\ req.stage = stage

Read(value) == req' = [req EXCEPT !.stage = "second", !.read = value]

Answer(value) == req' = [req EXCEPT !.stage = "done", !.read = None, !.answer = value]

Error(code) == [error |-> code]

Answered(kind) == At(kind, "done") /\ "error" \notin DOMAIN req.answer

Still == UNCHANGED <<shop, walk>>

-----------------------------------------------------------------------------
(* Listings: the buyer's (rows, then their number) and the seller's (the    *)
(* number, then the rows).                                                  *)

SortNames == [price_asc |-> "price_asc", price_desc |-> "price_desc",
              popularity |-> "popular", new |-> "created_desc"]

SortIsValid(sort) == sort = None \/ sort \in DOMAIN SortNames

SearchIsValid(search) == search \notin {"short", "long"}

\* The buyer's parameters under the names B2B gives them.
B2BQuery(filter, sort, search) ==
    [category |-> filter.category, seller |-> filter.seller,
     min |-> filter.price_min, max |-> filter.price_max, traits |-> filter.attributes,
     sort |-> SortNames[IF sort = None THEN "popularity" ELSE sort],
     search |-> IF search = "blank" THEN None ELSE search]

Clamp(limit, cap) == Max({1, Min({limit, cap})})

Members(kind, q) == IF kind = "list" THEN Listed(q) ELSE SellerListed(q)

\* Rows that the seller's list, which breaks no ties, may answer in any order.
Tied(set) == \E p, r \in set : p # r /\ CreatedAt[p] = CreatedAt[r]

StartWalk(kind, q) ==
    walk' = [stay |-> Members(kind, q), left |-> FALSE, came |-> FALSE,
             tied |-> Tied(Members(kind, q)), shown |-> << >>]

AskList ==
    /\ Unasked
    /\ \E filter \in BuyerFilters, sort \in Sorts, search \in Searches, limit \in Limits :
         /\ IF SortIsValid(sort) /\ SearchIsValid(search)
            THEN LET q == B2BQuery(filter, sort, search)
                 IN  /\ Ask("list", [q |-> q, limit |-> Clamp(limit, PageCap), offset |-> 0])
                     /\ StartWalk("list", q)
            ELSE AskAndAnswer("list", None, Error("InvalidRequest")) /\ UNCHANGED walk
         /\ UNCHANGED shop

AskMine ==
    /\ Unasked
    /\ \E seller \in Sellers, state \in {None, "MODERATED", "ON_MODERATION"}, all \in BOOLEAN,
          search \in {None} \cup DOMAIN Titled, limit \in Limits :
         LET q == [seller |-> seller, status |-> state, deleted |-> all, search |-> search]
         IN  /\ Ask("mine", [q |-> q, limit |-> limit, offset |-> 0])
             /\ StartWalk("mine", q)
             /\ UNCHANGED shop

ReadRows ==
    /\ At("list", "first")
    /\ Read(ShortPage(req.arg.q, req.arg.limit, req.arg.offset))
    /\ Still

CountRows ==
    /\ At("list", "second")
    /\ Answer([items |-> req.read, total |-> TotalCount(req.arg.q)])
    /\ walk' = [walk EXCEPT !.shown = @ \o req.read]
    /\ UNCHANGED shop

CountMine ==
    /\ At("mine", "first")
    /\ Read(Cardinality(SellerListed(req.arg.q)))
    /\ Still

ReadMine ==
    /\ At("mine", "second")
    /\ \E page \in SellerPages(req.arg.q, req.arg.limit, req.arg.offset) :
         /\ Answer([items |-> page, total |-> req.read])
         /\ walk' = [walk EXCEPT !.shown = @ \o page]
    /\ UNCHANGED shop

HasNextPage ==
    /\ Answered("list") \/ Answered("mine")
    /\ req.arg.offset + req.arg.limit < req.answer.total

\* The client asks for the next page, as the total of this one tells it to.
NextPage ==
    /\ HasNextPage
    /\ req' = [req EXCEPT !.stage = "first", !.arg.offset = @ + req.arg.limit,
                          !.raced = FALSE, !.answer = None]
    /\ Still

-----------------------------------------------------------------------------
(* Cards, similar products, facets, a single SKU.                           *)

AskCard ==
    /\ Unasked
    /\ \E p \in Products \cup {None} : Ask("card", p) /\ Still

ReadCard ==
    /\ At("card", "first")
    /\ IF req.arg \in Products /\ Visible(req.arg) THEN Read(req.arg) ELSE Answer(Error("NotFound"))
    /\ Still

\* Mutant: the price may be that of a SKU out of stock.
CardOfAll(rows) ==
    [skus |-> rows, has_stock |-> \E s \in DOMAIN rows : rows[s].active > 0,
     min_price |-> IF rows = <<>> THEN 0 ELSE Min({rows[s].price : s \in DOMAIN rows})]

\* Price and stock of the card are worked out again, from its SKUs.
CardOf(rows) ==
    LET selling == {s \in DOMAIN rows : rows[s].active > 0}
    IN  [skus |-> rows, has_stock |-> selling # {},
         min_price |-> IF selling = {} THEN 0 ELSE Min({rows[s].price : s \in selling})]

ReadCardSkus ==
    /\ At("card", "second")
    /\ Answer(CardOf(AttachSkus({req.arg})[req.arg]))
    /\ Still

AskOwnCard ==
    /\ Unasked
    /\ \E p \in Products, seller \in Sellers :
         Ask("own", [product |-> p, seller |-> seller]) /\ Still

ReadOwnCard ==
    /\ At("own", "first")
    /\ LET p == req.arg.product
       IN  IF SellerOf[p] = req.arg.seller
           THEN Read([status |-> status[p], deleted |-> deleted[p], blocked |-> status[p] = "BLOCKED"])
           ELSE Answer(Error("NotFound"))
    /\ Still

ReadOwnSkus ==
    /\ At("own", "second")
    /\ Answer([row |-> req.read, skus |-> AttachSkus({req.arg.product})[req.arg.product]])
    /\ Still

\* b2c's route admits limits above the cap its use case clamps to.
AskSimilar ==
    /\ Unasked
    /\ \E p \in Products \cup {None}, limit \in Limits :
         Ask("similar", [product |-> p, limit |-> Clamp(limit, SimilarCap)]) /\ Still

ReadCategory ==
    /\ At("similar", "first")
    /\ IF req.arg.product \in Products THEN Read(CategoryOf[req.arg.product])
                                      ELSE Answer([items |-> {}, total |-> 0])
    /\ Still

ReadSample ==
    /\ At("similar", "second")
    /\ \E set \in Samples(req.arg.product, req.read, req.arg.limit) :
         Answer([items |-> {Short(p) : p \in set}, total |-> Cardinality(set)])
    /\ Still

\* b2c passes on the category and the prices, not the search or the seller.
AskFacets ==
    /\ Unasked
    /\ \E filter \in BuyerFilters :
         /\ Ask("facets", [category |-> filter.category, seller |-> None, min |-> filter.price_min,
                           max |-> filter.price_max, traits |-> NoTraits, sort |-> None, search |-> None])
         /\ Still

ReadFacets == At("facets", "first") /\ Read(FacetRows(req.arg)) /\ Still

\* b2c's answer has no field for the price range of B2B's.
ReadPriceRange ==
    /\ At("facets", "second")
    /\ req' = [req EXCEPT !.stage = "done", !.read = PriceRange(req.arg), !.answer = [facets |-> req.read]]
    /\ Still

AskSku ==
    /\ Unasked
    /\ \E s \in Skus :
         /\ AskAndAnswer("sku", s, IF SkuIsPublic(s) THEN [sku |-> skus[s]] ELSE Error("NotFound"))
         /\ Still

-----------------------------------------------------------------------------
(* Batches: the cart, its validation and the collections.                   *)

ProductIds(kind, arg) ==
    CASE kind \in {"cart", "validate"} -> {line.product : line \in ToSet(arg)} \ {None}
      [] kind = "collection"           -> ToSet(Collections[arg])

Batched == {"cart", "validate", "collection"}

NoBatch == [p \in {} |-> << >>]

\* _enrich_item: a line of the cart against the card of its product, if any.
CartItem(line, batch) ==
    LET offered == line.product \in DOMAIN batch
        found == offered /\ line.sku \in DOMAIN batch[line.product]
        row == batch[line.product][line.sku]
        active == IF found THEN row.active ELSE 0
    IN  [sku |-> line.sku, quantity |-> line.quantity,
         available |-> active, is_available |-> active > 0,
         total |-> IF active > 0 THEN row.price * line.quantity ELSE 0,
         reason |-> IF ~offered THEN "PRODUCT_DELETED"
                    ELSE IF active > 0 THEN None ELSE "OUT_OF_STOCK"]

Issue(item) ==
    IF ~item.is_available THEN item.reason
    ELSE IF item.quantity > item.available THEN "QUANTITY_REDUCED"
    ELSE None

Subtotal(items) == MapThenSumSet(LAMBDA i : items[i].total, DOMAIN items)

CartResponse(lines, batch) ==
    LET items == [i \in DOMAIN lines |-> CartItem(lines[i], batch)]
    IN  [items |-> items,
         subtotal |-> Subtotal(items),
         is_valid |-> \A i \in DOMAIN items :
                        items[i].is_available /\ items[i].quantity <= items[i].available]

ValidateResponse(lines, batch) ==
    LET cart == CartResponse(lines, batch)
        faulty == {i \in DOMAIN lines : Issue(cart.items[i]) # None}
    IN  [cart |-> cart, issues |-> [i \in faulty |-> Issue(cart.items[i])], is_valid |-> faulty = {}]

CollectionResponse(ids, batch) ==
    [items |-> SelectSeq(ids, LAMBDA p : p \in DOMAIN batch),
     unavailable |-> SelectSeq(ids, LAMBDA p : p \notin DOMAIN batch)]

BatchAnswer(kind, arg, batch) ==
    CASE kind = "cart"       -> CartResponse(arg, batch)
      [] kind = "validate"   -> ValidateResponse(arg, batch)
      [] kind = "collection" -> CollectionResponse(Collections[arg], batch)

\* Without a product id there is nothing to ask B2B.
AskBatch(kind, arg) ==
    /\ IF ProductIds(kind, arg) = {} THEN AskAndAnswer(kind, arg, BatchAnswer(kind, arg, NoBatch))
                                     ELSE Ask(kind, arg)
    /\ Still

AskCart ==
    /\ Unasked
    /\ \E lines \in Carts, kind \in {"cart", "validate"} : AskBatch(kind, lines)

AskCollection ==
    /\ Unasked
    /\ \/ \E c \in DOMAIN Collections : AskBatch("collection", c)
       \/ AskAndAnswer("collection", None, Error("CollectionNotFound")) /\ Still

ReadBatch ==
    /\ req.kind \in Batched /\ req.stage = "first"
    /\ Read(Found(ProductIds(req.kind, req.arg)))
    /\ Still

ReadBatchSkus ==
    /\ req.kind \in Batched /\ req.stage = "second"
    /\ Answer(BatchAnswer(req.kind, req.arg, AttachSkus(req.read)))
    /\ Still

-----------------------------------------------------------------------------
(* Favorites, banners, categories.                                          *)

\* The list is enriched over the seller's route, which refuses a service key
\* (401): the cards are left out and the number of favorites stays.
AskFavorites ==
    /\ Unasked
    /\ \E favorites \in Favorites :
         AskAndAnswer("favorites", favorites, [items |-> << >>, total |-> Len(favorites)]) /\ Still

BannerIsActive(banner, now) ==
    banner.active /\ banner.from \in {None} \cup 0..now /\ (banner.to = None \/ banner.to >= now)

AskBanners ==
    /\ Unasked
    /\ \E now \in Clock :
         LET active == {b \in DOMAIN Banners : BannerIsActive(Banners[b], now)}
         IN  /\ AskAndAnswer("banners", now,
                   [items |-> SetToSortSeq(active, LAMBDA a, b : Banners[a].priority < Banners[b].priority)])
             /\ Still

\* A click is counted whether or not the banner is still active.
ClickBanner ==
    /\ Unasked
    /\ \E b \in DOMAIN Banners \cup {None} :
         /\ AskAndAnswer("click", b,
                           IF b \in DOMAIN Banners THEN [clicked |-> b] ELSE Error("BannerNotFound"))
         /\ Still

AskCategories ==
    /\ Unasked
    /\ \E parent \in Tree!Hierarchies : AskAndAnswer("categories", parent, Tree!FlatResponse(parent)) /\ Still

AskBreadcrumbs ==
    /\ Unasked
    /\ \E parent \in Tree!Hierarchies, c, p \in CategoryIds \cup {None} :
         AskAndAnswer("crumbs", [parent |-> parent, target |-> c], Tree!Breadcrumbs(parent, c, p)) /\ Still

AskCategory ==
    /\ Unasked
    /\ \E parent \in Tree!Hierarchies, c \in CategoryIds :
         AskAndAnswer("category", c, Tree!CategoryResponse(parent, c)) /\ Still

-----------------------------------------------------------------------------
(* Failures of B2B or the way to it, and changes between two reads.         *)

ErrorOf(kind) ==
    CASE kind \in {"list", "card", "similar", "facets"} -> "CatalogUnavailable"
      [] kind \in {"cart", "validate"}                  -> "B2BUnavailable"
      [] kind = "collection"                            -> "InternalError"

B2BFails ==
    /\ req.kind \in {"list", "card", "similar", "facets"} \cup Batched
    /\ req.stage \in {"first", "second"}
    /\ Answer(Error(ErrorOf(req.kind)))
    /\ Still

Listing == req.kind \in {"list", "mine"}

\* A change before the first statement is another initial state.
Between == req.stage = "second" \/ (Listing /\ req.stage = "first" /\ req.arg.offset > 0) \/ HasNextPage

SortKey(p, q) == IF "sort" \in DOMAIN q /\ q.sort \in {"price_asc", "price_desc"} THEN MinPrice(p) ELSE 0

Record(kind, q) ==
    LET old == Members(kind, q)
        new == Members(kind, q)'
        moved == \E p \in old \cap new : SortKey(p, q) # SortKey(p, q)'
    IN  walk' = [walk EXCEPT !.stay = @ \cap new,
                             !.left = @ \/ moved \/ ~(old \subseteq new),
                             !.came = @ \/ moved \/ ~(new \subseteq old),
                             !.tied = @ \/ Tied(new)]

ShopChanges ==
    /\ Between
    /\ Change
    /\ req' = [req EXCEPT !.raced = @ \/ req.stage = "second"]
    /\ IF Listing THEN \E kind \in {req.kind}, q \in {req.arg.q} : Record(kind, q) ELSE UNCHANGED walk

Next ==
    \/ AskList \/ AskMine \/ ReadRows \/ CountRows \/ CountMine \/ ReadMine \/ NextPage
    \/ AskCard \/ ReadCard \/ ReadCardSkus \/ AskOwnCard \/ ReadOwnCard \/ ReadOwnSkus
    \/ AskSimilar \/ ReadCategory \/ ReadSample
    \/ AskFacets \/ ReadFacets \/ ReadPriceRange \/ AskSku
    \/ AskCart \/ AskCollection \/ ReadBatch \/ ReadBatchSkus
    \/ AskFavorites \/ AskBanners \/ ClickBanner
    \/ AskCategories \/ AskBreadcrumbs \/ AskCategory
    \/ B2BFails \/ ShopChanges

Spec == Init /\ [][Next]_vars

-----------------------------------------------------------------------------
(* Properties.                                                              *)

WalkIsOver == (Answered("list") \/ Answered("mine")) /\ ~HasNextPage

ShownIds == [i \in DOMAIN walk.shown |-> walk.shown[i].id]

\* Offset paging over changing tables, rows and total from two statements with
\* copies of the filters of their own.  A product the buyer's listing had all
\* along is missing from its pages only if another one left it or changed
\* places, and is shown twice only if another one came or changed places.  The
\* seller's list counts before it reads and breaks no ties: there a product
\* that came, or a tie at any time, can also hide one.  And a last page no change fell into
\* has exactly the rows its total, its limit and its offset promise.
PagesAreExplained ==
    WalkIsOver =>
        LET shuffled == req.kind = "mine" /\ walk.tied
        IN  /\ walk.stay \ ToSet(ShownIds) # {} =>
                 walk.left \/ (req.kind = "mine" /\ walk.came) \/ shuffled
            /\ ~IsInjective(ShownIds) => walk.came \/ shuffled
            /\ ~req.raced => Len(req.answer.items)
                  = Max({0, Min({req.arg.limit, req.answer.total - req.arg.offset})})

\* The card works out price and stock from the SKUs it reads after the product:
\* unless a change fell in between, it sells something and at the price the
\* listing shows; an empty card is the trace of a change.
CardsAreCurrent ==
    Answered("card") /\ ~req.raced =>
        /\ req.answer.has_stock
        /\ \E q \in {[category |-> None, seller |-> None, search |-> None, min |-> None,
                       max |-> None, traits |-> NoTraits]} :
             req.arg \in Listed(q) /\ Short(req.arg).price = req.answer.min_price

\* A facet says how many products the listing would show with that value added
\* to its filters, and the price range loses none of them: two statements of
\* B2B against a third, reached through two translations of the parameters.
FacetsCountTheListing ==
    Answered("facets") /\ ~req.raced =>
        LET q == req.arg
            With(f) == [q EXCEPT !.traits = [name \in {f.name} |-> {f.value}]]
        IN  /\ \A f \in req.answer.facets : f.count = Cardinality(Listed(With(f))) /\ f.count > 0
            /\ \A t \in Traits : t.product \in Listed(q) =>
                 \E f \in req.answer.facets : f.name = t.name /\ f.value = t.value
            /\ Listed(q) \subseteq Listed([q EXCEPT !.min = req.read[1], !.max = req.read[2]])

\* Whoever sees a cart as valid can order all of it: the stock suffices for
\* every line when the answer is given, and every product is on sale unless a
\* change fell between the two statements of the batch.  A cart that could be
\* ordered is not refused without such a change, and viewing and validating
\* agree.
CartsAreCurrent ==
    Answered("cart") \/ Answered("validate") =>
        LET cart == IF req.kind = "cart" THEN req.answer ELSE req.answer.cart
            Sold(line) == line.sku \in DOMAIN skus /\ skus[line.sku].active >= line.quantity
            OnShelf(line) == line.product # None /\ Visible(line.product)
        IN  /\ cart.is_valid => \A line \in ToSet(req.arg) :
                                 Sold(line) /\ (req.raced \/ OnShelf(line))
            /\ (\A line \in ToSet(req.arg) : Sold(line) /\ OnShelf(line)) /\ ~req.raced =>
                 cart.is_valid
            /\ req.kind = "validate" => (req.answer.is_valid <=> cart.is_valid)

\* The tree, built from the roots down, and the breadcrumbs, walked up from a
\* category, agree: a category is in the flat tree, once, exactly when its
\* breadcrumbs reach a root, and then by the same path.
TreeAgreesWithCrumbs ==
    Answered("categories") =>
        LET parent == req.arg
            Entries(c) == {i \in DOMAIN req.answer.items : req.answer.items[i].id = c}
        IN  \A c \in CategoryIds :
               LET crumbs == Tree!Breadcrumbs(parent, c, None)
               IN  IF "error" \in DOMAIN crumbs THEN Entries(c) = {}
                   ELSE \E i \in DOMAIN req.answer.items :
                           Entries(c) = {i} /\ req.answer.items[i].path = crumbs.path
=============================================================================
