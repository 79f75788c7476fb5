---------------------------- MODULE PublicCatalog ----------------------------
(***************************************************************************)
(* The catalogue B2B offers to other services (b2b/apps/public) and to its  *)
(* sellers (b2b/apps/products): the tables it reads, the statements it      *)
(* sends them, and the committed changes that fall between two statements.  *)
(* Every statement is one operator over the tables as they are when it      *)
(* runs: PostgreSQL's READ COMMITTED gives each statement a snapshot of its *)
(* own, also inside one transaction.                                        *)
(*                                                                         *)
(* Products are numbered in the order of their ids, SKUs in the order of    *)
(* their created_at and ids.  Titles, slugs, images and discounts are left  *)
(* out: no answer depends on them.                                          *)
(***************************************************************************)
EXTENDS Integers, Sequences, FiniteSets, SequencesExt

CONSTANTS Products, Skus,     \* sets of numbers
          ProductOf,          \* SKU -> product (a column no code updates)
          CategoryOf, SellerOf, CreatedAt,      \* product -> number
          Traits,             \* the rows of characteristic_values
          Matches,            \* search text -> products it is found in by buyers
          Titled,             \* search text -> products with it in their title
          InitPrice, Prices, MaxActive,
          None,
          MaxChanges          \* bound on the changes between statements

\* skus.product_id is a foreign key, created_at has no NULL, prices are kopecks.
ASSUME CatalogAssumption ==
    /\ Products \subseteq Int /\ IsFiniteSet(Products)
    /\ IsFiniteSet(Skus) /\ IsFiniteSet(Traits)
    /\ ProductOf \in [Skus -> Products]
    /\ CreatedAt \in [Products -> Int]
    /\ InitPrice \in [Skus -> Prices] /\ Prices \subseteq Nat
    /\ MaxActive \in Nat /\ MaxChanges \in Nat
    /\ None \notin Products

VARIABLES status, deleted,    \* columns of products
          skus,               \* rows of skus: SKU -> [active, price]
          changes

shop == <<status, deleted, skus, changes>>

Statuses == {"MODERATED", "ON_MODERATION", "BLOCKED"}

ShopTypeOK ==
    /\ status \in [Products -> Statuses]
    /\ deleted \in [Products -> BOOLEAN]
    /\ DOMAIN skus \subseteq Skus
    /\ skus \in [DOMAIN skus -> [active : 0..MaxActive, price : Prices]]
    /\ changes \in 0..MaxChanges

\* Any product may be sold out, and one hidden by moderation.
ShopInit ==
    /\ \E hidden \in SUBSET Products :
         /\ Cardinality(hidden) <= 1
         /\ status = [p \in Products |-> IF p \in hidden THEN "ON_MODERATION" ELSE "MODERATED"]
    /\ deleted = [p \in Products |-> FALSE]
    /\ \E active \in [Skus -> 0..MaxActive] :
         skus = [s \in Skus |-> [active |-> active[s], price |-> InitPrice[s]]]
    /\ changes = 0

-----------------------------------------------------------------------------
(* What a product row and its SKU rows say.                                 *)

SkusOf(p) == {s \in DOMAIN skus : ProductOf[s] = p}

OnSale(p) == {s \in SkusOf(p) : skus[s].active > 0}

Visible(p) == status[p] = "MODERATED" /\ ~deleted[p] /\ OnSale(p) # {}

\* NULL is 0 in the answers; a visible product always has a price.
MinPrice(p) == IF OnSale(p) = {} THEN 0 ELSE Min({skus[s].price : s \in OnSale(p)})

\* A query: category, seller, search, min, max are None when absent; traits
\* maps a name to the set of its accepted values.
HasTrait(p, name, values) ==
    \E t \in Traits : t.product = p /\ t.name = name /\ t.value \in values

Passes(p, q) ==
    /\ q.category \in {None, CategoryOf[p]}
    /\ q.seller \in {None, SellerOf[p]}
    /\ q.search = None \/ p \in Matches[q.search]
    /\ q.min = None \/ \E s \in OnSale(p) : skus[s].price >= q.min
    /\ q.max = None \/ \E s \in OnSale(p) : skus[s].price <= q.max
    /\ \A name \in DOMAIN q.traits :
         q.traits[name] = {} \/ HasTrait(p, name, q.traits[name])

Listed(q) == {p \in Products : Visible(p) /\ Passes(p, q)}

-----------------------------------------------------------------------------
(* Order and pages.                                                         *)

Before(a, b, sort) ==
    CASE sort = "price_asc"  -> MinPrice(a) < MinPrice(b) \/ (MinPrice(a) = MinPrice(b) /\ a < b)
      [] sort = "price_desc" -> MinPrice(a) > MinPrice(b) \/ (MinPrice(a) = MinPrice(b) /\ a < b)
      [] OTHER               -> CreatedAt[a] > CreatedAt[b] \/ (CreatedAt[a] = CreatedAt[b] /\ a > b)

\* The rows in the order of ORDER BY, which is total: no two have the same id.
Ordered(set, sort) ==
    CHOOSE seq \in SetToSeqs(set) : \A i, j \in DOMAIN seq : i < j => Before(seq[i], seq[j], sort)

\* LIMIT and OFFSET.
Page(seq, limit, offset) == [i \in 1..Min({limit, Len(seq) - offset}) |-> seq[offset + i]]

Short(p) == [id |-> p, price |-> MinPrice(p)]

\* The two statements of list_short.
ShortPage(q, limit, offset) ==
    LET page == Page(Ordered(Listed(q), q.sort), limit, offset)
    IN  [i \in DOMAIN page |-> Short(page[i])]

\* Mutant: the count has no copy of the trait filters.
TotalCountPlain(q) == Cardinality(Listed([q EXCEPT !.traits = [name \in {} |-> {}]]))

TotalCount(q) == Cardinality(Listed(q))

\* The two statements of list_for_seller.
SellerListed(q) ==
    {p \in Products : /\ SellerOf[p] = q.seller
                      /\ q.deleted \/ ~deleted[p]
                      /\ q.status \in {None, status[p]}
                      /\ q.search = None \/ p \in Titled[q.search]}

SellerRow(p) ==
    [id |-> p, skus |-> Cardinality(SkusOf(p)),
     active |-> MapThenSumSet(LAMBDA s : skus[s].active, SkusOf(p))]

\* The seller's list has no tie-break: equal times come in any order.
SellerPages(q, limit, offset) ==
    LET set == SellerListed(q)
        orders == {seq \in SetToSeqs(set) :
                     \A i, j \in DOMAIN seq : i < j => CreatedAt[seq[i]] >= CreatedAt[seq[j]]}
    IN  {[i \in DOMAIN page |-> SellerRow(page[i])] : page \in {Page(seq, limit, offset) : seq \in orders}}

-----------------------------------------------------------------------------
(* Cards, batches, similar products, single SKUs, facets.                   *)

\* Mutant: the batch forgets who is visible.
FoundAny(ids) == ids

Found(ids) == {p \in ids : Visible(p)}

\* The second statement of a card or a batch: the SKUs, whatever their stock.
AttachSkus(ids) == [p \in ids |-> [s \in SkusOf(p) |-> skus[s]]]

Samples(p, category, limit) ==
    LET others == {r \in Products : Visible(r) /\ CategoryOf[r] = category /\ r # p}
    IN  {set \in SUBSET others : Cardinality(set) = Min({limit, Cardinality(others)})}

SkuIsPublic(s) == s \in DOMAIN skus /\ Visible(ProductOf[s])

NoTraits == [name \in {} |-> {}]

\* Mutant: rows are counted, not products.
FacetRowsAll(q) ==
    LET shown == Listed([q EXCEPT !.traits = NoTraits])
        rows == {t \in Traits : t.product \in shown}
    IN  {[name |-> r.name, value |-> r.value,
          count |-> Cardinality({u \in rows : u.name = r.name /\ u.value = r.value})] : r \in rows}

FacetRows(q) ==
    LET shown == Listed([q EXCEPT !.traits = NoTraits])
        rows == {t \in Traits : t.product \in shown}
    IN  {[name |-> r.name, value |-> r.value,
          count |-> Cardinality({t.product : t \in {u \in rows : u.name = r.name /\ u.value = r.value}})] :
           r \in rows}

PriceRange(q) ==
    LET prices == {MinPrice(p) : p \in Listed([q EXCEPT !.traits = NoTraits])}
    IN  IF prices = {} THEN <<0, 0>> ELSE <<Min(prices), Max(prices)>>

-----------------------------------------------------------------------------
(* Committed changes of the rest of B2B, one transaction each.              *)

ChangeProduct(p) ==
    /\ \/ \E to \in Statuses \ {status[p]} : status' = [status EXCEPT ![p] = to] /\ UNCHANGED deleted
       \/ ~deleted[p] /\ deleted' = [deleted EXCEPT ![p] = TRUE] /\ UNCHANGED status
    /\ UNCHANGED skus

ChangeStock(s) ==
    /\ s \in DOMAIN skus
    /\ \E active \in 0..MaxActive \ {skus[s].active} : skus' = [skus EXCEPT ![s].active = active]
    /\ UNCHANGED <<status, deleted>>

\* edit_sku commits the price before the product goes back to moderation.
ChangePrice(s) ==
    /\ s \in DOMAIN skus
    /\ \E price \in Prices \ {skus[s].price} : skus' = [skus EXCEPT ![s].price = price]
    /\ UNCHANGED <<status, deleted>>

DropSku(s) ==
    /\ s \in DOMAIN skus
    /\ skus' = [t \in DOMAIN skus \ {s} |-> skus[t]]
    /\ UNCHANGED <<status, deleted>>

Change ==
    /\ changes < MaxChanges
    /\ changes' = changes + 1
    /\ \/ \E p \in Products : ChangeProduct(p)
       \/ \E s \in Skus : ChangeStock(s) \/ ChangePrice(s) \/ DropSku(s)
=============================================================================
