-------------------------- MODULE StorefrontProofs --------------------------
(***************************************************************************)
(* Proofs about Storefront, for any products, SKUs, carts, filters and     *)
(* page sizes and any number of changes between two statements.            *)
(***************************************************************************)
EXTENDS Storefront, Sums, SequenceTheorems

-----------------------------------------------------------------------------
(* The request and what its steps do to it. *)

\* Both records keep their fields.
RequestShape ==
    /\ req = [kind |-> req.kind, arg |-> req.arg, stage |-> req.stage,
              read |-> req.read, raced |-> req.raced, answer |-> req.answer]
    /\ req.raced \in BOOLEAN

WalkShape ==
    /\ walk = [stay |-> walk.stay, left |-> walk.left, came |-> walk.came,
               tied |-> walk.tied, shown |-> walk.shown]
    /\ walk.left \in BOOLEAN /\ walk.came \in BOOLEAN /\ walk.tied \in BOOLEAN

Shape == RequestShape /\ WalkShape

\* What the four ways to write the request leave in its fields.
Becomes(k, a, s, r, b, v) ==
    /\ RequestShape'
    /\ req'.kind = k /\ req'.arg = a /\ req'.stage = s /\ req'.read = r
    /\ req'.raced = b /\ req'.answer = v

LEMMA RecordBecomes ==
    ASSUME NEW k, NEW a, NEW s, NEW r, NEW b \in BOOLEAN, NEW v,
           req' = [kind |-> k, arg |-> a, stage |-> s, read |-> r, raced |-> b, answer |-> v]
    PROVE  Becomes(k, a, s, r, b, v)
BY DEF Becomes, RequestShape

LEMMA RequestMoves ==
    ASSUME RequestShape
    PROVE  /\ \A k, a : Ask(k, a) => Becomes(k, a, "first", None, FALSE, None)
           /\ \A k, a, v : AskAndAnswer(k, a, v) => Becomes(k, a, "done", None, FALSE, v)
           /\ \A v : Read(v) => Becomes(req.kind, req.arg, "second", v, req.raced, req.answer)
           /\ \A v : Answer(v) => Becomes(req.kind, req.arg, "done", None, req.raced, v)
<1> USE RecordBecomes
<1>1. \A k, a : Ask(k, a) => Becomes(k, a, "first", None, FALSE, None)
  BY DEF Ask, Idle
<1>2. \A k, a, v : AskAndAnswer(k, a, v) => Becomes(k, a, "done", None, FALSE, v)
  BY DEF AskAndAnswer, Idle
<1>3. \A v : Read(v) => Becomes(req.kind, req.arg, "second", v, req.raced, req.answer)
  <2> SUFFICES ASSUME NEW v, Read(v) PROVE Becomes(req.kind, req.arg, "second", v, req.raced, req.answer)
    OBVIOUS
  <2>1. req' = [kind |-> req.kind, arg |-> req.arg, stage |-> "second", read |-> v,
                raced |-> req.raced, answer |-> req.answer]
    BY DEF Read, RequestShape
  <2> QED
    BY <2>1 DEF RequestShape
<1>4. \A v : Answer(v) => Becomes(req.kind, req.arg, "done", None, req.raced, v)
  <2> SUFFICES ASSUME NEW v, Answer(v) PROVE Becomes(req.kind, req.arg, "done", None, req.raced, v)
    OBVIOUS
  <2>1. req' = [kind |-> req.kind, arg |-> req.arg, stage |-> "done", read |-> None,
                raced |-> req.raced, answer |-> v]
    BY DEF Answer, RequestShape
  <2> QED
    BY <2>1 DEF RequestShape
<1> QED
  BY <1>1, <1>2, <1>3, <1>4

LEMMA BatchMoves ==
    ASSUME NEW k, NEW a, AskBatch(k, a), RequestShape
    PROVE  RequestShape' /\ req'.kind = k /\ req'.arg = a /\ UNCHANGED <<shop, walk>>
<1>1. UNCHANGED <<shop, walk>>
  BY DEF AskBatch, Still
<1>2. PICK v : AskAndAnswer(k, a, v) \/ Ask(k, a)
  BY Zenon DEF AskBatch
<1> QED
  BY <1>1, <1>2, RequestMoves DEF Becomes

\* What happens between two statements is a change to the tables only.
LEMMA ChangeMoves ==
    ASSUME RequestShape, ShopChanges
    PROVE  /\ Becomes(req.kind, req.arg, req.stage, req.read, req.raced \/ req.stage = "second", req.answer)
           /\ Between
<1>1. PICK b \in BOOLEAN : b = (req.raced \/ req.stage = "second")
  BY DEF RequestShape
<1>2. req' = [kind |-> req.kind, arg |-> req.arg, stage |-> req.stage, read |-> req.read,
              raced |-> b, answer |-> req.answer]
  BY <1>1 DEF ShopChanges, RequestShape
<1>3. Becomes(req.kind, req.arg, req.stage, req.read, b, req.answer)
  BY <1>2, RecordBecomes
<1> QED
  BY <1>1, <1>3 DEF ShopChanges

\* The kinds whose answers the properties are about, and their steps.
ListSteps == AskList \/ ReadRows \/ CountRows
MineSteps == AskMine \/ CountMine \/ ReadMine
CardSteps == AskCard \/ ReadCard \/ ReadCardSkus
FacetSteps == AskFacets \/ ReadFacets \/ ReadPriceRange
CartSteps == AskCart \/ (req.kind \in {"cart", "validate"} /\ (ReadBatch \/ ReadBatchSkus))

\* A request keeps its kind, and only its own steps give it that kind.
OnlyItsOwn(kinds, Steps) ==
    req'.kind \in kinds => Steps \/ (req'.kind = req.kind /\ (B2BFails \/ ShopChanges))

LEMMA KindsKeepToTheirSteps ==
    ASSUME Shape, Next
    PROVE  /\ OnlyItsOwn({"list", "mine"}, ListSteps \/ MineSteps \/ NextPage)
           /\ OnlyItsOwn({"card"}, CardSteps)
           /\ OnlyItsOwn({"facets"}, FacetSteps)
           /\ OnlyItsOwn({"cart", "validate"}, CartSteps)
<1> USE DEF OnlyItsOwn
<1>1. CASE ListSteps
  BY <1>1 DEF ListSteps, AskList, ReadRows, CountRows, At, Ask, AskAndAnswer, Read, Answer, Idle, Shape,
              RequestShape
<1>2. CASE MineSteps
  BY <1>2 DEF MineSteps, AskMine, CountMine, ReadMine, At, Ask, AskAndAnswer, Read, Answer, Idle, Shape,
              RequestShape
<1>3. CASE NextPage
  <2> req.kind \in {"list", "mine"} /\ req'.kind = req.kind
    BY <1>3 DEF NextPage, HasNextPage, Answered, At, Shape, RequestShape
  <2> QED
    BY <1>3
<1>4. CASE CardSteps
  BY <1>4 DEF CardSteps, AskCard, ReadCard, ReadCardSkus, At, Ask, AskAndAnswer, Read, Answer, Idle,
              Shape, RequestShape
<1>5. CASE FacetSteps
  <2> AskFacets \/ ReadFacets \/ ReadPriceRange => req'.kind = "facets"
    BY DEF AskFacets, ReadFacets, ReadPriceRange, At, Ask, AskAndAnswer, Read, Answer, Idle, Shape,
           RequestShape
  <2> QED
    BY <1>5 DEF FacetSteps
<1>6. CASE AskCart
  <2> req'.kind \in {"cart", "validate"}
    BY <1>6, BatchMoves DEF AskCart, Shape
  <2> QED
    BY <1>6 DEF CartSteps
<1>7. CASE AskCollection
  <2> req'.kind = "collection"
    BY <1>7, BatchMoves DEF AskCollection, Ask, AskAndAnswer, Read, Answer, Idle, Shape, RequestShape
  <2> QED
    OBVIOUS
<1>8. CASE ReadBatch \/ ReadBatchSkus
  <2> req.kind \in {"cart", "validate", "collection"} /\ req'.kind = req.kind
    BY <1>8 DEF ReadBatch, ReadBatchSkus, Batched, Ask, AskAndAnswer, Read, Answer, Idle, Shape, RequestShape
  <2> QED
    BY <1>8 DEF CartSteps
<1>9. CASE AskOwnCard \/ ReadOwnCard \/ ReadOwnSkus
  <2> req'.kind = "own"
    BY <1>9 DEF AskOwnCard, ReadOwnCard, ReadOwnSkus, At, Ask, AskAndAnswer, Read, Answer, Idle, Shape,
                RequestShape
  <2> QED
    OBVIOUS
<1>10. CASE AskSimilar \/ ReadCategory \/ ReadSample
  <2> req'.kind = "similar"
    BY <1>10 DEF AskSimilar, ReadCategory, ReadSample, At, Ask, AskAndAnswer, Read, Answer, Idle, Shape,
                 RequestShape
  <2> QED
    OBVIOUS
<1>11. CASE AskSku \/ AskFavorites \/ AskBanners \/ ClickBanner
  <2> req'.kind \in {"sku", "favorites", "banners", "click"}
    BY <1>11 DEF AskSku, AskFavorites, AskBanners, ClickBanner, Ask, AskAndAnswer, Read, Answer, Idle,
                 Shape, RequestShape
  <2> QED
    OBVIOUS
<1>12. CASE AskCategories \/ AskBreadcrumbs \/ AskCategory
  <2>1. AskCategories => \E a, v : AskAndAnswer("categories", a, v)
    BY Zenon DEF AskCategories
  <2>2. AskBreadcrumbs => \E a, v : AskAndAnswer("crumbs", a, v)
    BY Zenon DEF AskBreadcrumbs
  <2>3. AskCategory => \E a, v : AskAndAnswer("category", a, v)
    BY Zenon DEF AskCategory
  <2>4. req'.kind \in {"categories", "crumbs", "category"}
    BY <1>12, <2>1, <2>2, <2>3, RequestMoves DEF Becomes, Shape
  <2> QED
    BY <2>4
<1>13. CASE B2BFails \/ ShopChanges
  <2>1. B2BFails => \E v : Answer(v)
    BY Zenon DEF B2BFails
  <2> req'.kind = req.kind
    BY <1>13, <2>1, RequestMoves, ChangeMoves DEF Becomes, Shape
  <2> QED
    BY <1>13
<1> QED
  BY <1>1, <1>2, <1>3, <1>4, <1>5, <1>6, <1>7, <1>8, <1>9, <1>10, <1>11, <1>12, <1>13
     DEF Next, ListSteps, MineSteps, CardSteps, FacetSteps

\* The four ways a step writes the request.
Touches == \E k, a, v : Ask(k, a) \/ AskAndAnswer(k, a, v) \/ Read(v) \/ Answer(v)

LEMMA TouchKeepsShape ==
    ASSUME RequestShape, Touches
    PROVE  RequestShape'
BY RequestMoves DEF Touches, Becomes

\* A walk that begins.
LEMMA WalkBegins ==
    ASSUME NEW k, NEW q, StartWalk(k, q)
    PROVE  /\ walk' = [stay |-> Members(k, q), left |-> FALSE, came |-> FALSE,
                       tied |-> Tied(Members(k, q)), shown |-> << >>]
           /\ WalkShape'
<1>1. PICK b \in BOOLEAN : b = Tied(Members(k, q))
  BY DEF Tied
<1>2. walk' = [stay |-> Members(k, q), left |-> FALSE, came |-> FALSE, tied |-> b, shown |-> << >>]
  BY <1>1 DEF StartWalk
<1> QED
  BY <1>1, <1>2 DEF WalkShape

LEMMA RequestShapeStays ==
    ASSUME RequestShape, Next
    PROVE  RequestShape'
<1> USE TouchKeepsShape
<1>1. CASE AskList \/ AskMine
  <2> Touches
    BY <1>1, Zenon DEF AskList, AskMine, Touches
  <2> QED
    OBVIOUS
<1>2. CASE CountRows \/ ReadMine \/ ReadRows \/ CountMine \/ AskCard \/ ReadCard \/ ReadCardSkus
  <2> Touches
    BY <1>2, Zenon DEF CountRows, ReadMine, ReadRows, CountMine, AskCard, ReadCard, ReadCardSkus, Touches
  <2> QED
    OBVIOUS
<1>3. CASE AskOwnCard \/ ReadOwnCard \/ ReadOwnSkus \/ AskSimilar \/ ReadCategory \/ ReadSample
  <2> Touches
    BY <1>3, Zenon DEF AskOwnCard, ReadOwnCard, ReadOwnSkus, AskSimilar, ReadCategory, ReadSample, Touches
  <2> QED
    OBVIOUS
<1>4. CASE AskFacets \/ ReadFacets \/ AskSku \/ ReadBatch \/ ReadBatchSkus \/ AskFavorites \/ AskBanners
  <2> Touches
    BY <1>4, Zenon DEF AskFacets, ReadFacets, AskSku, ReadBatch, ReadBatchSkus, AskFavorites,
                       AskBanners, Touches
  <2> QED
    OBVIOUS
<1>5. CASE ClickBanner \/ AskCategories \/ AskBreadcrumbs \/ AskCategory \/ B2BFails
  <2> Touches
    BY <1>5, Zenon DEF ClickBanner, AskCategories, AskBreadcrumbs, AskCategory, B2BFails, Touches
  <2> QED
    OBVIOUS
<1>6. CASE NextPage \/ ReadPriceRange
  BY <1>6 DEF NextPage, ReadPriceRange, RequestShape
<1>7. CASE AskCart \/ AskCollection
  <2>1. (\E k, a : AskBatch(k, a)) \/ Touches
    BY <1>7, Zenon DEF AskCart, AskCollection, Touches
  <2> QED
    BY <2>1, BatchMoves
<1>8. CASE ShopChanges
  BY <1>8, ChangeMoves DEF Becomes
<1> QED
  BY <1>1, <1>2, <1>3, <1>4, <1>5, <1>6, <1>7, <1>8 DEF Next

LEMMA WalkShapeStays ==
    ASSUME Shape, Next
    PROVE  WalkShape'
<1>1. CASE UNCHANGED walk
  BY <1>1 DEF Shape, WalkShape
<1>2. CASE \E k, q : StartWalk(k, q)
  BY <1>2, WalkBegins
<1>3. CASE CountRows \/ ReadMine
  <2>1. PICK page : walk' = [walk EXCEPT !.shown = @ \o page]
    BY <1>3, Zenon DEF CountRows, ReadMine
  <2>2. walk' = [stay |-> walk.stay, left |-> walk.left, came |-> walk.came,
                 tied |-> walk.tied, shown |-> walk.shown \o page]
    BY <2>1 DEF Shape, WalkShape
  <2> QED
    BY <2>2 DEF Shape, WalkShape
<1>4. CASE \E k, q : Record(k, q)
  <2>1. PICK s, l, c, t : walk' = [walk EXCEPT !.stay = s, !.left = @ \/ l, !.came = @ \/ c, !.tied = @ \/ t]
    BY <1>4, Zenon DEF Record
  <2> QED
    BY <2>1 DEF Shape, WalkShape
<1>5. UNCHANGED walk \/ (\E k, q : StartWalk(k, q)) \/ CountRows \/ ReadMine \/ \E k, q : Record(k, q)
  <2>1. CASE AskList \/ AskMine
    BY <2>1, Zenon DEF AskList, AskMine
  <2>2. CASE ReadRows \/ CountMine \/ NextPage \/ AskCard \/ ReadCard \/ ReadCardSkus
    BY <2>2, Zenon DEF ReadRows, CountMine, NextPage, AskCard, ReadCard, ReadCardSkus, Still
  <2>3. CASE AskOwnCard \/ ReadOwnCard \/ ReadOwnSkus \/ AskSimilar \/ ReadCategory \/ ReadSample
    BY <2>3, Zenon DEF AskOwnCard, ReadOwnCard, ReadOwnSkus, AskSimilar, ReadCategory, ReadSample, Still
  <2>4. CASE AskFacets \/ ReadFacets \/ ReadPriceRange \/ AskSku \/ AskCart \/ AskCollection \/ ReadBatch \/ ReadBatchSkus
    BY <2>4, Zenon DEF AskFacets, ReadFacets, ReadPriceRange, AskSku, AskCart, AskCollection, ReadBatch,
       ReadBatchSkus, AskBatch, Still
  <2>5. CASE AskFavorites \/ AskBanners \/ ClickBanner \/ AskCategories \/ AskBreadcrumbs \/ AskCategory \/ B2BFails
    BY <2>5, Zenon DEF AskFavorites, AskBanners, ClickBanner, AskCategories, AskBreadcrumbs, AskCategory,
       B2BFails, Still
  <2>6. CASE ShopChanges
    BY <2>6, Zenon DEF ShopChanges
  <2> QED
    BY <2>1, <2>2, <2>3, <2>4, <2>5, <2>6 DEF Next
<1> QED
  BY <1>1, <1>2, <1>3, <1>4, <1>5

LEMMA ShapeStays ==
    ASSUME Shape, [Next]_vars
    PROVE  Shape'
<1>1. CASE Next
  BY <1>1, RequestShapeStays, WalkShapeStays DEF Shape
<1>2. CASE UNCHANGED vars
  BY <1>2 DEF vars, Shape, RequestShape, WalkShape
<1> QED
  BY <1>1, <1>2

-----------------------------------------------------------------------------
(* The tables. *)

LEMMA TablesMove ==
    ASSUME Next
    PROVE  UNCHANGED shop \/ (ShopChanges /\ Change)
<1>1. CASE AskList \/ AskMine \/ ReadRows \/ CountRows \/ CountMine \/ ReadMine \/ NextPage
  BY <1>1, Zenon DEF AskList, AskMine, ReadRows, CountRows, CountMine, ReadMine, NextPage, Still
<1>2. CASE AskCard \/ ReadCard \/ ReadCardSkus \/ AskOwnCard \/ ReadOwnCard \/ ReadOwnSkus
  BY <1>2, Zenon DEF AskCard, ReadCard, ReadCardSkus, AskOwnCard, ReadOwnCard, ReadOwnSkus, Still
<1>3. CASE AskSimilar \/ ReadCategory \/ ReadSample \/ AskFacets \/ ReadFacets \/ ReadPriceRange \/ AskSku
  BY <1>3, Zenon DEF AskSimilar, ReadCategory, ReadSample, AskFacets, ReadFacets, ReadPriceRange,
                     AskSku, Still
<1>4. CASE AskCart \/ AskCollection \/ ReadBatch \/ ReadBatchSkus \/ B2BFails
  BY <1>4, Zenon DEF AskCart, AskCollection, ReadBatch, ReadBatchSkus, B2BFails, AskBatch, Still
<1>5. CASE AskFavorites \/ AskBanners \/ ClickBanner \/ AskCategories \/ AskBreadcrumbs \/ AskCategory
  BY <1>5, Zenon DEF AskFavorites, AskBanners, ClickBanner, AskCategories, AskBreadcrumbs, AskCategory, Still
<1>6. CASE ShopChanges
  BY <1>6, Zenon DEF ShopChanges
<1> QED
  BY <1>1, <1>2, <1>3, <1>4, <1>5, <1>6 DEF Next

LEMMA ChangeKeepsTypes ==
    ASSUME ShopTypeOK, Change
    PROVE  ShopTypeOK'
<1> USE CatalogAssumption
<1>1. changes' \in 0..MaxChanges
  BY DEF Change, ShopTypeOK
<1>2. CASE \E p \in Products : ChangeProduct(p)
  <2>1. PICK p \in Products : ChangeProduct(p)
    BY <1>2
  <2>2. skus' = skus
    BY <2>1 DEF ChangeProduct
  <2>3. status' \in [Products -> Statuses]
    BY <2>1 DEF ChangeProduct, ShopTypeOK
  <2>4. deleted' \in [Products -> BOOLEAN]
    BY <2>1 DEF ChangeProduct, ShopTypeOK
  <2> QED
    BY <1>1, <2>2, <2>3, <2>4 DEF ShopTypeOK
<1>3. CASE \E s \in Skus : ChangeStock(s) \/ ChangePrice(s) \/ DropSku(s)
  <2>1. /\ DOMAIN skus' \subseteq Skus
        /\ skus' \in [DOMAIN skus' -> [active : 0..MaxActive, price : Prices]]
    BY <1>3 DEF ChangeStock, ChangePrice, DropSku, ShopTypeOK
  <2>2. UNCHANGED <<status, deleted>>
    BY <1>3 DEF ChangeStock, ChangePrice, DropSku
  <2> QED
    BY <1>1, <2>1, <2>2 DEF ShopTypeOK
<1> QED
  BY <1>2, <1>3 DEF Change

LEMMA ShopTypesStay ==
    ASSUME ShopTypeOK, [Next]_vars
    PROVE  ShopTypeOK'
BY TablesMove, ChangeKeepsTypes DEF vars, shop, ShopTypeOK

LEMMA ShopStartsTyped == Init => ShopTypeOK
<1> SUFFICES ASSUME ShopInit PROVE ShopTypeOK
  BY DEF Init
<1> USE CatalogAssumption
<1>1. status \in [Products -> Statuses] /\ deleted \in [Products -> BOOLEAN] /\ changes \in 0..MaxChanges
  BY DEF ShopInit, Statuses
<1>2. DOMAIN skus = Skus /\ skus \in [Skus -> [active : 0..MaxActive, price : Prices]]
  BY DEF ShopInit
<1> QED
  BY <1>1, <1>2 DEF ShopTypeOK

LEMMA ShapeStarts == Init => Shape
BY DEF Init, Idle, NoWalk, Shape, RequestShape, WalkShape

\* Every product and SKU keeps a status, a stock and a price of its type, and a
\* SKU row its product: what the statements of a request may rely on.
THEOREM StorefrontTypeCorrect == Spec => [](ShopTypeOK /\ Shape)
<1>1. Init => ShopTypeOK /\ Shape
  BY ShopStartsTyped, ShapeStarts
<1>2. (ShopTypeOK /\ Shape) /\ [Next]_vars => (ShopTypeOK /\ Shape)'
  BY ShopTypesStay, ShapeStays
<1> QED
  BY <1>1, <1>2, PTL DEF Spec

-----------------------------------------------------------------------------
(* Cards. *)

CardInv ==
    /\ At("card", "second") => req.arg \in Products /\ (~req.raced => Visible(req.arg))
    /\ Answered("card") =>
        /\ req.arg \in Products
        /\ ~req.raced => /\ Visible(req.arg)
                         /\ req.answer = CardOf(AttachSkus({req.arg})[req.arg])

\* A request that is no listing sees a change between its two statements only.
LEMMA ChangesFallBetween ==
    ASSUME RequestShape, ShopChanges, ~Listing
    PROVE  req.stage = "second" /\ Becomes(req.kind, req.arg, "second", req.read, TRUE, req.answer)
<1>1. req.stage = "second"
  BY DEF ShopChanges, Between, HasNextPage, Answered, At, Listing
<1>2. Becomes(req.kind, req.arg, req.stage, req.read, req.raced \/ req.stage = "second", req.answer)
  BY ChangeMoves
<1> QED
  BY <1>1, <1>2 DEF Becomes

\* What B2B refuses or fails is an answer of another kind.
LEMMA ErrorsAnswerNothing ==
    ASSUME RequestShape, NEW code, Answer(Error(code))
    PROVE  /\ ~Answered("card")' /\ ~Answered("facets")' /\ ~Answered("cart")' /\ ~Answered("validate")'
           /\ ~Answered("list")' /\ ~Answered("mine")'
           /\ req'.stage = "done"
<1>1. Becomes(req.kind, req.arg, "done", None, req.raced, Error(code))
  BY RequestMoves
<1>2. "error" \in DOMAIN req'.answer /\ req'.stage = "done"
  BY <1>1 DEF Becomes, Error
<1> QED
  BY <1>2 DEF Answered

LEMMA FailuresAnswerNothing ==
    ASSUME RequestShape, B2BFails
    PROVE  /\ ~Answered("card")' /\ ~Answered("facets")' /\ ~Answered("cart")' /\ ~Answered("validate")'
           /\ ~Answered("list")' /\ ~Answered("mine")'
           /\ req'.stage = "done"
<1>1. PICK code : Answer(Error(code))
  BY Zenon DEF B2BFails
<1> QED
  BY <1>1, ErrorsAnswerNothing

LEMMA CardInvStays ==
    ASSUME Shape, CardInv, [Next]_vars
    PROVE  CardInv'
<1> USE DEF Shape
<1>1. CASE AskCard
  BY <1>1, RequestMoves DEF AskCard, Becomes, CardInv, At, Answered
<1>2. CASE ReadCard
  <2>1. CASE req.arg \in Products /\ Visible(req.arg)
    <3>1. Becomes("card", req.arg, "second", req.arg, req.raced, req.answer) /\ UNCHANGED shop
      BY <1>2, <2>1, RequestMoves DEF ReadCard, At, Still
    <3>2. Visible(req.arg)'
      BY <2>1, <3>1 DEF Becomes, shop, Visible, OnSale, SkusOf
    <3> QED
      BY <2>1, <3>1, <3>2 DEF Becomes, CardInv, At, Answered
  <2>2. CASE ~(req.arg \in Products /\ Visible(req.arg))
    <3>1. Answer(Error("NotFound"))
      BY <1>2, <2>2 DEF ReadCard
    <3> QED
      BY <3>1, ErrorsAnswerNothing DEF CardInv, At
  <2> QED
    BY <2>1, <2>2
<1>3. CASE ReadCardSkus
  <2>1. PICK p, card : p = req.arg /\ card = CardOf(AttachSkus({p})[p]) /\ Answer(card)
    BY <1>3 DEF ReadCardSkus
  <2>2. Becomes("card", p, "done", None, req.raced, card) /\ UNCHANGED shop
    BY <1>3, <2>1, RequestMoves DEF ReadCardSkus, At, Still
  <2>3. CardOf(AttachSkus({p})[p])' = CardOf(AttachSkus({p})[p]) /\ (Visible(p)' <=> Visible(p))
    BY <2>2 DEF shop, CardOf, AttachSkus, Visible, OnSale, SkusOf
  <2>4. p \in Products /\ (~req.raced => Visible(p))
    BY <1>3, <2>1 DEF CardInv, ReadCardSkus
  <2> QED
    BY <2>1, <2>2, <2>3, <2>4 DEF Becomes, CardInv, At, Answered
<1>4. CASE B2BFails
  BY <1>4, FailuresAnswerNothing DEF CardInv, At
<1>5. CASE ShopChanges /\ req.kind = "card"
  <2>1. req.stage = "second" /\ Becomes("card", req.arg, "second", req.read, TRUE, req.answer)
    BY <1>5, ChangesFallBetween DEF Listing
  <2> QED
    BY <1>5, <2>1 DEF Becomes, CardInv, At, Answered
<1>6. CASE req'.kind # "card"
  BY <1>6 DEF CardInv, At, Answered
<1>7. CASE UNCHANGED vars
  BY <1>7 DEF vars, shop, CardInv, At, Answered, CardOf, AttachSkus, Visible, OnSale, SkusOf
<1> QED
  BY <1>1, <1>2, <1>3, <1>4, <1>5, <1>6, <1>7, KindsKeepToTheirSteps DEF OnlyItsOwn, CardSteps

\* The rows of a product that sell, read one by one, are those on sale.
LEMMA CardOfVisible ==
    ASSUME NEW p, Visible(p), NEW card, card = CardOf(AttachSkus({p})[p])
    PROVE  card.has_stock /\ card.min_price = MinPrice(p)
<1> DEFINE rows == AttachSkus({p})[p]
           selling == {s \in DOMAIN rows : rows[s].active > 0}
<1>1. rows = [s \in SkusOf(p) |-> skus[s]]
  BY DEF AttachSkus
<1>2. selling = OnSale(p) /\ {rows[s].price : s \in selling} = {skus[s].price : s \in OnSale(p)}
  BY <1>1 DEF OnSale
<1>3. OnSale(p) # {}
  BY DEF Visible
<1>4. card.has_stock = (selling # {})
  BY DEF CardOf
<1>5. card.min_price = IF selling = {} THEN 0 ELSE Min({rows[s].price : s \in selling})
  BY DEF CardOf
<1> HIDE DEF rows, selling
<1> QED
  BY <1>2, <1>3, <1>4, <1>5 DEF MinPrice

LEMMA CardInvMakesCardsCurrent ==
    ASSUME CardInv
    PROVE  CardsAreCurrent
<1> DEFINE q == [category |-> None, seller |-> None, search |-> None, min |-> None,
                 max |-> None, traits |-> NoTraits]
<1> SUFFICES ASSUME Answered("card"), ~req.raced
             PROVE  /\ req.answer.has_stock
                    /\ req.arg \in Listed(q) /\ Short(req.arg).price = req.answer.min_price
  BY DEF CardsAreCurrent
<1>1. req.arg \in Products /\ Visible(req.arg) /\ req.answer = CardOf(AttachSkus({req.arg})[req.arg])
  BY DEF CardInv
<1>2. req.answer.has_stock /\ req.answer.min_price = MinPrice(req.arg)
  BY <1>1, CardOfVisible
<1>3. Passes(req.arg, q)
  BY DEF Passes, NoTraits
<1> QED
  BY <1>1, <1>2, <1>3 DEF Listed, Short

\* A card's price and stock, worked out from rows read after the product, are
\* those of the listing unless a change fell in between.
THEOREM CardsStayCurrent == Spec => []CardsAreCurrent
<1>1. Init => Shape /\ CardInv
  BY ShapeStarts DEF Init, Idle, CardInv, At, Answered
<1>2. (Shape /\ CardInv) /\ [Next]_vars => (Shape /\ CardInv)'
  BY ShapeStays, CardInvStays
<1>3. CardInv => CardsAreCurrent
  BY CardInvMakesCardsCurrent
<1> QED
  BY <1>1, <1>2, <1>3, PTL DEF Spec

-----------------------------------------------------------------------------
(* Facets. *)

\* B2B's facets are asked for without traits.
IsFacetQuery(q) ==
    q = [category |-> q.category, seller |-> None, min |-> q.min, max |-> q.max,
         traits |-> NoTraits, sort |-> q.sort, search |-> q.search]

FacetInv ==
    /\ req.kind = "facets" /\ ~Unasked => IsFacetQuery(req.arg)
    /\ At("facets", "second") /\ ~req.raced => req.read = FacetRows(req.arg)
    /\ Answered("facets") /\ ~req.raced =>
        req.answer.facets = FacetRows(req.arg) /\ req.read = PriceRange(req.arg)

\* What the statements of a request answer depends on the tables alone.
LEMMA SameTablesSameFacets ==
    ASSUME UNCHANGED shop, NEW q
    PROVE  FacetRows(q)' = FacetRows(q) /\ PriceRange(q)' = PriceRange(q)
<1>1. \A p : OnSale(p)' = OnSale(p)
  BY DEF shop, OnSale, SkusOf
<1>2. \A p : (Visible(p)' <=> Visible(p)) /\ MinPrice(p)' = MinPrice(p)
  BY <1>1 DEF shop, Visible, MinPrice
<1>3. \A f : Listed(f)' = Listed(f)
  BY <1>1, <1>2 DEF shop, Listed, Passes
<1> QED
  BY <1>2, <1>3 DEF FacetRows, PriceRange

LEMMA FacetInvStays ==
    ASSUME Shape, FacetInv, [Next]_vars
    PROVE  FacetInv'
<1> USE DEF Shape
<1>1. CASE AskFacets
  <2>1. PICK q : Ask("facets", q) /\ IsFacetQuery(q)
    BY <1>1 DEF AskFacets, IsFacetQuery
  <2>2. Becomes("facets", q, "first", None, FALSE, None)
    BY <2>1, RequestMoves
  <2> QED
    BY <2>1, <2>2 DEF Becomes, FacetInv, Unasked, At, Answered
<1>2. CASE ReadFacets
  <2>1. PICK rows : rows = FacetRows(req.arg) /\ Read(rows)
    BY <1>2 DEF ReadFacets
  <2>2. Becomes("facets", req.arg, "second", rows, req.raced, req.answer) /\ UNCHANGED shop
    BY <1>2, <2>1, RequestMoves DEF ReadFacets, At, Still
  <2>3. rows = FacetRows(req.arg)'
    BY <2>1, <2>2, SameTablesSameFacets DEF Becomes
  <2> QED
    BY <1>2, <2>2, <2>3 DEF Becomes, FacetInv, Unasked, At, Answered, ReadFacets
<1>3. CASE ReadPriceRange
  <2>1. PICK q, range : q = req.arg /\ range = PriceRange(q)
    OBVIOUS
  <2>2. /\ req' = [kind |-> "facets", arg |-> q, stage |-> "done", read |-> range,
                   raced |-> req.raced, answer |-> [facets |-> req.read]]
        /\ UNCHANGED shop
    BY <1>3, <2>1 DEF ReadPriceRange, At, Still, RequestShape
  <2>3. range = PriceRange(q)' /\ FacetRows(q)' = FacetRows(q)
    BY <2>1, <2>2, SameTablesSameFacets
  <2>4. req'.kind = "facets" /\ req'.arg = q /\ req'.stage = "done" /\ req'.read = range
        /\ req'.raced = req.raced /\ req'.answer.facets = req.read
    BY <2>2
  <2>5. IsFacetQuery(q) /\ (~req.raced => req.read = FacetRows(q))
    BY <1>3, <2>1 DEF FacetInv, ReadPriceRange, At, Unasked
  <2>6. IsFacetQuery(q)'
    BY <2>5 DEF IsFacetQuery
  <2> QED
    BY <2>3, <2>4, <2>5, <2>6 DEF FacetInv, Unasked, At, Answered
<1>4. CASE B2BFails /\ req.kind = "facets"
  <2>1. PICK code : Answer(Error(code))
    BY <1>4, Zenon DEF B2BFails
  <2>2. req'.arg = req.arg /\ req'.stage = "done" /\ ~Answered("facets")' /\ ~Unasked
    BY <1>4, <2>1, RequestMoves, FailuresAnswerNothing DEF Becomes, B2BFails, Unasked
  <2> QED
    BY <1>4, <2>2 DEF FacetInv, Unasked, IsFacetQuery, At
<1>5. CASE ShopChanges /\ req.kind = "facets"
  <2>1. req.stage = "second" /\ Becomes("facets", req.arg, "second", req.read, TRUE, req.answer)
    BY <1>5, ChangesFallBetween DEF Listing
  <2> QED
    BY <1>5, <2>1 DEF Becomes, FacetInv, Unasked, IsFacetQuery, At, Answered
<1>6. CASE req'.kind # "facets"
  BY <1>6 DEF FacetInv, Unasked, At, Answered
<1>7. CASE UNCHANGED vars
  <2>1. UNCHANGED shop /\ UNCHANGED req
    BY <1>7 DEF vars
  <2>2. FacetRows(req.arg)' = FacetRows(req.arg) /\ PriceRange(req.arg)' = PriceRange(req.arg)
    BY <2>1, SameTablesSameFacets
  <2> QED
    BY <2>1, <2>2 DEF FacetInv, Unasked, IsFacetQuery, At, Answered
<1> QED
  BY <1>1, <1>2, <1>3, <1>4, <1>5, <1>6, <1>7, KindsKeepToTheirSteps DEF OnlyItsOwn, FacetSteps

-----------------------------------------------------------------------------
(* Least and greatest. *)

\* Min and Max are CHOOSE: that there is something to choose takes a proof.
LEMMA LeastIsMin ==
    ASSUME NEW T \in SUBSET Nat, T # {}
    PROVE  Min(T) \in T /\ \A y \in T : Min(T) <= y
<1>1. \E x \in T : \A y \in T : x <= y
  BY LeastNatural
<1> QED
  BY <1>1 DEF Min

LEMMA GreatestIsMax ==
    ASSUME NEW T \in SUBSET Nat, T # {}, IsFiniteSet(T)
    PROVE  Max(T) \in T /\ \A y \in T : Max(T) >= y
<1> DEFINE g == [x \in T |-> x]
           Gaps == {SumOver(g, T) - x : x \in T}
<1>1. SumOver(g, T) \in Nat /\ \A x \in T : x <= SumOver(g, T)
  <2>1. \A x \in T : g[x] \in Nat /\ g[x] = x
    OBVIOUS
  <2> HIDE DEF g
  <2> QED
    BY <2>1, SumCovers
<1> HIDE DEF g
<1>2. Gaps \in SUBSET Nat /\ Gaps # {}
  <2>1. \A x \in T : SumOver(g, T) - x \in Nat
    BY <1>1
  <2> QED
    BY <2>1
<1>3. PICK d \in Gaps : \A e \in Gaps : d <= e
  BY <1>2, LeastNatural
<1>4. \E x \in T : \A y \in T : x >= y
  <2>1. PICK x \in T : d = SumOver(g, T) - x
    OBVIOUS
  <2>2. ASSUME NEW y \in T PROVE x >= y
    <3>1. d <= SumOver(g, T) - y
      BY <1>3
    <3> QED
      BY <1>1, <2>1, <3>1
  <2> QED
    BY <2>2
<1> QED
  BY <1>4 DEF Max

LEMMA PriceOfVisible ==
    ASSUME ShopTypeOK, NEW p, Visible(p)
    PROVE  /\ MinPrice(p) \in Nat
           /\ \E s \in OnSale(p) : skus[s].price = MinPrice(p)
<1> DEFINE T == {skus[s].price : s \in OnSale(p)}
<1>1. T \in SUBSET Nat /\ T # {}
  <2>1. \A s \in OnSale(p) : skus[s].price \in Prices
    BY DEF OnSale, SkusOf, ShopTypeOK
  <2>2. \A s \in OnSale(p) : skus[s].price \in Nat
    BY <2>1, CatalogAssumption
  <2>3. OnSale(p) # {}
    BY DEF Visible
  <2> QED
    BY <2>2, <2>3
<1>2. Min(T) \in T
  BY <1>1, LeastIsMin
<1>3. MinPrice(p) = Min(T)
  BY DEF MinPrice, Visible
<1> QED
  BY <1>1, <1>2, <1>3

\* Every facet counts, and counts what the listing shows with its value added.
LEMMA FacetCounts ==
    ASSUME NEW q, IsFacetQuery(q), NEW f \in FacetRows(q)
    PROVE  /\ f.count = Cardinality(Listed([q EXCEPT !.traits = [name \in {f.name} |-> {f.value}]]))
           /\ f.count > 0
<1> DEFINE w == [q EXCEPT !.traits = [name \in {f.name} |-> {f.value}]]
           shown == Listed([q EXCEPT !.traits = NoTraits])
           rows == {t \in Traits : t.product \in shown}
           same(r) == {u \in rows : u.name = r.name /\ u.value = r.value}
<1>1. PICK r \in rows : f = [name |-> r.name, value |-> r.value,
                             count |-> Cardinality({t.product : t \in same(r)})]
  BY DEF FacetRows
<1>2. shown = Listed(q)
  BY DEF IsFacetQuery
<1>3. {t.product : t \in same(r)} = Listed(w)
  <2>1. \A p \in Products : p \in Listed(w) <=> p \in Listed(q) /\ HasTrait(p, r.name, {r.value})
    <3>1. /\ w.category = q.category /\ w.seller = q.seller /\ w.search = q.search
          /\ w.min = q.min /\ w.max = q.max /\ w.traits = [name \in {r.name} |-> {r.value}]
      BY <1>1 DEF IsFacetQuery
    <3>2. q.traits = NoTraits /\ DOMAIN NoTraits = {}
      BY DEF IsFacetQuery, NoTraits
    <3>3. DOMAIN w.traits = {r.name} /\ w.traits[r.name] = {r.value}
      BY <3>1
    <3> HIDE DEF w
    <3> QED
      BY <3>1, <3>2, <3>3 DEF Listed, Passes
  <2>2. \A p \in Products : HasTrait(p, r.name, {r.value})
                              <=> \E t \in Traits : t.product = p /\ t.name = r.name /\ t.value = r.value
    BY DEF HasTrait
  <2>3. Listed(w) \subseteq Products /\ Listed(q) \subseteq Products
    BY DEF Listed
  <2>4. \A p : p \in {t.product : t \in same(r)} <=>
            p \in Listed(q) /\ \E t \in Traits : t.product = p /\ t.name = r.name /\ t.value = r.value
    BY <1>2
  <2> HIDE DEF w, same, rows
  <2> QED
    BY <2>1, <2>2, <2>3, <2>4
<1>4. r.product \in {t.product : t \in same(r)}
  OBVIOUS
<1>5. IsFiniteSet(Listed(w))
  <2>1. Listed(w) \in SUBSET Products
    BY DEF Listed
  <2> QED
    BY <2>1, CatalogAssumption, FS_Subset
<1>6. Cardinality(Listed(w)) > 0
  <2>1. Listed(w) # {}
    BY <1>3, <1>4
  <2> HIDE DEF w
  <2> QED
    BY <1>5, <2>1, FS_EmptySet, FS_CardinalityType
<1> QED
  BY <1>1, <1>3, <1>6

LEMMA RangeCovers ==
    ASSUME ShopTypeOK, NEW q, IsFacetQuery(q), NEW range, range = PriceRange(q)
    PROVE  Listed(q) \subseteq Listed([q EXCEPT !.min = range[1], !.max = range[2]])
<1> DEFINE prices == {MinPrice(p) : p \in Listed(q)}
           w == [q EXCEPT !.min = range[1], !.max = range[2]]
<1> SUFFICES ASSUME NEW p \in Listed(q) PROVE p \in Listed(w)
  OBVIOUS
<1>1. [q EXCEPT !.traits = NoTraits] = q
  BY DEF IsFacetQuery
<1>2. prices \in SUBSET Nat /\ MinPrice(p) \in prices
  BY PriceOfVisible DEF Listed
<1>3. IsFiniteSet(prices)
  <2>1. IsFiniteSet(Listed(q))
    BY CatalogAssumption, FS_Subset DEF Listed
  <2>2. [r \in Listed(q) |-> MinPrice(r)] \in Surjection(Listed(q), prices)
    BY DEF Surjection
  <2> QED
    BY <2>1, <2>2, FS_Surjection
<1>4. range = <<Min(prices), Max(prices)>>
  BY <1>1, <1>2 DEF PriceRange
<1>5. Min(prices) <= MinPrice(p) /\ MinPrice(p) <= Max(prices) /\ Min(prices) \in Nat /\ Max(prices) \in Nat
  BY <1>2, <1>3, LeastIsMin, GreatestIsMax
<1>6. PICK s \in OnSale(p) : skus[s].price = MinPrice(p)
  BY PriceOfVisible DEF Listed
<1>7. /\ w.category = q.category /\ w.seller = q.seller /\ w.search = q.search
      /\ w.min = Min(prices) /\ w.max = Max(prices) /\ w.traits = q.traits
  BY <1>4 DEF IsFacetQuery
<1> HIDE DEF w, prices
<1> QED
  BY <1>2, <1>5, <1>6, <1>7 DEF Listed, Passes

LEMMA FacetInvMakesFacetsCount ==
    ASSUME ShopTypeOK, FacetInv
    PROVE  FacetsCountTheListing
<1> SUFFICES ASSUME Answered("facets"), ~req.raced, NEW q, q = req.arg
             PROVE  /\ \A f \in req.answer.facets :
                          /\ f.count = Cardinality(Listed([q EXCEPT !.traits = [name \in {f.name} |-> {f.value}]]))
                          /\ f.count > 0
                    /\ \A t \in Traits : t.product \in Listed(q) =>
                          \E f \in req.answer.facets : f.name = t.name /\ f.value = t.value
                    /\ Listed(q) \subseteq Listed([q EXCEPT !.min = req.read[1], !.max = req.read[2]])
  BY DEF FacetsCountTheListing
<1>1. IsFacetQuery(q) /\ req.answer.facets = FacetRows(q) /\ req.read = PriceRange(q)
  BY DEF FacetInv, Unasked, Answered, At
<1>2. ASSUME NEW t \in Traits, t.product \in Listed(q)
      PROVE  \E f \in FacetRows(q) : f.name = t.name /\ f.value = t.value
  <2>1. [q EXCEPT !.traits = NoTraits] = q
    BY <1>1 DEF IsFacetQuery
  <2>2. PICK rows : rows = {u \in Traits : u.product \in Listed([q EXCEPT !.traits = NoTraits])} /\ t \in rows
    BY <1>2, <2>1
  <2>3. [name |-> t.name, value |-> t.value,
         count |-> Cardinality({u.product : u \in {v \in rows : v.name = t.name /\ v.value = t.value}})]
           \in FacetRows(q)
    BY <2>2 DEF FacetRows
  <2> QED
    BY <2>3
<1> QED
  BY <1>1, <1>2, FacetCounts, RangeCovers

\* For any filters, traits and prices: every facet counts the products the
\* listing would show with it, none is missing, and the price range loses none.
THEOREM FacetsAlwaysCountTheListing == Spec => []FacetsCountTheListing
<1>1. Init => ShopTypeOK /\ Shape /\ FacetInv
  BY ShopStartsTyped, ShapeStarts DEF Init, Idle, FacetInv, Unasked, At, Answered
<1>2. (ShopTypeOK /\ Shape /\ FacetInv) /\ [Next]_vars => (ShopTypeOK /\ Shape /\ FacetInv)'
  BY ShopTypesStay, ShapeStays, FacetInvStays
<1>3. ShopTypeOK /\ FacetInv => FacetsCountTheListing
  BY FacetInvMakesFacetsCount
<1> QED
  BY <1>1, <1>2, <1>3, PTL DEF Spec

-----------------------------------------------------------------------------
(* Carts. *)

InCart == req.kind \in {"cart", "validate"}

CartInv ==
    /\ InCart /\ ~Unasked => req.arg \in Carts
    /\ InCart /\ req.stage = "second" =>
        /\ req.read \subseteq ProductIds(req.kind, req.arg)
        /\ ~req.raced => req.read = Found(ProductIds(req.kind, req.arg))
    /\ Answered("cart") \/ Answered("validate") =>
        \E read \in SUBSET ProductIds(req.kind, req.arg) :
            /\ req.answer = BatchAnswer(req.kind, req.arg, AttachSkus(read))
            /\ ~req.raced => read = Found(ProductIds(req.kind, req.arg))

LEMMA SameTablesSameBatch ==
    ASSUME UNCHANGED shop, NEW ids
    PROVE  AttachSkus(ids)' = AttachSkus(ids) /\ Found(ids)' = Found(ids)
<1>1. \A p : OnSale(p)' = OnSale(p) /\ SkusOf(p)' = SkusOf(p)
  BY DEF shop, OnSale, SkusOf
<1>2. \A p : Visible(p)' <=> Visible(p)
  BY <1>1 DEF shop, Visible
<1> QED
  BY <1>1, <1>2 DEF shop, AttachSkus, Found

LEMMA CartInvStays ==
    ASSUME Shape, CartInv, [Next]_vars
    PROVE  CartInv'
<1> USE DEF Shape
<1>1. CASE AskCart
  <2>1. PICK lines \in Carts, kind \in {"cart", "validate"} : AskBatch(kind, lines)
    BY <1>1 DEF AskCart
  <2>2. PICK ids : ids = ProductIds(kind, lines)
    OBVIOUS
  <2>3. UNCHANGED shop
    BY <2>1 DEF AskBatch, Still
  <2>4. CASE ids = {}
    <3>1. PICK answer : /\ answer = BatchAnswer(kind, lines, NoBatch)
                        /\ AskAndAnswer(kind, lines, answer)
      BY <2>1, <2>2, <2>4 DEF AskBatch
    <3>2. Becomes(kind, lines, "done", None, FALSE, answer)
      BY <3>1, RequestMoves
    <3>3. NoBatch = AttachSkus({})'
      BY DEF NoBatch, AttachSkus
    <3>4. Found(ids)' = {}
      BY <2>4 DEF Found
    <3>5. \E read \in SUBSET ids :
             answer = BatchAnswer(kind, lines, AttachSkus(read)') /\ read = Found(ids)'
      BY <2>4, <3>1, <3>3, <3>4
    <3> QED
      BY <2>2, <3>2, <3>5 DEF Becomes, CartInv, InCart, Unasked
  <2>5. CASE ids # {}
    <3>1. Ask(kind, lines)
      BY <2>1, <2>2, <2>5 DEF AskBatch
    <3>2. Becomes(kind, lines, "first", None, FALSE, None)
      BY <3>1, RequestMoves
    <3> QED
      BY <3>2 DEF Becomes, CartInv, InCart, Unasked, Answered, At
  <2> QED
    BY <2>4, <2>5
<1>2. CASE ReadBatch /\ InCart
  <2>1. PICK ids, found : ids = ProductIds(req.kind, req.arg) /\ found = Found(ids) /\ Read(found)
    BY <1>2 DEF ReadBatch
  <2>2. Becomes(req.kind, req.arg, "second", found, req.raced, req.answer) /\ UNCHANGED shop
    BY <1>2, <2>1, RequestMoves DEF ReadBatch, Still
  <2>3. found \subseteq ids /\ found = Found(ids)'
    BY <2>1, <2>2, SameTablesSameBatch DEF Found
  <2>4. req.arg \in Carts
    BY <1>2 DEF CartInv, ReadBatch, Unasked
  <2> QED
    BY <2>1, <2>2, <2>3, <2>4 DEF Becomes, CartInv, InCart, Unasked, Answered, At
<1>3. CASE ReadBatchSkus /\ InCart
  <2>1. PICK read, answer : /\ read = req.read
                            /\ answer = BatchAnswer(req.kind, req.arg, AttachSkus(read))
                            /\ Answer(answer)
    BY <1>3 DEF ReadBatchSkus
  <2>2. Becomes(req.kind, req.arg, "done", None, req.raced, answer) /\ UNCHANGED shop
    BY <1>3, <2>1, RequestMoves DEF ReadBatchSkus, Still
  <2>3. PICK ids : ids = ProductIds(req.kind, req.arg)
    OBVIOUS
  <2>4. req.arg \in Carts /\ read \subseteq ids /\ (~req.raced => read = Found(ids))
    BY <1>3, <2>1, <2>3 DEF CartInv, ReadBatchSkus, Unasked
  <2>5. AttachSkus(read)' = AttachSkus(read) /\ Found(ids)' = Found(ids)
    BY <2>2, SameTablesSameBatch
  <2>6. /\ answer = BatchAnswer(req.kind, req.arg, AttachSkus(read)')
        /\ ~req.raced => read = Found(ids)'
    BY <2>1, <2>4, <2>5
  <2> QED
    BY <1>3, <2>2, <2>3, <2>4, <2>6 DEF Becomes, CartInv, InCart, Unasked
<1>4. CASE B2BFails /\ InCart
  <2>1. PICK code : Answer(Error(code))
    BY <1>4, Zenon DEF B2BFails
  <2>2. /\ req'.arg = req.arg /\ req'.kind = req.kind /\ req'.stage = "done" /\ ~Unasked
        /\ ~Answered("cart")' /\ ~Answered("validate")'
    BY <1>4, <2>1, RequestMoves, FailuresAnswerNothing DEF Becomes, B2BFails, Unasked
  <2> QED
    BY <1>4, <2>2 DEF CartInv, InCart, Unasked
<1>5. CASE ShopChanges /\ InCart
  <2>1. req.stage = "second" /\ Becomes(req.kind, req.arg, "second", req.read, TRUE, req.answer)
    BY <1>5, ChangesFallBetween DEF Listing, InCart
  <2> QED
    BY <1>5, <2>1 DEF Becomes, CartInv, InCart, Unasked, At, Answered
<1>6. CASE req'.kind \notin {"cart", "validate"}
  BY <1>6 DEF CartInv, InCart, At, Answered
<1>7. CASE UNCHANGED vars
  <2>1. UNCHANGED shop /\ UNCHANGED req
    BY <1>7 DEF vars
  <2>2. \A ids : AttachSkus(ids)' = AttachSkus(ids) /\ Found(ids)' = Found(ids)
    BY <2>1, SameTablesSameBatch
  <2> QED
    BY <2>1, <2>2 DEF CartInv, InCart, Unasked, At, Answered
<1> QED
  BY <1>1, <1>2, <1>3, <1>4, <1>5, <1>6, <1>7, KindsKeepToTheirSteps DEF OnlyItsOwn, CartSteps, InCart

LEMMA CartLine ==
    ASSUME NEW lines \in Carts, NEW line \in ToSet(lines)
    PROVE  line.quantity \in Nat \ {0} /\ line.sku \in Skus /\ line.product \in {None, ProductOf[line.sku]}
<1>1. PICK Rows : Rows = [sku : Skus, product : Products \cup {None}, quantity : Nat \ {0}]
  OBVIOUS
<1>2. lines \in Seq(Rows) /\ line.product \in {None, ProductOf[line.sku]}
  BY <1>1, StorefrontAssumption
<1>3. PICK i \in DOMAIN lines : line = lines[i]
  BY DEF ToSet
<1>4. line \in Rows
  BY <1>2, <1>3
<1> QED
  BY <1>1, <1>2, <1>4

\* What _enrich_item makes of a line, in terms of the tables.
Offered(line, read) ==
    /\ line.product \in read
    /\ line.sku \in SkusOf(line.product)
    /\ skus[line.sku].active > 0
    /\ line.quantity <= skus[line.sku].active

LEMMA EnrichedLine ==
    ASSUME ShopTypeOK, NEW line, line.quantity \in Nat \ {0}, NEW read, NEW item, item = CartItem(line, AttachSkus(read))
    PROVE  /\ item.is_available /\ item.quantity <= item.available <=> Offered(line, read)
           /\ Issue(item) = None <=> Offered(line, read)
<1> DEFINE batch == AttachSkus(read)
           offered == line.product \in DOMAIN batch
           found == offered /\ line.sku \in DOMAIN batch[line.product]
           row == batch[line.product][line.sku]
           active == IF found THEN row.active ELSE 0
<1>1. /\ item.quantity = line.quantity /\ item.available = active
      /\ item.is_available = (active > 0)
      /\ item.reason = IF ~offered THEN "PRODUCT_DELETED" ELSE IF active > 0 THEN None ELSE "OUT_OF_STOCK"
  BY DEF CartItem
<1>2. found <=> line.product \in read /\ line.sku \in SkusOf(line.product)
  BY DEF AttachSkus
<1>3. ASSUME found PROVE active = skus[line.sku].active /\ skus[line.sku].active \in Nat
  <2>1. line.sku \in DOMAIN skus
    BY <1>2, <1>3 DEF SkusOf
  <2>2. skus[line.sku] \in [active : 0..MaxActive, price : Prices]
    BY <2>1 DEF ShopTypeOK
  <2>3. row = skus[line.sku]
    BY <1>2, <1>3 DEF AttachSkus
  <2> QED
    BY <1>3, <2>2, <2>3, CatalogAssumption
<1>4. ~found => active = 0
  OBVIOUS
<1> HIDE DEF batch, offered, found, row, active
<1>5. active \in Nat /\ (active > 0 /\ line.quantity <= active <=> Offered(line, read))
  BY <1>2, <1>3, <1>4 DEF Offered
<1>6. item.is_available /\ item.quantity <= item.available <=> active > 0 /\ line.quantity <= active
  BY <1>1
<1>7. item.reason = None <=> active > 0 /\ offered
  BY <1>1, StorefrontAssumption
<1>8. active > 0 => offered
  BY <1>4 DEF found
<1>9. Issue(item) = None <=> active > 0 /\ line.quantity <= active
  <2>1. CASE active > 0
    <3>1. item.is_available
      BY <1>1, <2>1
    <3>2. Issue(item) = IF line.quantity > active THEN "QUANTITY_REDUCED" ELSE None
      BY <1>1, <3>1 DEF Issue
    <3> QED
      BY <1>5, <2>1, <3>2, StorefrontAssumption
  <2>2. CASE ~(active > 0)
    <3>1. ~item.is_available
      BY <1>1, <2>2
    <3> QED
      BY <1>7, <2>2, <3>1 DEF Issue
  <2> QED
    BY <2>1, <2>2
<1> QED
  BY <1>5, <1>6, <1>9

LEMMA EnrichedCart ==
    ASSUME ShopTypeOK, NEW lines \in Carts, NEW read, NEW kind \in {"cart", "validate"}, NEW answer, NEW cart,
           answer = BatchAnswer(kind, lines, AttachSkus(read)),
           cart = IF kind = "cart" THEN answer ELSE answer.cart
    PROVE  /\ cart.is_valid <=> \A line \in ToSet(lines) : Offered(line, read)
           /\ kind = "validate" => (answer.is_valid <=> cart.is_valid)
<1>1. PICK batch : batch = AttachSkus(read)
  OBVIOUS
<1>2. ToSet(lines) = {lines[i] : i \in DOMAIN lines}
  BY DEF ToSet
<1>3. cart = CartResponse(lines, batch)
  BY <1>1 DEF BatchAnswer, ValidateResponse
<1>4. PICK items : items = [i \in DOMAIN lines |-> CartItem(lines[i], batch)]
  OBVIOUS
<1>5. cart.items = items /\ cart.is_valid = \A i \in DOMAIN items : items[i].is_available /\ items[i].quantity <= items[i].available
  <2>1. CartResponse(lines, batch).items = [i \in DOMAIN lines |-> CartItem(lines[i], batch)]
    BY DEF CartResponse
  <2>2. CartResponse(lines, batch).is_valid = \A i \in DOMAIN items : items[i].is_available /\ items[i].quantity <= items[i].available
    BY <1>4 DEF CartResponse
  <2> QED
    BY <1>3, <1>4, <2>1, <2>2
<1>6. ASSUME NEW i \in DOMAIN lines
      PROVE  /\ items[i].is_available /\ items[i].quantity <= items[i].available <=> Offered(lines[i], read)
             /\ Issue(items[i]) = None <=> Offered(lines[i], read)
  <2>1. items[i] = CartItem(lines[i], AttachSkus(read))
    BY <1>1, <1>4, Zenon
  <2>2. lines[i].quantity \in Nat \ {0}
    BY <1>2, CartLine
  <2> QED
    BY <2>1, <2>2, EnrichedLine
<1>7. cart.is_valid <=> \A i \in DOMAIN lines : Offered(lines[i], read)
  BY <1>4, <1>5, <1>6
<1>8. ASSUME kind = "validate" PROVE answer.is_valid <=> \A i \in DOMAIN lines : Issue(items[i]) = None
  <2>1. answer = ValidateResponse(lines, batch)
    BY <1>1, <1>8 DEF BatchAnswer
  <2>2. answer.is_valid = ({i \in DOMAIN lines : Issue(cart.items[i]) # None} = {})
    BY <1>3, <2>1 DEF ValidateResponse
  <2> QED
    BY <1>5, <2>2
<1> QED
  BY <1>2, <1>6, <1>7, <1>8

LEMMA CartInvMakesCartsCurrent ==
    ASSUME ShopTypeOK, RequestShape, CartInv
    PROVE  CartsAreCurrent
<1> DEFINE Sold(line) == line.sku \in DOMAIN skus /\ skus[line.sku].active >= line.quantity
           OnShelf(line) == line.product # None /\ Visible(line.product)
<1> SUFFICES ASSUME Answered("cart") \/ Answered("validate"),
                    NEW cart, cart = IF req.kind = "cart" THEN req.answer ELSE req.answer.cart
             PROVE  /\ cart.is_valid => \A line \in ToSet(req.arg) : Sold(line) /\ (req.raced \/ OnShelf(line))
                    /\ (\A line \in ToSet(req.arg) : Sold(line) /\ OnShelf(line)) /\ ~req.raced => cart.is_valid
                    /\ req.kind = "validate" => (req.answer.is_valid <=> cart.is_valid)
  BY DEF CartsAreCurrent
<1>1. req.kind \in {"cart", "validate"} /\ req.arg \in Carts
  BY DEF CartInv, InCart, Answered, At, Unasked
<1>2. PICK ids : ids = ProductIds(req.kind, req.arg)
  OBVIOUS
<1>3. PICK read \in SUBSET ids : /\ req.answer = BatchAnswer(req.kind, req.arg, AttachSkus(read))
                                 /\ ~req.raced => read = Found(ids)
  BY <1>2 DEF CartInv
<1>4. /\ cart.is_valid <=> \A line \in ToSet(req.arg) : Offered(line, read)
      /\ req.kind = "validate" => (req.answer.is_valid <=> cart.is_valid)
  BY <1>1, <1>3, EnrichedCart
<1>5. ids = {line.product : line \in ToSet(req.arg)} \ {None}
  BY <1>1, <1>2 DEF ProductIds
<1>6. ASSUME NEW line \in ToSet(req.arg), Offered(line, read)
      PROVE  Sold(line) /\ (req.raced \/ OnShelf(line))
  <2>1. line.sku \in DOMAIN skus /\ line.quantity <= skus[line.sku].active /\ line.product \in read
    BY <1>6 DEF Offered, SkusOf
  <2>2. ~req.raced => line.product # None /\ Visible(line.product)
    BY <1>3, <1>5, <2>1 DEF Found
  <2> QED
    BY <2>1, <2>2
<1>7. ASSUME NEW line \in ToSet(req.arg), Sold(line), OnShelf(line), ~req.raced
      PROVE  Offered(line, read)
  <2>1. line.quantity \in Nat \ {0} /\ line.product \in {None, ProductOf[line.sku]} /\ line.sku \in Skus
    BY <1>1, <1>7, CartLine
  <2>2. line.product \in read
    BY <1>3, <1>5, <1>7 DEF Found
  <2>3. line.sku \in SkusOf(line.product)
    BY <1>7, <2>1 DEF SkusOf
  <2>4. skus[line.sku].active \in Nat
    <3>1. skus[line.sku] \in [active : 0..MaxActive, price : Prices]
      BY <1>7 DEF ShopTypeOK
    <3> QED
      BY <3>1, CatalogAssumption
  <2> QED
    BY <1>7, <2>1, <2>2, <2>3, <2>4 DEF Offered
<1> HIDE DEF Sold, OnShelf
<1> QED
  BY <1>4, <1>6, <1>7

\* Whoever sees a cart as valid can order all of it, whatever lines it has and
\* however many changes fell between the two statements; none that could be
\* ordered is refused without such a change, and both views agree.
THEOREM CartsStayCurrent == Spec => []CartsAreCurrent
<1>1. Init => ShopTypeOK /\ Shape /\ CartInv
  BY ShopStartsTyped, ShapeStarts DEF Init, Idle, CartInv, InCart, Unasked, At, Answered
<1>2. (ShopTypeOK /\ Shape /\ CartInv) /\ [Next]_vars => (ShopTypeOK /\ Shape /\ CartInv)'
  BY ShopTypesStay, ShapeStays, CartInvStays
<1>3. ShopTypeOK /\ Shape /\ CartInv => CartsAreCurrent
  BY CartInvMakesCartsCurrent DEF Shape
<1> QED
  BY <1>1, <1>2, <1>3, PTL DEF Spec

-----------------------------------------------------------------------------
(* Ranks: a page of a sorted listing is a stretch of them. *)

\* A strict total order on a set, given as a set of pairs.
Orders(R, S) ==
    /\ \A a \in S : <<a, a>> \notin R
    /\ \A a, b \in S : a # b => <<a, b>> \in R \/ <<b, a>> \in R
    /\ \A a, b, c \in S : <<a, b>> \in R /\ <<b, c>> \in R => <<a, c>> \in R

Sorted(seq, R) == \A i, j \in DOMAIN seq : i < j => <<seq[i], seq[j]>> \in R

Ahead(R, S, p) == {r \in S : <<r, p>> \in R}

Rank(R, S, p) == Cardinality(Ahead(R, S, p))

LEMMA RankType ==
    ASSUME NEW S, IsFiniteSet(S), NEW R, NEW p
    PROVE  /\ Rank(R, S, p) \in Nat
           /\ p \in S /\ <<p, p>> \notin R => Rank(R, S, p) < Cardinality(S)
<1>1. Ahead(R, S, p) \in SUBSET S
  BY DEF Ahead
<1>2. /\ IsFiniteSet(Ahead(R, S, p)) /\ Cardinality(Ahead(R, S, p)) <= Cardinality(S)
      /\ Cardinality(S) = Cardinality(Ahead(R, S, p)) => S = Ahead(R, S, p)
  BY <1>1, FS_Subset
<1>3. Cardinality(Ahead(R, S, p)) \in Nat /\ Cardinality(S) \in Nat
  BY <1>2, FS_CardinalityType
<1>4. p \in S /\ <<p, p>> \notin R => S # Ahead(R, S, p)
  BY DEF Ahead
<1> QED
  BY <1>2, <1>3, <1>4 DEF Rank

LEMMA RankGrows ==
    ASSUME NEW S, IsFiniteSet(S), NEW R, NEW Q, NEW T \in SUBSET S, NEW p,
           \A r \in T : <<r, p>> \in Q => <<r, p>> \in R
    PROVE  Rank(Q, T, p) <= Rank(R, S, p)
<1>1. Ahead(Q, T, p) \in SUBSET Ahead(R, S, p)
  BY DEF Ahead
<1>2. IsFiniteSet(Ahead(R, S, p))
  BY FS_Subset DEF Ahead
<1> QED
  BY <1>1, <1>2, FS_Subset DEF Rank

LEMMA RankFollowsOrder ==
    ASSUME NEW S, IsFiniteSet(S), NEW R, Orders(R, S), NEW a \in S, NEW b \in S, <<a, b>> \in R
    PROVE  Rank(R, S, a) < Rank(R, S, b)
<1>1. Ahead(R, S, a) \in SUBSET Ahead(R, S, b)
  BY DEF Ahead, Orders
<1>2. a \in Ahead(R, S, b) /\ a \notin Ahead(R, S, a)
  BY DEF Ahead, Orders
<1>3. IsFiniteSet(Ahead(R, S, b))
  BY FS_Subset DEF Ahead
<1>4. /\ Cardinality(Ahead(R, S, a)) <= Cardinality(Ahead(R, S, b))
      /\ Cardinality(Ahead(R, S, b)) # Cardinality(Ahead(R, S, a))
  BY <1>1, <1>2, <1>3, FS_Subset
<1>5. Rank(R, S, a) \in Nat /\ Rank(R, S, b) \in Nat
  BY RankType
<1> QED
  BY <1>4, <1>5 DEF Rank

\* A finite set under a strict total order can be sorted: by rank.
LEMMA SortedExists ==
    ASSUME NEW S, IsFiniteSet(S), NEW R, Orders(R, S)
    PROVE  \E seq \in SetToSeqs(S) : Sorted(seq, R)
<1>1. PICK n \in Nat : n = Cardinality(S)
  BY FS_CardinalityType
<1> DEFINE rank == [p \in S |-> Rank(R, S, p) + 1]
           seq == [i \in 1..n |-> CHOOSE p \in S : rank[p] = i]
<1>a. \A p \in S : Rank(R, S, p) \in Nat /\ Rank(R, S, p) < n
  BY <1>1, RankType DEF Orders
<1>2. rank \in [S -> 1..n]
  BY <1>a
<1>3. ASSUME NEW a \in S, NEW b \in S, <<a, b>> \in R PROVE rank[a] < rank[b]
  <2>1. Rank(R, S, a) < Rank(R, S, b)
    BY <1>3, RankFollowsOrder
  <2> QED
    BY <1>a, <2>1
<1> HIDE DEF rank
<1>4. rank \in Injection(S, 1..n)
  <2>1. ASSUME NEW a \in S, NEW b \in S, a # b PROVE rank[a] # rank[b]
    <3>1. <<a, b>> \in R \/ <<b, a>> \in R
      BY <2>1 DEF Orders
    <3>2. rank[a] < rank[b] \/ rank[b] < rank[a]
      BY <1>3, <3>1
    <3> QED
      BY <1>2, <3>2
  <2>2. \A a, b \in S : rank[a] = rank[b] => a = b
    BY <2>1
  <2> QED
    BY <1>2, <2>2 DEF Injection, IsInjective
<1>5. rank \in Surjection(S, 1..n)
  BY <1>1, <1>4, FS_Injection, FS_Interval
<1>6. \A i \in 1..n : seq[i] \in S /\ rank[seq[i]] = i
  BY <1>5 DEF Surjection
<1> HIDE DEF seq
<1>7. seq \in [1..n -> S] /\ DOMAIN seq = 1..n
  BY <1>6 DEF seq
<1>8. seq \in SetToSeqs(S)
  BY <1>1, <1>6, <1>7 DEF SetToSeqs
<1>9. Sorted(seq, R)
  <2> SUFFICES ASSUME NEW i \in 1..n, NEW j \in 1..n, i < j PROVE <<seq[i], seq[j]>> \in R
    BY <1>7 DEF Sorted
  <2>1. seq[i] # seq[j] /\ ~(rank[seq[j]] < rank[seq[i]])
    BY <1>6
  <2> QED
    BY <1>3, <1>6, <2>1 DEF Orders
<1> QED
  BY <1>8, <1>9

\* Every element of a sorted sequence stands where its rank says.
LEMMA SortedByRank ==
    ASSUME NEW S, IsFiniteSet(S), NEW R, Orders(R, S), NEW seq \in SetToSeqs(S), Sorted(seq, R)
    PROVE  /\ seq \in [1..Cardinality(S) -> S]
           /\ \A i \in DOMAIN seq : Rank(R, S, seq[i]) = i - 1
           /\ \A p \in S : \E i \in DOMAIN seq : seq[i] = p
<1>1. PICK n \in Nat : n = Cardinality(S)
  BY FS_CardinalityType
<1>2. seq \in [1..n -> S] /\ \A i, j \in 1..n : seq[i] = seq[j] => i = j
  BY <1>1 DEF SetToSeqs
<1>3. \A p \in S : \E i \in 1..n : seq[i] = p
  <2>1. seq \in Injection(1..n, S)
    BY <1>2 DEF Injection, IsInjective
  <2>2. Cardinality(1..n) = n
    BY FS_Interval
  <2>3. seq \in Surjection(1..n, S)
    BY <1>1, <2>1, <2>2, FS_Injection
  <2> QED
    BY <2>3 DEF Surjection
<1>4. ASSUME NEW i \in 1..n PROVE Rank(R, S, seq[i]) = i - 1
  <2> DEFINE front == [j \in 1..(i - 1) |-> seq[j]]
  <2>1. \A j \in 1..n : j < i <=> <<seq[j], seq[i]>> \in R
    <3> SUFFICES ASSUME NEW j \in 1..n PROVE j < i <=> <<seq[j], seq[i]>> \in R
      OBVIOUS
    <3>1. seq[i] \in S /\ seq[j] \in S /\ i \in DOMAIN seq /\ j \in DOMAIN seq
      BY <1>2
    <3>2. j < i => <<seq[j], seq[i]>> \in R
      BY <3>1 DEF Sorted
    <3>3. i < j => <<seq[i], seq[j]>> \in R
      BY <3>1 DEF Sorted
    <3>4. i = j \/ i < j \/ j < i
      OBVIOUS
    <3>5. ~(<<seq[j], seq[i]>> \in R /\ <<seq[i], seq[j]>> \in R) /\ <<seq[i], seq[i]>> \notin R
      BY <3>1 DEF Orders
    <3> QED
      BY <3>2, <3>3, <3>4, <3>5
  <2>2. front \in [1..(i - 1) -> Ahead(R, S, seq[i])]
    BY <1>2, <2>1 DEF Ahead
  <2>3. \A j, k \in 1..(i - 1) : front[j] = front[k] => j = k
    BY <1>2
  <2>4. \A r \in Ahead(R, S, seq[i]) : \E j \in 1..(i - 1) : front[j] = r
    <3> SUFFICES ASSUME NEW r \in S, <<r, seq[i]>> \in R PROVE \E j \in 1..(i - 1) : front[j] = r
      BY DEF Ahead
    <3>1. PICK j \in 1..n : seq[j] = r
      BY <1>3
    <3>2. j \in 1..(i - 1)
      BY <2>1, <3>1
    <3> QED
      BY <3>1, <3>2
  <2>5. ExistsBijection(1..(i - 1), Ahead(R, S, seq[i]))
    BY <2>2, <2>3, <2>4 DEF ExistsBijection, Bijection, Injection, Surjection, IsInjective
  <2>6. IsFiniteSet(1..(i - 1)) /\ Cardinality(1..(i - 1)) = i - 1
    BY FS_Interval
  <2> QED
    BY <2>5, <2>6, FS_Bijection DEF Rank
<1> QED
  BY <1>1, <1>2, <1>3, <1>4

\* LIMIT and OFFSET take the ranks from the offset to the offset and the limit.
Promise(limit, offset, size) == Max({0, Min({limit, size - offset})})

LEMMA LesserOf ==
    ASSUME NEW a \in Int, NEW b \in Int
    PROVE  Min({a, b}) = IF a <= b THEN a ELSE b
<1>1. \E x \in {a, b} : \A y \in {a, b} : x <= y
  OBVIOUS
<1>2. Min({a, b}) \in {a, b} /\ \A y \in {a, b} : Min({a, b}) <= y
  BY <1>1 DEF Min
<1> QED
  BY <1>2

LEMMA GreaterOf ==
    ASSUME NEW a \in Int, NEW b \in Int
    PROVE  Max({a, b}) = IF a >= b THEN a ELSE b
<1>1. \E x \in {a, b} : \A y \in {a, b} : x >= y
  OBVIOUS
<1>2. Max({a, b}) \in {a, b} /\ \A y \in {a, b} : Max({a, b}) >= y
  BY <1>1 DEF Max
<1> QED
  BY <1>2

LEMMA PageLength ==
    ASSUME NEW S, IsFiniteSet(S), NEW seq \in SetToSeqs(S), NEW limit \in Nat, NEW offset \in Nat
    PROVE  /\ Page(seq, limit, offset) \in Seq(S)
           /\ Len(Page(seq, limit, offset)) = Promise(limit, offset, Cardinality(S))
           /\ IsInjective(Page(seq, limit, offset))
<1>1. PICK n \in Nat : n = Cardinality(S)
  BY FS_CardinalityType
<1>2. seq \in [1..n -> S] /\ \A i, j \in 1..n : seq[i] = seq[j] => i = j
  BY <1>1 DEF SetToSeqs
<1>3. Len(seq) = n
  BY <1>2
<1>4. PICK size : size \in Int /\ size = IF limit <= n - offset THEN limit ELSE n - offset
  BY (IF limit <= n - offset THEN limit ELSE n - offset) \in Int
<1>5. Page(seq, limit, offset) = [i \in 1..size |-> seq[offset + i]]
  BY <1>3, <1>4, LesserOf DEF Page
<1>6. \A i \in 1..size : offset + i \in 1..n
  BY <1>4
<1>7. Promise(limit, offset, n) = IF size >= 0 THEN size ELSE 0
  BY <1>4, LesserOf, GreaterOf DEF Promise
<1>8. PICK length \in Nat : length = (IF size >= 0 THEN size ELSE 0) /\ 1..size = 1..length
  <2>1. CASE size >= 0
    BY <1>4, <2>1
  <2>2. CASE size < 0
    <3>1. 1..size = 1..0
      BY <1>4, <2>2
    <3> QED
      BY <1>4, <2>2, <3>1
  <2> QED
    BY <1>4, <2>1, <2>2
<1>9. PICK page : page = Page(seq, limit, offset)
  OBVIOUS
<1>10. page = [i \in 1..length |-> seq[offset + i]] /\ \A i \in 1..length : offset + i \in 1..n
  BY <1>5, <1>6, <1>8, <1>9
<1>11. page \in Seq(S) /\ Len(page) = length
  <2>1. page \in [1..length -> S]
    BY <1>2, <1>10
  <2> QED
    BY <2>1
<1>12. IsInjective(page)
  <2> SUFFICES ASSUME NEW i \in 1..length, NEW j \in 1..length, page[i] = page[j] PROVE i = j
    BY <1>10 DEF IsInjective
  <2>1. seq[offset + i] = seq[offset + j] /\ offset + i \in 1..n /\ offset + j \in 1..n
    BY <1>10
  <2>2. offset + i = offset + j
    BY <1>2, <2>1
  <2> QED
    BY <2>2
<1> QED
  BY <1>1, <1>7, <1>8, <1>9, <1>11, <1>12

LEMMA PageIsStretch ==
    ASSUME NEW S, IsFiniteSet(S), NEW R, Orders(R, S), NEW seq \in SetToSeqs(S), Sorted(seq, R),
           NEW limit \in Nat, NEW offset \in Nat, NEW p \in S
    PROVE  p \in ToSet(Page(seq, limit, offset)) <=> offset <= Rank(R, S, p) /\ Rank(R, S, p) < offset + limit
<1>1. PICK n \in Nat : n = Cardinality(S)
  BY FS_CardinalityType
<1>2. /\ seq \in [1..n -> S]
      /\ \A i \in 1..n : Rank(R, S, seq[i]) = i - 1
      /\ \A r \in S : \E i \in 1..n : seq[i] = r
  BY <1>1, SortedByRank
<1>3. PICK at \in 1..n : seq[at] = p
  BY <1>2
<1>4. Rank(R, S, p) = at - 1
  BY <1>2, <1>3
<1>5. PICK size : size \in Int /\ size = IF limit <= n - offset THEN limit ELSE n - offset
  BY (IF limit <= n - offset THEN limit ELSE n - offset) \in Int
<1>6. Page(seq, limit, offset) = [i \in 1..size |-> seq[offset + i]]
  <2>1. Len(seq) = n
    BY <1>2
  <2> QED
    BY <1>5, <2>1, LesserOf DEF Page
<1>7. p \in ToSet(Page(seq, limit, offset)) <=> \E i \in 1..size : seq[offset + i] = p
  BY <1>6 DEF ToSet
<1>8. ASSUME NEW i \in 1..size, seq[offset + i] = p PROVE offset + i = at
  <2>1. offset + i \in 1..n
    BY <1>5
  <2>2. Rank(R, S, p) = offset + i - 1
    BY <1>2, <1>8, <2>1
  <2> QED
    BY <1>4, <2>2
<1>9. (\E i \in 1..size : seq[offset + i] = p) <=> at - offset \in 1..size
  <2>1. at - offset \in 1..size => seq[offset + (at - offset)] = p
    BY <1>3
  <2> QED
    BY <1>8, <2>1
<1> QED
  BY <1>4, <1>5, <1>7, <1>9

-----------------------------------------------------------------------------
(* The two listings: their rows, their orders and their pages. *)

IsRows(rows) == rows \in Seq(ToSet(rows))

IdsOf(rows) == {rows[i].id : i \in DOMAIN rows}

Once(rows) == \A i, j \in DOMAIN rows : rows[i].id = rows[j].id => i = j

\* One row for each entry of a page.
LEMMA RowsOfPage ==
    ASSUME NEW S, NEW page \in Seq(S), IsInjective(page),
           NEW rows, rows = [i \in DOMAIN page |-> rows[i]], \A i \in DOMAIN page : rows[i].id = page[i]
    PROVE  IsRows(rows) /\ Len(rows) = Len(page) /\ Once(rows) /\ IdsOf(rows) = ToSet(page)
<1>1. PICK n \in Nat : n = Len(page) /\ DOMAIN page = 1..n
  OBVIOUS
<1>2. rows \in [1..n -> ToSet(rows)] /\ DOMAIN rows = 1..n
  BY <1>1 DEF ToSet
<1>3. IsRows(rows) /\ Len(rows) = n
  BY <1>2 DEF IsRows
<1>4. Once(rows)
  BY <1>1, <1>2 DEF Once, IsInjective
<1>5. IdsOf(rows) = ToSet(page)
  BY <1>1, <1>2 DEF IdsOf, ToSet
<1> QED
  BY <1>1, <1>3, <1>4, <1>5

\* The rows of a page follow those of the pages before it.
LEMMA RowsJoin ==
    ASSUME NEW s, NEW t, IsRows(s), IsRows(t)
    PROVE  /\ IsRows(s \o t) /\ IdsOf(s \o t) = IdsOf(s) \cup IdsOf(t)
           /\ Once(s) /\ Once(t) /\ IdsOf(s) \cap IdsOf(t) = {} => Once(s \o t)
<1>1. PICK m \in Nat : m = Len(s) /\ DOMAIN s = 1..m
  BY DEF IsRows
<1>2. PICK n \in Nat : n = Len(t) /\ DOMAIN t = 1..n
  BY DEF IsRows
<1>3. PICK both : both = s \o t
  OBVIOUS
<1>4. /\ DOMAIN both = 1..(m + n)
      /\ \A i \in 1..m : both[i] = s[i]
      /\ \A i \in 1..n : both[m + i] = t[i]
      /\ both = [i \in 1..(m + n) |-> both[i]]
  <2>1. PICK T : s \in Seq(T) /\ t \in Seq(T)
    <3>1. \A i \in 1..m : s[i] \in ToSet(s) \cup ToSet(t)
      BY <1>1 DEF ToSet
    <3>2. \A i \in 1..n : t[i] \in ToSet(s) \cup ToSet(t)
      BY <1>2 DEF ToSet
    <3>3. s \in [1..m -> ToSet(s)] /\ t \in [1..n -> ToSet(t)]
      BY <1>1, <1>2, LenProperties DEF IsRows
    <3>4. s \in Seq(ToSet(s) \cup ToSet(t)) /\ t \in Seq(ToSet(s) \cup ToSet(t))
      BY <3>1, <3>2, <3>3
    <3> QED
      BY <3>4
  <2>2. /\ both \in Seq(T) /\ Len(both) = m + n
        /\ \A k \in 1..(m + n) : both[k] = IF k <= m THEN s[k] ELSE t[k - m]
    BY <1>1, <1>2, <1>3, <2>1, ConcatProperties
  <2>3. DOMAIN both = 1..(m + n) /\ both = [i \in 1..(m + n) |-> both[i]]
    BY <2>2
  <2>4. \A i \in 1..m : i \in 1..(m + n) /\ i <= m
    OBVIOUS
  <2>5. \A i \in 1..n : m + i \in 1..(m + n) /\ ~(m + i <= m) /\ (m + i) - m = i
    OBVIOUS
  <2> QED
    BY <2>2, <2>3, <2>4, <2>5
<1>5. \A k \in 1..(m + n) : k \in 1..m \/ \E i \in 1..n : k = m + i
  <2> SUFFICES ASSUME NEW k \in 1..(m + n), k \notin 1..m PROVE k - m \in 1..n /\ k = m + (k - m)
    OBVIOUS
  <2> QED
    OBVIOUS
<1>6. IsRows(both)
  <2>1. both \in [1..(m + n) -> ToSet(both)]
    BY <1>4 DEF ToSet
  <2> QED
    BY <2>1 DEF IsRows
<1>7. IdsOf(both) = IdsOf(s) \cup IdsOf(t)
  <2>1. \A i \in 1..m : i \in 1..(m + n)
    OBVIOUS
  <2>2. \A i \in 1..n : m + i \in 1..(m + n)
    OBVIOUS
  <2>3. \A i \in 1..m : s[i].id \in IdsOf(both)
    BY <1>4, <2>1 DEF IdsOf
  <2>4. \A i \in 1..n : t[i].id \in IdsOf(both)
    BY <1>4, <2>2 DEF IdsOf
  <2>5. ASSUME NEW k \in 1..(m + n) PROVE both[k].id \in IdsOf(s) \cup IdsOf(t)
    <3>1. CASE k \in 1..m
      BY <1>1, <1>4, <3>1 DEF IdsOf
    <3>2. CASE k \notin 1..m
      <4>1. PICK i \in 1..n : k = m + i
        BY <1>5, <3>2
      <4>2. both[k].id = t[i].id
        BY <1>4, <4>1
      <4> QED
        BY <1>2, <4>2 DEF IdsOf
    <3> QED
      BY <3>1, <3>2
  <2>6. IdsOf(both) \subseteq IdsOf(s) \cup IdsOf(t)
    BY <1>4, <2>5 DEF IdsOf
  <2>7. IdsOf(s) \subseteq IdsOf(both)
    BY <1>1, <2>3 DEF IdsOf
  <2>8. IdsOf(t) \subseteq IdsOf(both)
    BY <1>2, <2>4 DEF IdsOf
  <2> QED
    BY <2>6, <2>7, <2>8
<1>8. ASSUME Once(s), Once(t), IdsOf(s) \cap IdsOf(t) = {} PROVE Once(both)
  <2> SUFFICES ASSUME NEW i \in 1..(m + n), NEW j \in 1..(m + n), both[i].id = both[j].id PROVE i = j
    BY <1>4 DEF Once
  <2>1. CASE i \in 1..m /\ j \in 1..m
    BY <1>1, <1>4, <1>8, <2>1 DEF Once
  <2>2. CASE i \notin 1..m /\ j \notin 1..m
    <3>1. PICK a \in 1..n, b \in 1..n : i = m + a /\ j = m + b
      BY <1>5, <2>2
    <3>2. t[a].id = t[b].id
      BY <1>4, <3>1
    <3> QED
      BY <1>2, <1>8, <3>1, <3>2 DEF Once
  <2>3. ASSUME NEW a \in 1..m, NEW b \in 1..n, both[a].id = both[m + b].id PROVE FALSE
    <3>1. s[a].id = t[b].id
      BY <1>4, <2>3
    <3>2. s[a].id \in IdsOf(s) /\ t[b].id \in IdsOf(t)
      BY <1>1, <1>2 DEF IdsOf
    <3> QED
      BY <1>8, <3>1, <3>2
  <2> QED
    BY <1>5, <2>1, <2>2, <2>3
<1> QED
  BY <1>3, <1>6, <1>7, <1>8

\* The two orders: by the sort of the question, or by age.
RowOrder(kind, q) ==
    {pair \in Products \X Products :
        IF kind = "list" THEN Before(pair[1], pair[2], q.sort)
        ELSE CreatedAt[pair[1]] > CreatedAt[pair[2]]}

LEMMA PricesAreNumbers ==
    ASSUME ShopTypeOK, NEW p
    PROVE  MinPrice(p) \in Nat
<1> DEFINE T == {skus[s].price : s \in OnSale(p)}
<1>1. CASE OnSale(p) = {}
  BY <1>1 DEF MinPrice
<1>2. CASE OnSale(p) # {}
  <2>1. \A s \in OnSale(p) : skus[s].price \in Prices
    BY DEF OnSale, SkusOf, ShopTypeOK
  <2>2. \A s \in OnSale(p) : skus[s].price \in Nat
    BY <2>1, CatalogAssumption
  <2>4. T \in SUBSET Nat /\ T # {}
    BY <1>2, <2>2
  <2> HIDE DEF T
  <2>3. Min(T) \in Nat
    BY <2>4, LeastIsMin
  <2> QED
    BY <1>2, <2>3 DEF MinPrice, T
<1> QED
  BY <1>1, <1>2

LEMMA MembersAreProducts ==
    ASSUME NEW kind, NEW q
    PROVE  Members(kind, q) \in SUBSET Products /\ IsFiniteSet(Members(kind, q))
<1>1. Members(kind, q) \in SUBSET Products
  BY DEF Members, Listed, SellerListed
<1> QED
  BY <1>1, FS_Subset, CatalogAssumption

LEMMA ListIsOrdered ==
    ASSUME ShopTypeOK, NEW q, NEW S \in SUBSET Products
    PROVE  Orders(RowOrder("list", q), S)
<1>1. \A p \in S : p \in Int /\ MinPrice(p) \in Int /\ CreatedAt[p] \in Int
  BY PricesAreNumbers, CatalogAssumption
<1>2. \A a, b \in S : <<a, b>> \in RowOrder("list", q) <=> Before(a, b, q.sort)
  BY DEF RowOrder
<1>3. \A a \in S : ~Before(a, a, q.sort)
  BY <1>1 DEF Before
<1>4. \A a, b \in S : a # b => Before(a, b, q.sort) \/ Before(b, a, q.sort)
  BY <1>1 DEF Before
<1>5. \A a, b, c \in S : Before(a, b, q.sort) /\ Before(b, c, q.sort) => Before(a, c, q.sort)
  BY <1>1 DEF Before
<1> QED
  BY <1>2, <1>3, <1>4, <1>5 DEF Orders

LEMMA MineIsOrdered ==
    ASSUME NEW q, NEW S \in SUBSET Products, ~Tied(S)
    PROVE  Orders(RowOrder("mine", q), S)
<1>1. \A p \in S : CreatedAt[p] \in Int
  BY CatalogAssumption
<1>2. \A a, b \in S : <<a, b>> \in RowOrder("mine", q) <=> CreatedAt[a] > CreatedAt[b]
  BY DEF RowOrder
<1> QED
  BY <1>1, <1>2 DEF Orders, Tied

Place(kind, q, p) == Rank(RowOrder(kind, q), Members(kind, q), p)

\* A page of a listing without ties: the rows whose places it covers, once each.
PageOf(rows, kind, q, limit, offset) ==
    /\ Once(rows)
    /\ IdsOf(rows) \subseteq Members(kind, q)
    /\ \A p \in Members(kind, q) :
         p \in IdsOf(rows) <=> offset <= Place(kind, q, p) /\ Place(kind, q, p) < offset + limit

LEMMA ListPage ==
    ASSUME ShopTypeOK, NEW q, NEW limit \in Nat, NEW offset \in Nat, NEW rows, rows = ShortPage(q, limit, offset)
    PROVE  /\ IsRows(rows)
           /\ Len(rows) = Promise(limit, offset, Cardinality(Listed(q)))
           /\ PageOf(rows, "list", q, limit, offset)
<1>1. PICK S : S = Listed(q) /\ S = Members("list", q) /\ S \in SUBSET Products /\ IsFiniteSet(S)
  BY MembersAreProducts DEF Members
<1>2. PICK R : R = RowOrder("list", q) /\ Orders(R, S)
  BY <1>1, ListIsOrdered
<1>3. \A seq \in SetToSeqs(S) :
        Sorted(seq, R) <=> \A i, j \in DOMAIN seq : i < j => Before(seq[i], seq[j], q.sort)
  BY <1>1, <1>2 DEF Sorted, RowOrder, SetToSeqs
<1>4. PICK seq \in SetToSeqs(S) : seq = Ordered(S, q.sort) /\ Sorted(seq, R)
  BY <1>1, <1>2, <1>3, SortedExists, Zenon DEF Ordered
<1>5. PICK page : page = Page(seq, limit, offset)
  OBVIOUS
<1>6. page \in Seq(S) /\ Len(page) = Promise(limit, offset, Cardinality(S)) /\ IsInjective(page)
  BY <1>1, <1>5, PageLength
<1>7. \A p \in S : p \in ToSet(page) <=> offset <= Rank(R, S, p) /\ Rank(R, S, p) < offset + limit
  BY <1>1, <1>2, <1>4, <1>5, PageIsStretch
<1>8. rows = [i \in DOMAIN page |-> Short(page[i])]
  BY <1>1, <1>4, <1>5 DEF ShortPage
<1>9. rows = [i \in DOMAIN page |-> rows[i]] /\ \A i \in DOMAIN page : rows[i].id = page[i]
  BY <1>8 DEF Short
<1>10. IsRows(rows) /\ Len(rows) = Len(page) /\ Once(rows) /\ IdsOf(rows) = ToSet(page)
  BY <1>6, <1>9, RowsOfPage
<1>11. ToSet(page) \subseteq S
  BY <1>6 DEF ToSet
<1> QED
  BY <1>1, <1>2, <1>6, <1>7, <1>10, <1>11 DEF PageOf, Place

LEMMA MinePage ==
    ASSUME NEW q, NEW limit \in Nat, NEW offset \in Nat, NEW rows \in SellerPages(q, limit, offset)
    PROVE  /\ IsRows(rows)
           /\ Len(rows) = Promise(limit, offset, Cardinality(SellerListed(q)))
           /\ ~Tied(SellerListed(q)) => PageOf(rows, "mine", q, limit, offset)
<1>1. PICK S : S = SellerListed(q) /\ S = Members("mine", q) /\ S \in SUBSET Products /\ IsFiniteSet(S)
  BY MembersAreProducts DEF Members
<1>2. PICK R : R = RowOrder("mine", q)
  OBVIOUS
<1>3. PICK seq \in SetToSeqs(S) :
        /\ \A i, j \in DOMAIN seq : i < j => CreatedAt[seq[i]] >= CreatedAt[seq[j]]
        /\ rows = [i \in DOMAIN Page(seq, limit, offset) |-> SellerRow(Page(seq, limit, offset)[i])]
  BY <1>1 DEF SellerPages
<1>4. PICK page : page = Page(seq, limit, offset)
  OBVIOUS
<1>5. page \in Seq(S) /\ Len(page) = Promise(limit, offset, Cardinality(S)) /\ IsInjective(page)
  BY <1>1, <1>4, PageLength
<1>6. rows = [i \in DOMAIN page |-> rows[i]] /\ \A i \in DOMAIN page : rows[i].id = page[i]
  BY <1>3, <1>4 DEF SellerRow
<1>7. IsRows(rows) /\ Len(rows) = Len(page) /\ Once(rows) /\ IdsOf(rows) = ToSet(page)
  BY <1>5, <1>6, RowsOfPage
<1>8. ToSet(page) \subseteq S
  BY <1>5 DEF ToSet
<1>9. ASSUME ~Tied(S) PROVE PageOf(rows, "mine", q, limit, offset)
  <2>1. Orders(R, S)
    BY <1>1, <1>2, <1>9, MineIsOrdered
  <2>2. Sorted(seq, R)
    <3> SUFFICES ASSUME NEW i \in DOMAIN seq, NEW j \in DOMAIN seq, i < j PROVE <<seq[i], seq[j]>> \in R
      BY DEF Sorted
    <3>1. seq[i] \in S /\ seq[j] \in S /\ seq[i] # seq[j]
      BY DEF SetToSeqs
    <3>2. CreatedAt[seq[i]] # CreatedAt[seq[j]]
      BY <1>9, <3>1 DEF Tied
    <3>3. CreatedAt[seq[i]] \in Int /\ CreatedAt[seq[j]] \in Int /\ CreatedAt[seq[i]] >= CreatedAt[seq[j]]
      BY <1>1, <1>3, <3>1, CatalogAssumption
    <3>4. CreatedAt[seq[i]] > CreatedAt[seq[j]]
      BY <3>2, <3>3
    <3> QED
      BY <1>1, <1>2, <3>1, <3>4 DEF RowOrder
  <2>3. \A p \in S : p \in ToSet(page) <=> offset <= Rank(R, S, p) /\ Rank(R, S, p) < offset + limit
    BY <1>1, <1>4, <2>1, <2>2, PageIsStretch
  <2> QED
    BY <1>1, <1>2, <1>7, <1>8, <2>3 DEF PageOf, Place
<1> QED
  BY <1>1, <1>5, <1>7, <1>9

\* Two rows that stay and whose sort keys stay keep their order.
LEMMA OrderStays ==
    ASSUME NEW kind, NEW q, kind = "list" => "sort" \in DOMAIN q, NEW a, NEW b,
           SortKey(a, q)' = SortKey(a, q), SortKey(b, q)' = SortKey(b, q)
    PROVE  <<a, b>> \in RowOrder(kind, q)' <=> <<a, b>> \in RowOrder(kind, q)
<1>1. CASE kind = "list"
  <2>1. Before(a, b, q.sort)' <=> Before(a, b, q.sort)
    BY <1>1 DEF Before, SortKey
  <2> QED
    BY <1>1, <2>1 DEF RowOrder
<1>2. CASE kind # "list"
  BY <1>2 DEF RowOrder
<1> QED
  BY <1>1, <1>2

-----------------------------------------------------------------------------
(* A walk over the pages. *)

\* A walk that has read the rows up to the place base: unless one left, every
\* row it had all along was read or is still to come, and unless one came,
\* none was read twice and none that was read is still to come.
Walked(kind, q, base, rows) ==
    /\ IsRows(rows)
    /\ walk.stay \subseteq Members(kind, q)
    /\ walk.tied \/ ~Tied(Members(kind, q))
    /\ ~walk.left /\ ~(kind = "mine" /\ (walk.came \/ walk.tied)) =>
         \A p \in walk.stay : p \in IdsOf(rows) \/ base <= Place(kind, q, p)
    /\ ~walk.came /\ ~(kind = "mine" /\ walk.tied) =>
         Once(rows) /\ \A p \in IdsOf(rows) \cap Members(kind, q) : Place(kind, q, p) < base

SameWalk == walk'.stay = walk.stay /\ walk'.left = walk.left /\ walk'.came = walk.came /\ walk'.tied = walk.tied

LEMMA SameTablesSamePlaces ==
    ASSUME UNCHANGED shop, NEW kind, NEW q
    PROVE  Members(kind, q)' = Members(kind, q) /\ \A p : Place(kind, q, p)' = Place(kind, q, p)
<1>1. \A p : OnSale(p)' = OnSale(p)
  BY DEF shop, OnSale, SkusOf
<1>2. \A p : (Visible(p)' <=> Visible(p)) /\ (Passes(p, q)' <=> Passes(p, q))
  BY <1>1 DEF shop, Visible, Passes
<1>3. \A p : MinPrice(p)' = MinPrice(p)
  BY <1>1 DEF shop, MinPrice
<1>4. Listed(q)' = Listed(q)
  BY <1>2 DEF Listed
<1>5. SellerListed(q)' = SellerListed(q)
  BY DEF SellerListed, shop
<1>6. Members(kind, q)' = Members(kind, q)
  BY <1>4, <1>5 DEF Members
<1>7. \A a, b : Before(a, b, q.sort)' <=> Before(a, b, q.sort)
  BY <1>3 DEF Before
<1>8. RowOrder(kind, q)' = RowOrder(kind, q)
  BY <1>7 DEF RowOrder
<1> QED
  BY <1>6, <1>8 DEF Place

LEMMA PlaceIsNatural ==
    ASSUME NEW kind, NEW q, NEW p
    PROVE  Place(kind, q, p) \in Nat
BY MembersAreProducts, RankType DEF Place

LEMMA WalkStandsStill ==
    ASSUME UNCHANGED shop, SameWalk, NEW kind, NEW q, NEW base, NEW rows, Walked(kind, q, base, rows)
    PROVE  Walked(kind, q, base, rows)'
<1>1. Members(kind, q)' = Members(kind, q) /\ \A p : Place(kind, q, p)' = Place(kind, q, p)
  BY SameTablesSamePlaces
<1>2. Tied(Members(kind, q))' <=> Tied(Members(kind, q))
  BY <1>1 DEF Tied
<1> QED
  BY <1>1, <1>2 DEF SameWalk, Walked

LEMMA WalkStarts ==
    ASSUME NEW kind, NEW q, StartWalk(kind, q), UNCHANGED shop
    PROVE  Walked(kind, q, 0, << >>)' /\ walk'.shown = << >>
<1>1. /\ walk'.stay = Members(kind, q) /\ ~walk'.left /\ ~walk'.came
      /\ walk'.tied = Tied(Members(kind, q)) /\ walk'.shown = << >>
  BY WalkBegins
<1>2. Members(kind, q)' = Members(kind, q)
  BY SameTablesSamePlaces
<1>3. Tied(Members(kind, q))' <=> Tied(Members(kind, q))
  BY <1>2 DEF Tied
<1>4. IsRows(<< >>) /\ Once(<< >>) /\ IdsOf(<< >>) = {}
  BY DEF IsRows, Once, IdsOf
<1>5. \A p : 0 <= Place(kind, q, p)'
  <2>1. \A p : Place(kind, q, p)' = Place(kind, q, p) /\ Place(kind, q, p) \in Nat
    BY SameTablesSamePlaces, PlaceIsNatural
  <2> QED
    BY <2>1
<1> QED
  BY <1>1, <1>2, <1>3, <1>4, <1>5 DEF Walked

\* The next page takes the walk from its offset to its offset and limit.
LEMMA PageIsRead ==
    ASSUME UNCHANGED shop, SameWalk, WalkShape, NEW kind, NEW q, NEW offset \in Nat, NEW limit \in Nat, NEW rows, NEW page,
           Walked(kind, q, offset, rows), IsRows(page),
           (kind = "mine" /\ walk.tied) \/ PageOf(page, kind, q, limit, offset)
    PROVE  Walked(kind, q, offset + limit, rows \o page)'
<1>1. /\ IsRows(rows \o page) /\ IdsOf(rows \o page) = IdsOf(rows) \cup IdsOf(page)
      /\ Once(rows) /\ Once(page) /\ IdsOf(rows) \cap IdsOf(page) = {} => Once(rows \o page)
  BY RowsJoin DEF Walked
<1>2. PICK all : all = rows \o page
  OBVIOUS
<1>3. \A p : Place(kind, q, p) \in Nat
  BY PlaceIsNatural
<1>4. ASSUME ~walk.left, ~(kind = "mine" /\ (walk.came \/ walk.tied)), NEW p \in walk.stay
      PROVE  p \in IdsOf(all) \/ offset + limit <= Place(kind, q, p)
  <2>1. p \in Members(kind, q) /\ (p \in IdsOf(rows) \/ offset <= Place(kind, q, p))
    BY <1>4 DEF Walked
  <2>2. p \in IdsOf(page) <=> offset <= Place(kind, q, p) /\ Place(kind, q, p) < offset + limit
    BY <1>4, <2>1 DEF PageOf
  <2> QED
    BY <1>1, <1>2, <1>3, <2>1, <2>2
<1>5. ASSUME ~walk.came, ~(kind = "mine" /\ walk.tied)
      PROVE  Once(all) /\ \A p \in IdsOf(all) \cap Members(kind, q) : Place(kind, q, p) < offset + limit
  <2>1. Once(rows) /\ \A p \in IdsOf(rows) \cap Members(kind, q) : Place(kind, q, p) < offset
    BY <1>5 DEF Walked
  <2>2. /\ Once(page) /\ IdsOf(page) \subseteq Members(kind, q)
        /\ \A p \in IdsOf(page) : offset <= Place(kind, q, p) /\ Place(kind, q, p) < offset + limit
    BY <1>5 DEF PageOf
  <2>3. IdsOf(rows) \cap IdsOf(page) = {}
    BY <1>3, <2>1, <2>2
  <2>4. \A p \in IdsOf(rows) \cap Members(kind, q) : Place(kind, q, p) < offset + limit
    BY <1>3, <2>1
  <2> QED
    BY <1>1, <1>2, <2>1, <2>2, <2>3, <2>4
<1>6. Walked(kind, q, offset + limit, all)
  BY <1>1, <1>2, <1>4, <1>5 DEF Walked
<1>7. Walked(kind, q, offset + limit, all)'
  BY <1>6, WalkStandsStill
<1> QED
  BY <1>2, <1>7

\* A change moves places, and the walk writes down why.
LEMMA WalkIsKept ==
    ASSUME ShopTypeOK, WalkShape, NEW kind, NEW q, kind = "list" => "sort" \in DOMAIN q,
           NEW base \in Nat, NEW rows, Walked(kind, q, base, rows), Record(kind, q)
    PROVE  /\ Walked(kind, q, base, rows)' /\ walk'.shown = walk.shown
           /\ ~walk'.left /\ ~walk'.came =>
                ~walk.left /\ ~walk.came /\ Members(kind, q)' = Members(kind, q)
<1>1. PICK old : old = Members(kind, q) /\ old \in SUBSET Products /\ IsFiniteSet(old)
  BY MembersAreProducts
<1>2. PICK new : new = Members(kind, q)' /\ new \in SUBSET Products /\ IsFiniteSet(new)
  <2>1. Members(kind, q)' \in SUBSET Products
    BY DEF Members, Listed, SellerListed
  <2> QED
    BY <2>1, FS_Subset, CatalogAssumption
<1>3. PICK moved \in BOOLEAN : moved = \E p \in old \cap new : SortKey(p, q) # SortKey(p, q)'
  OBVIOUS
<1>4. PICK tied \in BOOLEAN : tied = Tied(new)
  BY DEF Tied
<1>5. walk' = [walk EXCEPT !.stay = @ \cap new,
                           !.left = @ \/ moved \/ ~(old \subseteq new),
                           !.came = @ \/ moved \/ ~(new \subseteq old),
                           !.tied = @ \/ tied]
  BY <1>1, <1>2, <1>3, <1>4, Zenon DEF Record
<1>6. /\ walk'.stay = walk.stay \cap new /\ walk'.shown = walk.shown
      /\ walk'.left <=> walk.left \/ moved \/ ~(old \subseteq new)
      /\ walk'.came <=> walk.came \/ moved \/ ~(new \subseteq old)
      /\ walk'.tied <=> walk.tied \/ tied
  BY <1>5 DEF WalkShape
<1>7. ASSUME ~moved, NEW a \in old \cap new, NEW b \in old \cap new
      PROVE  <<a, b>> \in RowOrder(kind, q)' <=> <<a, b>> \in RowOrder(kind, q)
  BY <1>3, <1>7, OrderStays
<1>8. PICK R, Q : R = RowOrder(kind, q) /\ Q = RowOrder(kind, q)'
  OBVIOUS
<1>9. \A p : Place(kind, q, p) = Rank(R, old, p) /\ Place(kind, q, p)' = Rank(Q, new, p)
  BY <1>1, <1>2, <1>8 DEF Place
<1>10. \A p : Rank(R, old, p) \in Nat /\ Rank(Q, new, p) \in Nat
  BY <1>1, <1>2, RankType
<1>11. ASSUME ~moved, old \subseteq new, NEW p \in old PROVE Rank(R, old, p) <= Rank(Q, new, p)
  <2>1. \A r \in old : <<r, p>> \in R => <<r, p>> \in Q
    BY <1>7, <1>8, <1>11
  <2> QED
    BY <1>2, <1>11, <2>1, RankGrows
<1>12. ASSUME ~moved, new \subseteq old, NEW p \in new PROVE Rank(Q, new, p) <= Rank(R, old, p)
  <2>1. \A r \in new : <<r, p>> \in Q => <<r, p>> \in R
    BY <1>7, <1>8, <1>12
  <2> QED
    BY <1>1, <1>12, <2>1, RankGrows
<1>13. IsRows(rows) /\ walk'.stay \subseteq new /\ (walk'.tied \/ ~Tied(new))
  BY <1>4, <1>6 DEF Walked
<1>14. ASSUME ~walk'.left, ~(kind = "mine" /\ (walk'.came \/ walk'.tied)), NEW p \in walk'.stay
       PROVE  p \in IdsOf(rows) \/ base <= Rank(Q, new, p)
  <2>1. ~walk.left /\ ~moved /\ old \subseteq new /\ ~(kind = "mine" /\ (walk.came \/ walk.tied))
    BY <1>6, <1>14
  <2>2. p \in old /\ (p \in IdsOf(rows) \/ base <= Rank(R, old, p))
    BY <1>1, <1>6, <1>9, <1>14, <2>1 DEF Walked
  <2>3. Rank(R, old, p) <= Rank(Q, new, p)
    BY <1>11, <2>1, <2>2
  <2> QED
    BY <1>10, <2>2, <2>3
<1>15. ASSUME ~walk'.came, ~(kind = "mine" /\ walk'.tied)
       PROVE  Once(rows) /\ \A p \in IdsOf(rows) \cap new : Rank(Q, new, p) < base
  <2>1. ~walk.came /\ ~moved /\ new \subseteq old /\ ~(kind = "mine" /\ walk.tied)
    BY <1>6, <1>15
  <2>2. Once(rows) /\ \A p \in IdsOf(rows) \cap old : Rank(R, old, p) < base
    BY <1>1, <1>9, <2>1 DEF Walked
  <2>3. ASSUME NEW p \in IdsOf(rows) \cap new PROVE Rank(Q, new, p) < base
    <3>1. Rank(Q, new, p) <= Rank(R, old, p) /\ Rank(R, old, p) < base
      BY <1>12, <2>1, <2>2, <2>3
    <3> QED
      BY <1>10, <3>1
  <2> QED
    BY <2>2, <2>3
<1>16. Walked(kind, q, base, rows)'
  BY <1>2, <1>9, <1>13, <1>14, <1>15 DEF Walked
<1>17. ~walk'.left /\ ~walk'.came => ~walk.left /\ ~walk.came /\ new = old
  BY <1>6
<1> QED
  BY <1>1, <1>2, <1>6, <1>16, <1>17

-----------------------------------------------------------------------------
(* What the pages miss or repeat. *)

\* A listing being read, or a page of it answered.
Walking == Listing /\ (req.stage \in {"first", "second"} \/ Answered("list") \/ Answered("mine"))

\* The rows read and the place they were read up to.
SeenRows == IF At("list", "second") THEN walk.shown \o req.read ELSE walk.shown

Base == IF req.stage = "first" \/ At("mine", "second") THEN req.arg.offset ELSE req.arg.offset + req.arg.limit

QuestionInv ==
    /\ req.arg = [q |-> req.arg.q, limit |-> req.arg.limit, offset |-> req.arg.offset]
    /\ req.arg.limit \in Nat \ {0} /\ req.arg.offset \in Nat
    /\ req.kind = "list" => "sort" \in DOMAIN req.arg.q

Settled == ~walk.left /\ ~walk.came

\* What the statements read so far say of the number of rows.
TotalInv ==
    LET size == Cardinality(Members(req.kind, req.arg.q))
        Full(rows, total) == Len(rows) = Promise(req.arg.limit, req.arg.offset, total)
    IN  /\ At("list", "second") => IsRows(req.read) /\ IsRows(walk.shown) /\ (~req.raced => Full(req.read, size))
        /\ At("mine", "second") => req.read \in Nat /\ (~req.raced \/ Settled => req.read = size)
        /\ req.stage = "done" =>
            /\ req.answer.total \in Nat
            /\ ~req.raced => Full(req.answer.items, req.answer.total)
            /\ ~HasNextPage /\ (req.kind = "list" \/ Settled) => req.answer.total = size

PagesInv ==
    Walking => QuestionInv /\ Walked(req.kind, req.arg.q, Base, SeenRows) /\ TotalInv

LEMMA ClampIsPositive ==
    ASSUME NEW limit \in Limits
    PROVE  limit \in Nat \ {0} /\ Clamp(limit, PageCap) \in Nat \ {0}
<1>1. limit \in Nat \ {0} /\ PageCap \in Nat \ {0}
  BY StorefrontAssumption
<1>2. PICK least \in Nat \ {0} : least = Min({limit, PageCap})
  BY <1>1, LesserOf
<1>3. Clamp(limit, PageCap) = Max({1, least})
  BY <1>2 DEF Clamp
<1> QED
  BY <1>1, <1>2, <1>3, GreaterOf

\* Every first statement of a walk.
LEMMA FirstPage ==
    ASSUME NEW kind \in {"list", "mine"}, NEW q, kind = "list" => "sort" \in DOMAIN q,
           NEW limit \in Nat \ {0}, RequestShape,
           Ask(kind, [q |-> q, limit |-> limit, offset |-> 0]), StartWalk(kind, q), UNCHANGED shop
    PROVE  PagesInv'
<1>1. Becomes(kind, [q |-> q, limit |-> limit, offset |-> 0], "first", None, FALSE, None)
  BY RequestMoves
<1>2. Walked(kind, q, 0, << >>)' /\ walk'.shown = << >>
  BY WalkStarts
<1>3. req'.kind = kind /\ req'.arg.q = q /\ Base' = 0 /\ SeenRows' = << >>
  BY <1>1, <1>2 DEF Becomes, Base, SeenRows, At
<1>4. Walked(req.kind, req.arg.q, Base, SeenRows)'
  BY <1>2, <1>3, Zenon DEF Walked
<1>5. QuestionInv'
  BY <1>1 DEF Becomes, QuestionInv
<1>6. TotalInv'
  BY <1>1 DEF Becomes, TotalInv, At
<1> QED
  BY <1>4, <1>5, <1>6 DEF PagesInv

LEMMA PagesBegin ==
    ASSUME RequestShape, AskList \/ AskMine
    PROVE  PagesInv'
<1>1. CASE AskList
  <2>1. PICK filter \in BuyerFilters, sort \in Sorts, search \in Searches, limit \in Limits :
          IF SortIsValid(sort) /\ SearchIsValid(search)
          THEN LET q == B2BQuery(filter, sort, search)
               IN  /\ Ask("list", [q |-> q, limit |-> Clamp(limit, PageCap), offset |-> 0])
                   /\ StartWalk("list", q)
          ELSE AskAndAnswer("list", None, Error("InvalidRequest")) /\ UNCHANGED walk
    BY <1>1 DEF AskList
  <2>2. UNCHANGED shop
    BY <1>1 DEF AskList
  <2>3. CASE SortIsValid(sort) /\ SearchIsValid(search)
    <3>1. PICK q : q = B2BQuery(filter, sort, search)
      OBVIOUS
    <3>2. Ask("list", [q |-> q, limit |-> Clamp(limit, PageCap), offset |-> 0]) /\ StartWalk("list", q)
      BY <2>1, <2>3, <3>1
    <3>3. "sort" \in DOMAIN q
      BY <3>1 DEF B2BQuery
    <3>4. PICK size \in Nat \ {0} : size = Clamp(limit, PageCap)
      BY ClampIsPositive
    <3> QED
      BY <2>2, <3>2, <3>3, <3>4, FirstPage
  <2>4. CASE ~(SortIsValid(sort) /\ SearchIsValid(search))
    <3>1. Becomes("list", None, "done", None, FALSE, Error("InvalidRequest"))
      BY <2>1, <2>4, RequestMoves
    <3> QED
      BY <3>1 DEF Becomes, PagesInv, Walking, Answered, At, Error
  <2> QED
    BY <2>3, <2>4
<1>2. CASE AskMine
  <2>1. PICK seller \in Sellers, state \in {None, "MODERATED", "ON_MODERATION"}, all \in BOOLEAN,
             search \in {None} \cup DOMAIN Titled, limit \in Limits :
          LET q == [seller |-> seller, status |-> state, deleted |-> all, search |-> search]
          IN  /\ Ask("mine", [q |-> q, limit |-> limit, offset |-> 0])
              /\ StartWalk("mine", q)
              /\ UNCHANGED shop
    BY <1>2, Zenon DEF AskMine
  <2>2. PICK q : Ask("mine", [q |-> q, limit |-> limit, offset |-> 0]) /\ StartWalk("mine", q) /\ UNCHANGED shop
    BY <2>1, Zenon
  <2>3. limit \in Nat \ {0}
    BY ClampIsPositive
  <2> QED
    BY <2>2, <2>3, FirstPage
<1> QED
  BY <1>1, <1>2

LEMMA RowsAreRead ==
    ASSUME ShopTypeOK, Shape, PagesInv, ReadRows
    PROVE  PagesInv'
<1> DEFINE q == req.arg.q
           limit == req.arg.limit
           offset == req.arg.offset
<1>1. Walking /\ req.kind = "list" /\ req.stage = "first"
  BY DEF ReadRows, At, Walking, Listing
<1>2. /\ QuestionInv /\ limit \in Nat \ {0} /\ offset \in Nat
      /\ Walked("list", q, offset, walk.shown)
  BY <1>1 DEF PagesInv, QuestionInv, Base, SeenRows, At
<1>3. PICK page : page = ShortPage(q, limit, offset) /\ Read(page) /\ UNCHANGED <<shop, walk>>
  BY DEF ReadRows, Still
<1>4. Becomes("list", req.arg, "second", page, req.raced, req.answer)
  BY <1>1, <1>3, RequestMoves DEF Shape
<1>5. /\ IsRows(page) /\ Len(page) = Promise(limit, offset, Cardinality(Listed(q)))
      /\ PageOf(page, "list", q, limit, offset)
  BY <1>2, <1>3, ListPage
<1>6. PICK k, n, m, rows : k = q /\ n = limit /\ m = offset /\ rows = walk.shown
  OBVIOUS
<1>7. Walked("list", k, m + n, rows \o page)'
  <2>1. SameWalk
    BY <1>3 DEF SameWalk
  <2>2. n \in Nat /\ m \in Nat /\ Walked("list", k, m, rows) /\ PageOf(page, "list", k, n, m)
    BY <1>2, <1>5, <1>6
  <2> QED
    BY <1>3, <1>5, <2>1, <2>2, PageIsRead DEF Shape
<1>8. /\ req'.kind = "list" /\ req'.arg.q = k /\ Base' = m + n /\ SeenRows' = rows \o page
  BY <1>3, <1>4, <1>6 DEF Becomes, Base, SeenRows, At
<1>9. Walked(req.kind, req.arg.q, Base, SeenRows)'
  BY <1>7, <1>8, Zenon DEF Walked
<1>10. QuestionInv'
  BY <1>1, <1>2, <1>4 DEF Becomes, QuestionInv
<1>11. TotalInv'
  <2>1. Members("list", k)' = Members("list", k)
    BY <1>3, SameTablesSamePlaces
  <2>2. Members("list", k) = Listed(k) /\ IsRows(walk.shown)
    BY <1>2 DEF Members, Walked
  <2> QED
    BY <1>3, <1>4, <1>5, <1>6, <1>8, <2>1, <2>2 DEF Becomes, TotalInv, At
<1> QED
  BY <1>9, <1>10, <1>11 DEF PagesInv

LEMMA RowsAreCounted ==
    ASSUME Shape, PagesInv, CountRows
    PROVE  PagesInv'
<1>1. Walking /\ req.kind = "list" /\ req.stage = "second" /\ At("list", "second") /\ ~At("mine", "second")
  BY DEF CountRows, At, Walking, Listing
<1>2. PICK q, n, m, read, shown :
        /\ q = req.arg.q /\ n = req.arg.limit /\ m = req.arg.offset /\ read = req.read /\ shown = walk.shown
  OBVIOUS
<1>3. QuestionInv /\ n \in Nat \ {0} /\ m \in Nat /\ Walked("list", q, m + n, shown \o read)
  BY <1>1, <1>2 DEF PagesInv, QuestionInv, Base, SeenRows, At
<1>4. ~req.raced => Len(read) = Promise(n, m, Cardinality(Listed(q)))
  BY <1>1, <1>2 DEF PagesInv, TotalInv, Members
<1>5. PICK answer : answer = [items |-> read, total |-> Cardinality(Listed(q))] /\ Answer(answer)
  BY <1>2 DEF CountRows, TotalCount
<1>6. walk' = [walk EXCEPT !.shown = shown \o read] /\ UNCHANGED shop
  BY <1>2 DEF CountRows
<1>7. Becomes("list", req.arg, "done", None, req.raced, answer)
  BY <1>1, <1>5, RequestMoves DEF Shape
<1>8. SameWalk /\ walk'.shown = shown \o read
  BY <1>6 DEF SameWalk, Shape, WalkShape
<1>9. Walked("list", q, m + n, shown \o read)'
  BY <1>3, <1>6, <1>8, WalkStandsStill
<1>10. req'.kind = "list" /\ req'.arg.q = q /\ Base' = m + n /\ SeenRows' = shown \o read
  BY <1>2, <1>7, <1>8 DEF Becomes, Base, SeenRows, At
<1>11. Walked(req.kind, req.arg.q, Base, SeenRows)'
  BY <1>9, <1>10, Zenon DEF Walked
<1>12. QuestionInv'
  BY <1>1, <1>3, <1>7 DEF Becomes, QuestionInv
<1>13. TotalInv'
  <2>1. Members("list", q)' = Listed(q)
    BY <1>6, SameTablesSamePlaces DEF Members
  <2>2. Cardinality(Listed(q)) \in Nat
    BY MembersAreProducts, FS_CardinalityType DEF Members
  <2> QED
    BY <1>2, <1>4, <1>5, <1>7, <1>10, <2>1, <2>2 DEF Becomes, TotalInv, At
<1> QED
  BY <1>11, <1>12, <1>13 DEF PagesInv

LEMMA MineIsCounted ==
    ASSUME Shape, PagesInv, CountMine
    PROVE  PagesInv'
<1>1. Walking /\ req.kind = "mine" /\ req.stage = "first"
  BY DEF CountMine, At, Walking, Listing
<1>2. PICK q, m, shown : q = req.arg.q /\ m = req.arg.offset /\ shown = walk.shown
  OBVIOUS
<1>3. QuestionInv /\ Walked("mine", q, m, shown)
  BY <1>1, <1>2 DEF PagesInv, Base, SeenRows, At
<1>4. PICK size : size = Cardinality(SellerListed(q)) /\ Read(size) /\ UNCHANGED <<shop, walk>>
  BY <1>2 DEF CountMine, Still
<1>5. Becomes("mine", req.arg, "second", size, req.raced, req.answer)
  BY <1>1, <1>4, RequestMoves DEF Shape
<1>6. Walked("mine", q, m, shown)'
  BY <1>3, <1>4, WalkStandsStill DEF SameWalk
<1>7. req'.kind = "mine" /\ req'.arg.q = q /\ Base' = m /\ SeenRows' = shown
  BY <1>2, <1>4, <1>5 DEF Becomes, Base, SeenRows, At
<1>8. Walked(req.kind, req.arg.q, Base, SeenRows)'
  BY <1>6, <1>7, Zenon DEF Walked
<1>9. QuestionInv'
  BY <1>1, <1>3, <1>5 DEF Becomes, QuestionInv
<1>10. TotalInv'
  <2>1. Members("mine", q)' = SellerListed(q)
    BY <1>4, SameTablesSamePlaces DEF Members
  <2>2. size \in Nat
    <3>1. IsFiniteSet(Members("mine", q)) /\ Members("mine", q) = SellerListed(q)
      BY MembersAreProducts DEF Members
    <3> QED
      BY <1>4, <3>1, FS_CardinalityType
  <2> QED
    BY <1>4, <1>5, <1>7, <2>1, <2>2 DEF Becomes, TotalInv, At
<1> QED
  BY <1>8, <1>9, <1>10 DEF PagesInv

LEMMA MineIsRead ==
    ASSUME Shape, PagesInv, ReadMine
    PROVE  PagesInv'
<1>1. Walking /\ req.kind = "mine" /\ req.stage = "second" /\ At("mine", "second") /\ ~At("list", "second")
  BY DEF ReadMine, At, Walking, Listing
<1>2. PICK q, n, m, total, shown :
        /\ q = req.arg.q /\ n = req.arg.limit /\ m = req.arg.offset /\ total = req.read /\ shown = walk.shown
  OBVIOUS
<1>3. QuestionInv /\ n \in Nat \ {0} /\ m \in Nat /\ Walked("mine", q, m, shown)
  BY <1>1, <1>2 DEF PagesInv, QuestionInv, Base, SeenRows
<1>4. total \in Nat /\ (~req.raced \/ Settled => total = Cardinality(SellerListed(q)))
  BY <1>1, <1>2 DEF PagesInv, TotalInv, Members
<1>5. PICK page \in SellerPages(q, n, m) :
        Answer([items |-> page, total |-> total]) /\ walk' = [walk EXCEPT !.shown = shown \o page]
  BY <1>2 DEF ReadMine
<1>6. Becomes("mine", req.arg, "done", None, req.raced, [items |-> page, total |-> total]) /\ UNCHANGED shop
  BY <1>1, <1>5, RequestMoves DEF Shape, ReadMine
<1>7. SameWalk /\ walk'.shown = shown \o page
  BY <1>5 DEF SameWalk, Shape, WalkShape
<1>8. /\ IsRows(page) /\ Len(page) = Promise(n, m, Cardinality(SellerListed(q)))
      /\ ~Tied(SellerListed(q)) => PageOf(page, "mine", q, n, m)
  BY <1>3, MinePage
<1>9. walk.tied \/ PageOf(page, "mine", q, n, m)
  BY <1>3, <1>8 DEF Walked, Members
<1>10. Walked("mine", q, m + n, shown \o page)'
  BY <1>3, <1>6, <1>7, <1>8, <1>9, PageIsRead DEF Shape
<1>11. req'.kind = "mine" /\ req'.arg.q = q /\ Base' = m + n /\ SeenRows' = shown \o page
  BY <1>2, <1>6, <1>7 DEF Becomes, Base, SeenRows, At
<1>12. Walked(req.kind, req.arg.q, Base, SeenRows)'
  BY <1>10, <1>11, Zenon DEF Walked
<1>13. QuestionInv'
  BY <1>1, <1>3, <1>6 DEF Becomes, QuestionInv
<1>14. TotalInv'
  <2>1. Members("mine", q)' = SellerListed(q)
    BY <1>6, SameTablesSamePlaces DEF Members
  <2>2. Settled' <=> Settled
    BY <1>7 DEF Settled, SameWalk
  <2> QED
    BY <1>2, <1>4, <1>6, <1>8, <1>11, <2>1, <2>2 DEF Becomes, TotalInv, At
<1> QED
  BY <1>12, <1>13, <1>14 DEF PagesInv

LEMMA PageIsTurned ==
    ASSUME Shape, PagesInv, NextPage
    PROVE  PagesInv'
<1>1. Walking /\ Listing /\ req.stage = "done"
  BY DEF NextPage, HasNextPage, Answered, At, Walking, Listing
<1>2. PICK kind, q, n, m, shown :
        /\ kind = req.kind /\ q = req.arg.q /\ n = req.arg.limit /\ m = req.arg.offset /\ shown = walk.shown
  OBVIOUS
<1>3. QuestionInv /\ n \in Nat \ {0} /\ m \in Nat /\ Walked(kind, q, m + n, shown)
  BY <1>1, <1>2 DEF PagesInv, QuestionInv, Base, SeenRows, At
<1>4. UNCHANGED <<shop, walk>>
  BY DEF NextPage, Still
<1>5. req' = [req EXCEPT !.stage = "first", !.arg.offset = m + n, !.raced = FALSE, !.answer = None]
  BY <1>2 DEF NextPage
<1>6. /\ req'.kind = kind /\ req'.stage = "first"
      /\ req'.arg = [req.arg EXCEPT !.offset = m + n]
  BY <1>2, <1>5 DEF Shape, RequestShape
<1>7. req'.arg = [q |-> q, limit |-> n, offset |-> m + n]
  BY <1>2, <1>3, <1>6 DEF QuestionInv
<1>8. Walked(kind, q, m + n, shown)'
  BY <1>3, <1>4, WalkStandsStill DEF SameWalk
<1>9. req'.arg.q = q /\ Base' = m + n /\ SeenRows' = shown
  BY <1>2, <1>4, <1>6, <1>7 DEF Base, SeenRows, At
<1>10. Walked(req.kind, req.arg.q, Base, SeenRows)'
  BY <1>6, <1>8, <1>9, Zenon DEF Walked
<1>11. QuestionInv'
  BY <1>2, <1>3, <1>6, <1>7 DEF QuestionInv
<1>12. TotalInv'
  BY <1>6 DEF TotalInv, At
<1> QED
  BY <1>10, <1>11, <1>12 DEF PagesInv

LEMMA PagesAreDisturbed ==
    ASSUME ShopTypeOK, Shape, PagesInv, ShopChanges, Listing
    PROVE  PagesInv'
<1>1. PICK kind, q, base, rows : kind = req.kind /\ q = req.arg.q /\ base = Base /\ rows = SeenRows
  OBVIOUS
<1>2. Becomes(kind, req.arg, req.stage, req.read, req.raced \/ req.stage = "second", req.answer) /\ Between
  BY <1>1, ChangeMoves DEF Shape
<1>3. Record(kind, q)
  BY <1>1 DEF ShopChanges
<1>4. Walking' <=> Walking
  BY <1>1, <1>2 DEF Becomes, Walking, Listing, Answered, At
<1>5. SUFFICES ASSUME Walking PROVE (QuestionInv /\ Walked(req.kind, req.arg.q, Base, SeenRows) /\ TotalInv)'
  BY <1>4 DEF PagesInv
<1>6. QuestionInv /\ Walked(kind, q, base, rows) /\ TotalInv
  BY <1>1, <1>5 DEF PagesInv
<1>7. QuestionInv'
  BY <1>1, <1>2, <1>6 DEF Becomes, QuestionInv
<1>8. base \in Nat
  BY <1>1, <1>6 DEF QuestionInv, Base
<1>9. /\ Walked(kind, q, base, rows)' /\ walk'.shown = walk.shown
      /\ ~walk'.left /\ ~walk'.came => ~walk.left /\ ~walk.came /\ Members(kind, q)' = Members(kind, q)
  BY <1>1, <1>3, <1>6, <1>8, WalkIsKept DEF Shape, QuestionInv
<1>10. req'.kind = kind /\ req'.arg.q = q /\ Base' = base /\ SeenRows' = rows
  BY <1>1, <1>2, <1>9 DEF Becomes, Base, SeenRows, At
<1>11. Walked(req.kind, req.arg.q, Base, SeenRows)'
  BY <1>9, <1>10, Zenon DEF Walked
<1>12. CASE req.stage = "done"
  <2>1. HasNextPage
    BY <1>2, <1>12 DEF Between
  <2>2. HasNextPage'
    BY <1>1, <1>2, <2>1 DEF Becomes, HasNextPage, Answered, At
  <2> QED
    BY <1>1, <1>2, <1>6, <1>7, <1>11, <1>12, <2>2 DEF Becomes, TotalInv, At
<1>13. CASE At("list", "second")
  BY <1>1, <1>2, <1>6, <1>7, <1>9, <1>11, <1>13 DEF Becomes, TotalInv, At
<1>14. CASE At("mine", "second")
  <2>1. Settled' => Settled /\ Members(kind, q)' = Members(kind, q)
    BY <1>9 DEF Settled
  <2>2. TotalInv'
    BY <1>1, <1>2, <1>6, <1>10, <1>14, <2>1 DEF Becomes, TotalInv, At
  <2> QED
    BY <1>7, <1>11, <2>2
<1>15. CASE req.stage = "first"
  BY <1>2, <1>7, <1>11, <1>15 DEF Becomes, TotalInv, At
<1> QED
  BY <1>5, <1>12, <1>13, <1>14, <1>15 DEF Walking, Listing, At, Answered

LEMMA PagesInvStays ==
    ASSUME ShopTypeOK, Shape, PagesInv, [Next]_vars
    PROVE  PagesInv'
<1>1. CASE AskList \/ AskMine
  BY <1>1, PagesBegin DEF Shape
<1>2. CASE ReadRows \/ CountRows \/ CountMine \/ ReadMine \/ NextPage
  BY <1>2, RowsAreRead, RowsAreCounted, MineIsCounted, MineIsRead, PageIsTurned
<1>3. CASE B2BFails
  BY <1>3, FailuresAnswerNothing DEF PagesInv, Walking, Shape
<1>4. CASE ShopChanges /\ Listing
  BY <1>4, PagesAreDisturbed
<1>5. CASE req'.kind \notin {"list", "mine"}
  BY <1>5 DEF PagesInv, Walking, Listing
<1>6. CASE UNCHANGED vars
  <2>1. PICK kind, q, base, rows : kind = req.kind /\ q = req.arg.q /\ base = Base /\ rows = SeenRows
    OBVIOUS
  <2>2. UNCHANGED <<shop, req, walk>>
    BY <1>6 DEF vars
  <2>3. Walking' <=> Walking
    BY <2>2 DEF Walking, Listing, Answered, At
  <2>4. SUFFICES ASSUME Walking PROVE (QuestionInv /\ Walked(req.kind, req.arg.q, Base, SeenRows) /\ TotalInv)'
    BY <2>3 DEF PagesInv
  <2>5. QuestionInv /\ Walked(kind, q, base, rows) /\ TotalInv
    BY <2>1, <2>4 DEF PagesInv
  <2>6. Walked(kind, q, base, rows)'
    BY <2>2, <2>5, WalkStandsStill DEF SameWalk
  <2>7. req'.kind = kind /\ req'.arg.q = q /\ Base' = base /\ SeenRows' = rows
    BY <2>1, <2>2 DEF Base, SeenRows, At
  <2>8. Walked(req.kind, req.arg.q, Base, SeenRows)'
    BY <2>6, <2>7, Zenon DEF Walked
  <2>9. Members(kind, q)' = Members(kind, q)
    BY <2>2, SameTablesSamePlaces
  <2>10. QuestionInv' /\ TotalInv'
    BY <2>1, <2>2, <2>5, <2>9 DEF QuestionInv, TotalInv, Settled, HasNextPage, Answered, At
  <2> QED
    BY <2>8, <2>10
<1> QED
  BY <1>1, <1>2, <1>3, <1>4, <1>5, <1>6, KindsKeepToTheirSteps DEF OnlyItsOwn, ListSteps, MineSteps, Listing

LEMMA PagesInvExplains ==
    ASSUME ShopTypeOK, RequestShape, PagesInv
    PROVE  PagesAreExplained
<1> SUFFICES ASSUME WalkIsOver PROVE PagesAreExplained
  BY DEF PagesAreExplained
<1>1. PICK kind, q, n, m : kind = req.kind /\ q = req.arg.q /\ n = req.arg.limit /\ m = req.arg.offset
  OBVIOUS
<1>2. Walking /\ req.stage = "done" /\ ~HasNextPage /\ (Answered("list") \/ Answered("mine"))
  BY DEF WalkIsOver, Walking, Listing, Answered, At
<1>3. QuestionInv /\ Walked(kind, q, m + n, walk.shown) /\ TotalInv
  BY <1>1, <1>2 DEF PagesInv, Base, SeenRows, At
<1>4. n \in Nat /\ m \in Nat /\ kind \in {"list", "mine"}
  BY <1>1, <1>2, <1>3 DEF QuestionInv, Walking, Listing
<1>5. PICK S : S = Members(kind, q) /\ IsFiniteSet(S) /\ S \in SUBSET Products
  BY MembersAreProducts
<1>6. PICK total \in Nat : total = req.answer.total /\ total <= m + n
  <2>1. req.answer.total \in Nat
    BY <1>2, <1>3 DEF TotalInv
  <2>2. ~(m + n < req.answer.total)
    BY <1>1, <1>2 DEF HasNextPage
  <2> QED
    BY <1>4, <2>1, <2>2
<1>7. /\ kind = "list" \/ Settled => total = Cardinality(S)
      /\ ~req.raced => Len(req.answer.items) = Max({0, Min({n, total - m})})
  BY <1>1, <1>2, <1>3, <1>5, <1>6 DEF TotalInv, Promise
<1>8. ToSet(ShownIds) = IdsOf(walk.shown) /\ (IsInjective(ShownIds) <=> Once(walk.shown))
  BY DEF ToSet, ShownIds, IdsOf, IsInjective, Once
<1>9. ASSUME ~walk.left, ~(kind = "mine" /\ (walk.came \/ walk.tied)) PROVE walk.stay \subseteq IdsOf(walk.shown)
  <2> SUFFICES ASSUME NEW p \in walk.stay, p \notin IdsOf(walk.shown) PROVE FALSE
    OBVIOUS
  <2>1. p \in S /\ m + n <= Place(kind, q, p)
    BY <1>3, <1>5, <1>9 DEF Walked
  <2>2. <<p, p>> \notin RowOrder(kind, q)
    <3>1. p \in Int /\ CreatedAt[p] \in Int /\ MinPrice(p) \in Nat
      BY <1>5, <2>1, PricesAreNumbers, CatalogAssumption
    <3> QED
      BY <3>1 DEF RowOrder, Before
  <2>3. Place(kind, q, p) < Cardinality(S) /\ Place(kind, q, p) \in Nat /\ Cardinality(S) \in Nat
    BY <1>5, <2>1, <2>2, RankType, FS_CardinalityType DEF Place
  <2>4. total = Cardinality(S)
    BY <1>4, <1>7, <1>9 DEF Settled
  <2> QED
    BY <1>4, <1>6, <2>1, <2>3, <2>4
<1>10. ~walk.came /\ ~(kind = "mine" /\ walk.tied) => Once(walk.shown)
  BY <1>3 DEF Walked
<1>11. walk.stay \ ToSet(ShownIds) # {} =>
          walk.left \/ (req.kind = "mine" /\ walk.came) \/ (req.kind = "mine" /\ walk.tied)
  BY <1>1, <1>8, <1>9
<1>12. ~IsInjective(ShownIds) => walk.came \/ (req.kind = "mine" /\ walk.tied)
  BY <1>1, <1>8, <1>10
<1>13. ~req.raced => Len(req.answer.items)
                       = Max({0, Min({req.arg.limit, req.answer.total - req.arg.offset})})
  BY <1>1, <1>6, <1>7
<1> QED
  BY <1>11, <1>12, <1>13 DEF PagesAreExplained

\* Offset paging over changing tables loses or repeats a row only for a reason
\* the walk has written down, for every catalogue, page size and filter; a last
\* page without a change is as long as its total promises.
THEOREM PagesStayExplained == Spec => []PagesAreExplained
<1>1. Init => ShopTypeOK /\ Shape /\ PagesInv
  BY ShopStartsTyped, ShapeStarts DEF Init, Idle, PagesInv, Walking, Answered, At
<1>2. (ShopTypeOK /\ Shape /\ PagesInv) /\ [Next]_vars => (ShopTypeOK /\ Shape /\ PagesInv)'
  BY ShopTypesStay, ShapeStays, PagesInvStays
<1>3. ShopTypeOK /\ Shape /\ PagesInv => PagesAreExplained
  BY PagesInvExplains DEF Shape
<1> QED
  BY <1>1, <1>2, <1>3, PTL DEF Spec

=============================================================================
