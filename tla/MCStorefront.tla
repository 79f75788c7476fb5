----------------------------- MODULE MCStorefront -----------------------------
EXTENDS Storefront, TLC

MCProductOf == <<1, 1, 2, 3>>
MCCategoryOf == <<1, 1, 2>>
MCSellerOf == <<1, 1, 1>>
\* The last two products were created at the same time: the seller's first page
\* and its second may both show the same one of them.
MCCreatedAt == <<1, 2, 2>>
MCInitPrice == <<1, 3, 2, 2>>

\* Product 1 has one trait twice: nothing forbids it.
MCTraits ==
    {[product |-> 1, name |-> "color", value |-> "red", row |-> 1],
     [product |-> 1, name |-> "color", value |-> "red", row |-> 2],
     [product |-> 2, name |-> "color", value |-> "blue", row |-> 3],
     [product |-> 2, name |-> "size", value |-> "s", row |-> 4],
     [product |-> 3, name |-> "color", value |-> "red", row |-> 5]}

MCMatches == [shoe |-> {2, 3}]
MCTitled == [shoe |-> {3}]

NoFilter == [category |-> None, seller |-> None, price_min |-> None, price_max |-> None,
             attributes |-> NoTraits]

MCFilters ==
    {NoFilter,
     [NoFilter EXCEPT !.category = 1, !.seller = 1],
     [NoFilter EXCEPT !.price_min = 2],
     [NoFilter EXCEPT !.price_max = 2, !.attributes = [color |-> {"blue", "green"}, size |-> {}]]}

MCCarts ==
    {<< >>,
     <<[sku |-> 1, product |-> 1, quantity |-> 1]>>,
     <<[sku |-> 1, product |-> None, quantity |-> 1]>>,
     <<[sku |-> 2, product |-> 1, quantity |-> 1], [sku |-> 3, product |-> 2, quantity |-> 2]>>}

MCCollections == [top |-> <<3, 1>>, empty |-> << >>]

MCFavorites == {<< >>, <<2, 1>>}

MCBanners ==
    [b1 |-> [active |-> TRUE, from |-> None, to |-> 1, priority |-> 2],
     b2 |-> [active |-> TRUE, from |-> 1, to |-> None, priority |-> 1],
     b3 |-> [active |-> FALSE, from |-> None, to |-> None, priority |-> 3]]
=============================================================================
