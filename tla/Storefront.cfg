SPECIFICATION Spec
CONSTANTS
    Products = {1, 2, 3}
    Skus = {1, 2, 3, 4}
    ProductOf <- MCProductOf
    CategoryOf <- MCCategoryOf
    SellerOf <- MCSellerOf
    CreatedAt <- MCCreatedAt
    Traits <- MCTraits
    Matches <- MCMatches
    Titled <- MCTitled
    InitPrice <- MCInitPrice
    Prices = {1, 2, 3}
    MaxActive = 1
    None = None
    MaxChanges = 2
    Sellers = {1, 2}
    BuyerFilters <- MCFilters
    Searches = {None, "short", "shoe"}
    Sorts = {None, "price_asc", "cheap"}
    Limits = {1, 3}
    PageCap = 2
    SimilarCap = 1
    Carts <- MCCarts
    Collections <- MCCollections
    Favorites <- MCFavorites
    Banners <- MCBanners
    Clock = {0, 1, 2}
    CategoryIds = {1, 2, 3}
CHECK_DEADLOCK FALSE
INVARIANTS
    PagesAreExplained
    CardsAreCurrent
    FacetsCountTheListing
    CartsAreCurrent
    TreeAgreesWithCrumbs
