SPECIFICATION MCSpec
CONSTANTS
    SKUs = {1, 2}
    IdemKeys = {k1, k2}
    OrderIds = {o1}
    InitialStock <- MCInitialStock
    MaxQty = 1
    Requests = {1, 2, 3}
    Deletable = {2}
    NoRequest = NoRequest
INVARIANTS
    StockConserved
    ActiveNonNegative
    AtMostOnce
PROPERTIES
    AtomicRequests
    EveryOpenRequestEnds
