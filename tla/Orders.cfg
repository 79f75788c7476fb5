SPECIFICATION Spec
CONSTANTS
    SKUs = {1, 2}
    IdemKeys = {k1, k2}
    OrderIds = {o1, o2}
    InitialStock <- MCInitialStock
    MaxQty = 1
    Cancels = {c1}
    Deliveries = {d1}
    MaxEdits = 1
    NoOrder = NoOrder
SYMMETRY MCSymmetry
INVARIANTS
    OneOrderPerKey
    OrdersAreReserved
    OrphanReserveExplained
    NegativeReserveExplained
    DeliveredIsFulfilled
    CancelledIsUnreserved
CHECK_DEADLOCK FALSE
