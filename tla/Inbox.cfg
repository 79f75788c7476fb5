SPECIFICATION FairSpec
CONSTANTS
    Deliveries = {d1, d2, d3, d4}
    Keys = {k1, k2}
    PoolSize = 3
    OwnTransactions = {k1}
INVARIANTS
    CleanRunsApplyOnce
    AppliedWithRecord
PROPERTIES
    EveryDeliveryIsAnswered
CHECK_DEADLOCK FALSE
