SPECIFICATION ReasonsSpec
CONSTANTS
    Products = {p1}
    Moderators = {a1}
    Admins = {a1}
    Requests = {r1, r2, r3}
    Deliveries = {d1, d2}
    MaxMail = 2
    Nobody = Nobody
    Reasons <- MCReasons
    InitReasons = {"hard"}
    CodeOf <- MCCodeOf
    Hard = {"hard"}
    Picks <- MCPicks
    Keepers = {k1, k2}
SYMMETRY MCSymmetry
INVARIANTS
    DecisionIsSent
    HiddenReasonWasRaced
PROPERTIES
    ClaimTakesPending
    OnlyStaleReadsReopen
CHECK_DEADLOCK FALSE
