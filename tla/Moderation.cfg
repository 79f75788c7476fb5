SPECIFICATION BothSpec
CONSTANTS
    Products = {p1}
    Nobody = Nobody
    Requests = {s1, s2}
    Handlers = {h1}
    Moderators = {m1}
    Admins = {}
    ModeratorRequests = {r1, r2, r3}
    Deliveries = {d1, d2}
    MaxMail = 3
    MaxVerdicts = 2
SYMMETRY MCSymmetry
INVARIANTS
    StatusIsDecided
    ArchivedWasWithdrawn
CHECK_DEADLOCK FALSE
