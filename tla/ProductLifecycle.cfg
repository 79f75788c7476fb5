SPECIFICATION Spec
CONSTANTS
    Products = {p1}
    Requests = {r1, r2, r3}
    Handlers = {h1, h2}
    MaxVerdicts = 1
    Nobody = Nobody
SYMMETRY MCSymmetry
INVARIANTS
    ChangesAreTold
    SecondSubmissionAfterDelete
    InvoicesKeepTheirSkus
PROPERTIES
    OnlyStaleReadsUnblock
CHECK_DEADLOCK FALSE
