SPECIFICATION Spec
CONSTANTS
    SKUs = {1, 2}
    IdemKeys = {k1, k2}
    OrderIds = {o1}
    InitialStock <- MCInitialStock
    MaxQty = 1
    Requests = {r1, r2, r3}
    Deletable = {2}
    NoRequest = NoRequest
INVARIANTS
    UniqueViolationMeansRepeat
