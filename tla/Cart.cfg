SPECIFICATION CartSpec
CONSTANTS
    s1 = s1
    s2 = s2
    Requests = {r1, r2, r3}
    Skus = {s1, s2}
    Amounts = {1}
    Shelf <- MCShelf
    Old = Old
    None = None
SYMMETRY MCSymmetry
CHECK_DEADLOCK FALSE
INVARIANTS
    LinesFitTheShelf
    RemovedStaysRemoved
PROPERTIES
    IncrementsCountAlone
    MergedOrKept
