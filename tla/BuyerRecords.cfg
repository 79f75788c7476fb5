SPECIFICATION Spec
CONSTANTS
    Requests = {r1, r2, r3}
    OldRows = {a1, a2}
    None = None
SYMMETRY MCSymmetry
CHECK_DEADLOCK FALSE
INVARIANTS
    TwoDefaultsWereRaced
    LastWordCounts
