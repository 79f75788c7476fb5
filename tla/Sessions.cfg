SPECIFICATION SessionsSpec
CONSTANTS
    e1 = e1
    e2 = e2
    i1 = i1
    Requests = {r1, r2, r3, r4}
    Emails = {e1, e2}
    Inns = {i1}
    InnOf <- MCInnOf
    NoToken = NoToken
SYMMETRY MCSymmetry
CHECK_DEADLOCK FALSE
INVARIANTS
    OneLiveTokenPerLogin
    LogoutEndsLogin
    LoginsEndForAReason
