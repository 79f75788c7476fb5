SPECIFICATION FairOutboxSpec
CONSTANTS
    Rows = {e1, e2}
    Workers = {w1, w2}
    BatchSize = 2
    MaxRetries = 2
    MaxDowns = 2
INVARIANTS
    ReceivedIsAccountedFor
PROPERTIES
    EveryRowSettles
CHECK_DEADLOCK FALSE
