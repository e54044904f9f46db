SPECIFICATION FairSpec
CONSTANTS
    w1 = w1
    w2 = w2
    c1 = c1
    c2 = c2
    Workers = {w1, w2}
    Connections = {c1, c2}
    BufferSize = 1
    MaxAttempts = 1
INVARIANTS
    TypeOK
    NoCollateralLoss
PROPERTIES
    BroadcastReturns
    GoneIsUnregistered
CHECK_DEADLOCK FALSE
