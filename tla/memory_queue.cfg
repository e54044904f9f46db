SPECIFICATION FairSpec
CONSTANTS
    e1 = e1
    r1 = r1
    r2 = r2
    p1 = p1
    Events = {e1}
    Readers = {r1, r2}
    Claimers = {p1}
    StartIDs = {"0", "$"}
    Count = 2
    MaxMessages = 3
INVARIANTS
    TypeOK
    WaitersMissNothing
PROPERTIES
    KeepsGroup
    EveryMessageIsGiven
CHECK_DEADLOCK FALSE
