SPECIFICATION Spec
CONSTANTS
    e1 = e1
    e2 = e2
    ep1 = ep1
    w1 = w1
    w2 = w2
    reclaimer = reclaimer
    relay1 = relay1
    Events = {e1, e2}
    Endpoints = {ep1}
    Preregistered = {ep1}
    Workers = {w1, w2}
    Reclaimer = reclaimer
    Relays = {relay1}
    RelayBatchSize = 2
    BatchSize = 1
    MaxRetries = 1
    MaxClaimAttempts = 1
    MaxLen = 0
    DurableQueue = TRUE
    Faults = {"crash", "publish", "mark", "read"}
    MaxFaults = 1
    MaxOutbox = 2
SYMMETRY EngineSymmetry
INVARIANTS
    GroupIsExclusive
    PublishedInOrder
    DuplicatesArePaidFor
    PublishedIsInStream
PROPERTIES
    KeepsGroup
