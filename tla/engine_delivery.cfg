SPECIFICATION FairSpec
CONSTANTS
    e1 = e1
    ep1 = ep1
    w1 = w1
    reclaimer = reclaimer
    relay1 = relay1
    Events = {e1}
    Endpoints = {ep1}
    Preregistered = {ep1}
    Workers = {w1}
    Reclaimer = reclaimer
    Relays = {relay1}
    RelayBatchSize = 2
    BatchSize = 2
    MaxRetries = 2
    MaxClaimAttempts = 2
    MaxLen = 0
    DurableQueue = TRUE
    Faults = {"crash", "shutdown", "publish", "mark", "read", "ack", "statusRead"}
    MaxFaults = 1
    MaxOutbox = 2
INVARIANTS
    TypeOK
    NoEventStranded
    QuarantineNeedsFailures
PROPERTIES
    EventuallyFinal
