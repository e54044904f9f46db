SPECIFICATION Spec
CONSTANTS
    e1 = e1
    ep1 = ep1
    ep2 = ep2
    w1 = w1
    reclaimer = reclaimer
    relay1 = relay1
    Events = {e1}
    Endpoints = {ep1, ep2}
    Preregistered = {ep1}
    Workers = {w1}
    Reclaimer = reclaimer
    Relays = {relay1}
    RelayBatchSize = 1
    BatchSize = 2
    MaxRetries = 1
    MaxClaimAttempts = 1
    MaxLen = 1
    DurableQueue = FALSE
    Faults = {"crash", "shutdown", "publish", "mark", "read", "ack", "statusRead", "endpointsRead", "record", "update"}
    MaxFaults = 1
    MaxOutbox = 2
SYMMETRY EngineSymmetry
INVARIANTS
    DeliveredWasAccepted
PROPERTIES
    KeepsPromise
