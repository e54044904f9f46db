SPECIFICATION Spec
CONSTANTS
    Loads = {"load"}
    Injected = {"injected"}
    Workers = {"worker"}
    Reclaimer = "reclaimer"
    MaxRetries = 3
    FlakyEvery = 3
    PoisonEvery = 6
INVARIANT
    ZeroLossIsReal
