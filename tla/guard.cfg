SPECIFICATION Spec
CONSTANTS
    r1 = r1
    r2 = r2
    r3 = r3
    r4 = r4
    Requests = {r1, r2, r3, r4}
    Valid = {r1, r2, r3}
    SharedGuard = TRUE
    Postgres = TRUE
    EarlyExpiry = TRUE
    Faults = {"crash", "disconnect", "acquire", "create", "cache", "release"}
    MaxFaults = 2
    MaxExpiries = 2
SYMMETRY RequestSymmetry
INVARIANTS
    TypeOK
    AcceptedAgree
    OneOwner
    RefusalsAreHonest
PROPERTIES
    CachedIsStable
