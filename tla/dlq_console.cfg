SPECIFICATION FairSpec
CONSTANTS
    d1 = d1
    p1 = p1
    MaxEvent = 2
    Tenants <- MCTenants
    TenantOf <- MCTenantOf
    Dashboards = {d1}
    Programs = {p1}
    HomeTenant = "alpha"
    Batches <- MCBatches
    PageSize = 1
    MaxBatch = 2
    MaxReplays = 2
    MaxLists = 1
    MaxDead = 2
    MaxFaults = 1
INVARIANTS
    TypeOK
    ReopenedOnce
    ReopenedIsCarried
    AllOrNothing
    TenantsApart
PROPERTIES
    ReplaysAnswered
