SPECIFICATION FairSpec
CONSTANTS
    Passes = {"worker", "reclaimer"}
    Routings <- MCRoutings
    Addresses = {"public", "private"}
    Restricted = {"private"}
    AllowPrivate = FALSE
    MaxRetries = 5
    InitialInterval = 1
    MaxInterval = 2
    Timeout = 1
    Tolerance = 1
    MaxFaults = 1
INVARIANTS
    TypeOK
    DialedIsAllowed
    NeverStale
    FlakyIsDelivered
    PassEndsInTime
PROPERTY
    EveryPassEnds
