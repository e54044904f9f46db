SPECIFICATION FairSpec
CONSTANTS
    w1 = w1
    w2 = w2
    reclaimer = reclaimer
    r1 = r1
    s1 = s1
    main = main
    c1 = c1
    c2 = c2
    Goroutines = {w1, w2, reclaimer}
    Reclaimer = reclaimer
    Requests = {r1, s1}
    Streams = {s1}
    Main = main
    Callers = {c1, c2}
INVARIANTS
    TypeOK
    DrainedMeansDone
    ClosedUnderNobody
PROPERTIES
    ShutdownEnds
