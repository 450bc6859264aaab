SPECIFICATION FairSpec
CONSTANTS
    w1 = w1
    w2 = w2
    p1 = p1
    p2 = p2
    NoLease = NoLease
    Idle = Idle
    Workers <- OneWorker
    Pipelines <- TwoPipelines
    FallbackToLocal = TRUE
    FencingKeyTtl = FALSE
    MaxToken = 1
    MaxFaults = 0
INVARIANT FallbackConsistent
PROPERTY LostLeaseNoticed
CHECK_DEADLOCK FALSE
