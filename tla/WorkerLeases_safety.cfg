SPECIFICATION Spec
CONSTANTS
    w1 = w1
    w2 = w2
    p1 = p1
    p2 = p2
    NoLease = NoLease
    Idle = Idle
    Workers <- TwoWorkers
    Pipelines <- OnePipeline
    FallbackToLocal = FALSE
    FencingKeyTtl = TRUE
    MaxToken = 2
    MaxFaults = 1
SYMMETRY WorkerSymmetry
INVARIANTS TypeOK LiveLeaseIsNewest TokensNotShared StoppedIsQuiet
PROPERTY RunningLeaseStable
CHECK_DEADLOCK FALSE
