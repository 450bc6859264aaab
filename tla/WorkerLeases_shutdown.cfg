SPECIFICATION Spec
CONSTANTS
    w1 = w1
    w2 = w2
    p1 = p1
    p2 = p2
    NoLease = NoLease
    Idle = Idle
    Workers <- OneWorker
    Pipelines <- OnePipeline
    FallbackToLocal = FALSE
    FencingKeyTtl = FALSE
    MaxToken = 3
    MaxFaults = 0
INVARIANT StopDeletesAllLeases
CHECK_DEADLOCK FALSE
