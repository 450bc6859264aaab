SPECIFICATION FairSpec
CONSTANTS
    w1 = w1
    w2 = w2
    w3 = w3
    Tasks = {w1, w2, w3}
    End = 3
    Rejected <- RejectedSecond
    Misfit <- MisfitThird
    Configs <- Both
    MaxAttempts = 2
    MaxFaults = 1
INVARIANTS TypeOK RowsKept FlushIsDurable AckedIsDurable PoolBound
PROPERTY CallsEnd
CHECK_DEADLOCK FALSE
