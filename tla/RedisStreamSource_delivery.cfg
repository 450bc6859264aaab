SPECIFICATION Spec
CONSTANTS
    c1 = c1
    c2 = c2
    Consumers = {c1, c2}
    NoOne = NoOne
    End = 2
    Poison <- PoisonSecond
    BatchSize = 2
    AckBatch = 2
    Configs <- Durable
    MaxFaults = 1
SYMMETRY ConsumerSymmetry
INVARIANTS TypeOK NothingLost AcksKept
CHECK_DEADLOCK FALSE
