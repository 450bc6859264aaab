SPECIFICATION Spec
CONSTANTS
    c1 = c1
    c2 = c2
    Consumers = {c1, c2}
    NoOne = NoOne
    End = 1
    Poison <- NoPoison
    BatchSize = 1
    AckBatch = 1
    Configs <- Shared
    MaxFaults = 0
PROPERTY RewindAlone
CHECK_DEADLOCK FALSE
