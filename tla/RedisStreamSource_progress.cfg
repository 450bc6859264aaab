SPECIFICATION FairSpec
CONSTANTS
  c1 = c1
  c2 = c2
  Consumers = {c1}
  NoOne = NoOne
  End = 2
  Poison <- NoPoison
  BatchSize = 1
  AckBatch = 2
  Configs <- Reclaiming
  MaxFaults = 1
PROPERTY NewEntriesRead
PROPERTY PendingEventuallyHandled
CHECK_DEADLOCK FALSE
