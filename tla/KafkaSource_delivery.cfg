SPECIFICATION Spec
CHECK_DEADLOCK FALSE
CONSTANTS
  a = a
  b = b
  NoRecord = NoRecord
  Parts = {a, b}
  End <- Two
  CommitEvery = 2
  Poison <- PoisonSecond
  Configs <- AllConfigs
  UseCheckpoint = TRUE
  MaxPoll = 2
  MaxRebalances = 1
  MaxFaults = 1
INVARIANTS
  TypeOK
  CommittedIsHandled
  CheckpointIsHandled
  PendingIsTracked
