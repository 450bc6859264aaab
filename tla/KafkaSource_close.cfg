SPECIFICATION Spec
CHECK_DEADLOCK FALSE
CONSTANTS
  a = a
  b = b
  NoRecord = NoRecord
  Parts = {a, b}
  End <- Three
  CommitEvery = 3
  Poison <- NoPoison
  Configs <- CommitNowOnly
  UseCheckpoint = FALSE
  MaxPoll = 2
  MaxRebalances = 0
  MaxFaults = 0
PROPERTY
  CloseFlushes
