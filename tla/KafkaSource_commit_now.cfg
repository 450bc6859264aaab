SPECIFICATION Spec
CHECK_DEADLOCK FALSE
CONSTANTS
  a = a
  b = b
  NoRecord = NoRecord
  Parts = {a, b}
  End <- Three
  CommitEvery = 2
  Poison <- NoPoison
  Configs <- CommitNowOnly
  UseCheckpoint = FALSE
  MaxPoll = 2
  MaxRebalances = 1
  MaxFaults = 0
INVARIANT
  BrokerCommitsGated
