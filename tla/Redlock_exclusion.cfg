SPECIFICATION Spec
CHECK_DEADLOCK FALSE
CONSTANTS
  v = v
  w = w
  n1 = n1
  n2 = n2
  n3 = n3
  Workers = {v, w}
  Nodes = {n1, n2, n3}
  TTL = 2
  Drift = 1
  NoKey = NoKey
  Idle = Idle
  MaxToken = 2
  MaxTime = 1
  MaxChecks = 1
  MaxFaults = 1
SYMMETRY Symmetry
INVARIANTS
  TypeOK
  OwnerHasQuorum
  OneOwner
  PartialUndone
PROPERTY
  GrantIsLive
