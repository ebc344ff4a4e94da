SPECIFICATION Spec
CONSTANTS
  Server = {n1, n2, n3}
  None = None
  MaxTerm = 2
  FailingDisk = {}
  Crashable = {}
INVARIANTS
  HeartbeatFromLeader
SYMMETRY Symmetry
CHECK_DEADLOCK FALSE
