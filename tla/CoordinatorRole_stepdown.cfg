SPECIFICATION CoordinatorSpec
CONSTANTS
  Server = {n1, n2}
  None = None
  MaxTerm = 2
  FailingDisk = {}
  Crashable = {}
INVARIANTS
  CoordinatorFollowsRole
CHECK_DEADLOCK FALSE
