SPECIFICATION CoordinatorSpec
CONSTANTS
  Server = {n1, n2}
  None = None
  MaxTerm = 3
  FailingDisk = {n2}
  Crashable = {n1}
INVARIANTS
  LeaderIsAnnounced
  CoordinatorHasWon
CHECK_DEADLOCK FALSE
