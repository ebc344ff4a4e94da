SPECIFICATION CoordinatorFairSpec
CONSTANTS
  Server = {n1, n2}
  None = None
  MaxTerm = 3
  FailingDisk = {}
  Crashable = {}
PROPERTIES
  ElectionEnds
  OldLeaderStepsDown
  LeaderBecomesCoordinator
CHECK_DEADLOCK FALSE
