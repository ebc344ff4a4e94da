SPECIFICATION Spec
CONSTANTS
  Server = {n1}
  None = None
  MaxTerm = 3
  FailingDisk = {}
  Crashable = {}
INVARIANTS
  OwnMajorityWins
CHECK_DEADLOCK FALSE
