SPECIFICATION Spec
CONSTANTS
  Server = {n1, n2, n3}
  None = None
  MaxTerm = 1
  FailingDisk = {n1, n2, n3}
  Crashable = {n1, n2, n3}
INVARIANTS
  OneVotePerTerm
SYMMETRY Symmetry
CHECK_DEADLOCK FALSE
