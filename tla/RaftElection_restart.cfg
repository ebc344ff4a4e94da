SPECIFICATION Spec
CONSTANTS
  Server = {n1, n2, n3}
  None = None
  MaxTerm = 1
  FailingDisk = {n3}
  Crashable = {n1, n2}
INVARIANTS
  OneVotePerTerm
PROPERTIES
  VoteIsFinal
CHECK_DEADLOCK FALSE
