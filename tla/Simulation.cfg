SPECIFICATION SimulationSpec
CONSTANTS
  Client = {c1, c2}
  Doc = {1, 2, 3}
  TopK = 2
  MaxSize = 2
  None = None
  MaxOps = 7
  Kinds <- AllKinds
  Models <- TwoModels
  SeqLen = 2
  Shared = 1
  NumRequests = 3
INVARIANTS
  SizeBounded
  SameAsPython
  ComputedOnce
  SavingsAgree
  FairComparison
SYMMETRY Symmetry
CHECK_DEADLOCK FALSE
