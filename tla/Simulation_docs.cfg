\* One INVARIANT at a time: TLC stops at the first counterexample.
SPECIFICATION SimulationSpec
CONSTANTS
  Client = {c1}
  Doc = {1, 2, 3, 4}
  TopK = 3
  MaxSize = 2
  None = None
  MaxOps = 6
  Kinds = {"rag"}
  Models <- TwoModels
  SeqLen = 2
  Shared = 1
  NumRequests = 3
INVARIANT
  ExactSetMatching
\* MatchesGo
SYMMETRY Symmetry
CHECK_DEADLOCK FALSE
