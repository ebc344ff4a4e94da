\* One INVARIANT at a time: TLC stops at the first counterexample.
SPECIFICATION Spec
CONSTANTS
  Client = {c1, c2}
  Methods = {"GET", "PUT"}
  None = None
  NoHeader = NoHeader
  NoStore = NoStore
  MaxAges <- EdgeMaxAges
  DefaultTTL = 2
  Timeout = 1
  MaxTime = 3
INVARIANT
  UpdatesReachUpstream
\* StaleServedOnFailure
SYMMETRY Symmetry
