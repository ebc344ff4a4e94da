SPECIFICATION FairSpec
CONSTANTS
  Reader = {r1, r2}
  Writer = {w1, w2}
  Absent = Absent
  Strategies = {"ttl", "write-through", "write-behind"}
  CacheFails = TRUE
  DBFails = TRUE
  Tearing = TRUE
  MaxVersion = 4
INVARIANTS
  OnlyCommitted
  StaleIsExplained
PROPERTIES
  EventuallyFresh
