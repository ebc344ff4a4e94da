\* One INVARIANT at a time: TLC stops at the first counterexample.
SPECIFICATION AsideSpec
CONSTANTS
  Reader = {r1}
  Writer = {w1, w2}
  Absent = Absent
  Strategies = {"write-through", "write-behind"}
  CacheFails = FALSE
  DBFails = FALSE
  Tearing = FALSE
  MaxVersion = 3
INVARIANT
  NeverStaleAfterWrite
\* FreshAfterDelete
