SPECIFICATION DashboardSpec
CONSTANTS
  Id = {a, b, c}
  Price = {1, 2}
  Seeds = {a}
  SeedPrice = 1
  SeedTime = 0
  Stamp = {1, 2}
  PageSizes = {0, 2, 3}
  MaxPageSize = 2
  Node = {n1, n2}
  Addressed = {n1, n2}
  NoNode = NoNode
  MaxFaults = 1
  Call = {1, 2}
  None = None
  Panels <- AllPanels
  a = a
  b = b
  c = c
  Edits <- AllEdits
  GridSize = 2
  MaxCalls = 3
INVARIANTS
  OneProductShown
  AppliedOrStored
  TotalNotAhead
  NothingSkipped
  WrittenIsKept
PROPERTIES
  ViewCatchesUp
CHECK_DEADLOCK FALSE
