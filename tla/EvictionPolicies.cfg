SPECIFICATION Spec
CONSTANTS
  Key = {k1, k2, k3, k4, k5, k6}
  None = None
  Capacity <- Sizes
  head = head
  tail = tail
  MaxTime = 2
  MaxFreq = 2
INVARIANTS
  WellFormed
PROPERTIES
  ImplementsPolicy
SYMMETRY Symmetry
