SPECIFICATION Spec
CONSTANTS
  Client = {c1, c2}
  Methods = {"GET", "PUT"}
  None = None
  NoHeader = NoHeader
  NoStore = NoStore
  MaxAges <- EdgeMaxAges
  DefaultTTL = 2
  Timeout = 1
  MaxTime = 4
INVARIANTS
  AgeBounded
  HitsMayBeCached
PROPERTIES
  DropsOnlyExpired
SYMMETRY Symmetry
