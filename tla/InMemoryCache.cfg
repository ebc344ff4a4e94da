SPECIFICATION Spec
CONSTANTS
  Key = {k1, k2, k3}
  Value = {v1, v2}
  Getter = {g1}
  None = None
  Capacity = 2
  UsedPolicies = {"lru", "lfu", "ttl", "random"}
  TTLs <- BoundaryTTLs
  MaxTTL = 2
  OneSecond = 2
  MaxTime = 1
  MaxFreq = 3
INVARIANTS
  TypeOK
  CapacityRespected
  PolicyTracksEntries
  HitWasCurrent
PROPERTIES
  DropsOnlyExpired
SYMMETRY Symmetry
