\* One INVARIANT at a time: TLC stops at the first counterexample.
SPECIFICATION Spec
CONSTANTS
  Key = {k1, k2, k3}
  Value = {v1, v2}
  Getter = {g1}
  None = None
  Capacity = 2
  UsedPolicies = {"ttl"}
  TTLs = {1, 2}
  MaxTTL = 2
  OneSecond = 2
  MaxTime = 2
  MaxFreq = 3
INVARIANT
  HitIsOneValue
\* TTLRules
\* SoonestExpiryEvicted
SYMMETRY Symmetry
