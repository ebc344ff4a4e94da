------------------------- MODULE MCEvictionPolicies -------------------------
(* Instances of EvictionPolicies for TLC.  Six entries are the fewest for     *)
(* which heap.Remove has to move an entry up.                                 *)
EXTENDS EvictionPolicies, TLC

Sizes == [p \in {"lru", "lfu", "ttl"} |-> IF p = "ttl" THEN 6 ELSE IF p = "lfu" THEN 5 ELSE 4]

Symmetry == Permutations(Key)
=============================================================================
