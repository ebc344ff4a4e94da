-------------------------- MODULE MCInMemoryCache --------------------------
(* Instances of InMemoryCache for TLC. *)
EXTENDS InMemoryCache, TLC

\* The TTLs on both sides of each bound that Set tests.
BoundaryTTLs == {-1, 0, MaxTTL, MaxTTL + 1}

\* Keys, values and goroutines are each interchangeable.
Symmetry == Permutations(Key) \cup Permutations(Value) \cup Permutations(Getter)
=============================================================================
