---------------------------- MODULE MCCacheAside ----------------------------
(* Instances of CacheAside for TLC: requests are interchangeable. *)
EXTENDS CacheAside, TLC

Symmetry == Permutations(Reader) \cup Permutations(Writer)
=============================================================================
