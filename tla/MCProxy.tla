------------------------------- MODULE MCProxy -------------------------------
(* Instances of Proxy for TLC: requests are interchangeable. *)
EXTENDS Proxy, TLC

\* A max-age that forbids caching, one that expires soon and a negative one.
EdgeMaxAges == {-1, 0, 1}

Symmetry == Permutations(Client)
==============================================================================
