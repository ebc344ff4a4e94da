--------------------------- MODULE MCRaftElection ---------------------------
(* Instances of RaftElection for TLC. *)
EXTENDS RaftInvariant, TLC

\* Nodes are interchangeable in every instance whose fault sets are symmetric.
Symmetry == Permutations(Server)
=============================================================================
