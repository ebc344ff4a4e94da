----------------------------- MODULE MCRouting -----------------------------
(* Instances of Routing for TLC.  The tokens of a node are interchangeable,   *)
(* so they are placed in ascending order; a key is named by its position.      *)
EXTENDS Routing, TLC

Seqs == INSTANCE SequencesExt

Ascending == {f \in [VNodes -> Position] : \A i, j \in VNodes : i < j => f[i] < f[j]}

\* Every way to place the tokens on different positions.
AllPlacements ==
  {f \in [Node -> Ascending] :
     \A m, n \in Node, i, j \in VNodes : f[m][i] = f[n][j] => m = n}

\* Two tokens may fall on one position.
CollidingPlacements == [Node -> Ascending]

HashKey == [k \in Key |-> k]

AllPeerLists == {peers \in Seqs!SeqOf(Node, Cardinality(Node) - 1) : IsInjective(peers)}
OneAddr == [n \in Node |-> CHOOSE a \in Addr : TRUE]
NoHosts == <<>>
SameId == [n \in Node |-> n]

\* docker-compose.yml: the nodes are started as node1 and node2 on the hosts
\* cache-node-1 and cache-node-2; the API drops "cache-" from the host's name.
ComposeHosts == <<"node1", "node2">>
ComposeId == [n \in Node |-> CASE n = "node1" -> "node-1" [] n = "node2" -> "node-2" [] OTHER -> n]

Symmetry == Permutations(Node)
=============================================================================
