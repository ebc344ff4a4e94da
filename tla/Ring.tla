-------------------------------- MODULE Ring --------------------------------
(***************************************************************************)
(* internal/cluster/ring.go: the consistent hashing ring.  Every method    *)
(* holds the ring's lock throughout, so each is one step; Add and Remove    *)
(* are the rings that the methods of these names leave behind.             *)
(*                                                                         *)
(* Positions are 0..Size-1 (uint32 in the code).  Where hashKey puts things *)
(* is arbitrary: token[n][i], the position of hashKey("<n>-<i>"), is chosen *)
(* once and for all in Init, and Hash[k] is that of key k.  sortedTokens is *)
(* sorted after every change, so it is given by how many copies of each     *)
(* position it holds.                                                       *)
(***************************************************************************)
EXTENDS Integers, FiniteSets

CONSTANTS Node, Key, Addr,
          NoNode,     \* the empty string
          Size,       \* number of positions on the ring
          VNodes,     \* the indexes of a node's virtual tokens
          Hash,
          Placements, \* the token positions that Init chooses from
          ReAdd,      \* may Add be called for a node that is registered?
          MaxCopies   \* bound on copies of a token

Position == 0..(Size - 1)

ASSUME RingAssumption ==
  /\ Size \in Nat \ {0} /\ IsFiniteSet(VNodes) /\ VNodes # {}
  /\ Placements \subseteq [Node -> [VNodes -> Position]] /\ Hash \in [Key -> Position]
  /\ NoNode \notin Node /\ NoNode \notin Addr
  /\ ReAdd \in BOOLEAN /\ MaxCopies \in Nat

VARIABLES
  token,      \* token[n][i]: hashKey of the i-th token of n
  ring        \* the ring of this process

vars == <<token, ring>>

\* A ring is a record of its three fields: tokens maps a position to a node,
\* copies[p] is how often p is in sortedTokens, nodeAddrs maps a node to its
\* address.
Registered(r) == DOMAIN r.nodeAddrs
TokensOf(n)   == {token[n][i] : i \in VNodes}

NewRing ==
  [tokens    |-> [p \in {} |-> NoNode],
   copies    |-> [p \in Position |-> 0],
   nodeAddrs |-> [n \in {} |-> NoNode]]

Init == token \in Placements /\ ring = NewRing

-----------------------------------------------------------------------------
\* How often Add appends position p for node n.
Appended(n, p) == Cardinality({i \in VNodes : token[n][i] = p})

\* Mutant: the first node to register loses its first token.
Add_FirstShort(r, n, addr) ==
  LET own == IF Registered(r) = {} THEN {token[n][i] : i \in VNodes \ {0}} ELSE TokensOf(n)
  IN  [tokens    |-> [p \in DOMAIN r.tokens \cup own |-> IF p \in own THEN n ELSE r.tokens[p]],
       copies    |-> [p \in Position |-> IF p \in own THEN 1 ELSE r.copies[p]],
       nodeAddrs |-> [m \in Registered(r) \cup {n} |-> IF m = n THEN addr ELSE r.nodeAddrs[m]]]

\* The ring after Add.
Add(r, n, addr) ==
  [tokens    |-> [p \in DOMAIN r.tokens \cup TokensOf(n) |->
                    IF p \in TokensOf(n) THEN n ELSE r.tokens[p]],
   copies    |-> [p \in Position |-> r.copies[p] + Appended(n, p)],
   nodeAddrs |-> [m \in Registered(r) \cup {n} |-> IF m = n THEN addr ELSE r.nodeAddrs[m]]]

\* Mutant: the token list is rebuilt, the map is left alone.
Remove_KeepsMap(r, n) ==
  LET gone == {p \in DOMAIN r.tokens : r.tokens[p] = n}
  IN  [tokens    |-> r.tokens,
       copies    |-> [p \in Position |-> IF p \in gone THEN r.copies[p] - 1 ELSE r.copies[p]],
       nodeAddrs |-> [m \in Registered(r) \ {n} |-> r.nodeAddrs[m]]]

\* The ring after Remove.  The loop deletes a token from the map when it meets
\* it first, so that a second copy of the same token no longer belongs to n and
\* is kept.
Remove(r, n) ==
  LET gone == {p \in DOMAIN r.tokens : r.tokens[p] = n}
  IN  [tokens    |-> [p \in DOMAIN r.tokens \ gone |-> r.tokens[p]],
       copies    |-> [p \in Position |-> IF p \in gone THEN r.copies[p] - 1 ELSE r.copies[p]],
       nodeAddrs |-> [m \in Registered(r) \ {n} |-> r.nodeAddrs[m]]]

-----------------------------------------------------------------------------
(* Get: sort.Search for the first token at or after the key's position. *)

Held(r) == {p \in Position : r.copies[p] > 0}

Least(S) == CHOOSE p \in S : \A q \in S : p =< q

\* Mutant: no wrap around; the last token takes what is beyond it.
Clockwise_NoWrap(S, pos) ==
  IF \E p \in S : p >= pos THEN Least({p \in S : p >= pos}) ELSE CHOOSE p \in S : \A q \in S : q =< p

\* Mutant: the position modulo the number of tokens is used as an index.
Clockwise_Modulo(S, pos) ==
  CHOOSE p \in S : Cardinality({q \in S : q < p}) = pos % Cardinality(S)

Clockwise(S, pos) ==
  IF \E p \in S : p >= pos THEN Least({p \in S : p >= pos}) ELSE Least(S)

NodeAt(r, p) == IF p \in DOMAIN r.tokens THEN r.tokens[p] ELSE NoNode

\* The node that Get returns with ok = true, NoNode for an empty ring (ok =
\* false) and for a token that is in no map.
Get(r, k) == IF Held(r) = {} THEN NoNode ELSE NodeAt(r, Clockwise(Held(r), Hash[k]))

-----------------------------------------------------------------------------
\* Bound: a ring holds a token at most MaxCopies times.
Fits(r, n) == \A p \in TokensOf(n) : r.copies[p] + Appended(n, p) =< MaxCopies

RingNext ==
  /\ \E n \in Node :
       \/ /\ ReAdd \/ n \notin Registered(ring)
          /\ Fits(ring, n)
          /\ \E addr \in Addr : ring' = Add(ring, n, addr)
       \/ ring' = Remove(ring, n)
  /\ UNCHANGED token

Spec == Init /\ [][RingNext]_vars

-----------------------------------------------------------------------------
\* How far clockwise q is from p.
Distance(p, q) == (q - p) % Size

\* Get depends on who is registered, never on the order of Adds and Removes
\* that led there (every node builds its ring in its own order): the owner is
\* the registered node with the token nearest clockwise of the key.
OwnerIsNearest ==
  Registered(ring) # {} =>
    \A k \in Key :
      LET owner == Get(ring, k) IN
      /\ owner \in Registered(ring)
      /\ \E p \in TokensOf(owner) : \A m \in Registered(ring) : \A q \in TokensOf(m) :
           Distance(Hash[k], p) =< Distance(Hash[k], q)

\* The map and the sorted list hold the same tokens, those of registered nodes.
ListMatchesMap ==
  /\ DOMAIN ring.tokens = Held(ring)
  /\ Held(ring) = UNION {TokensOf(n) : n \in Registered(ring)}

\* ring.go: adding or removing a node moves only the keys of the affected arc:
\* a key that changes its owner came from a node that left or went to one that
\* joined.
MinimalRemapping ==
  [][ring' # ring =>
       \A k \in Key :
         LET before == Get(ring, k)
             after  == Get(ring', k)
         IN  \/ after = before
             \/ after \in Registered(ring') \ Registered(ring)
             \/ before \in Registered(ring) \ Registered(ring')
             \/ before = NoNode]_vars

\* ring.go: "Remove deregisters a node and all its virtual tokens from the
\* ring."
RemovedIsGone ==
  \A p \in Held(ring) : NodeAt(ring, p) \in Registered(ring)
=============================================================================
