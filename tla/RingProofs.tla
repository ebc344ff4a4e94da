----------------------------- MODULE RingProofs -----------------------------
(****************************************************************************)
(* Proofs about Ring and Routing, for every size of the ring, every number  *)
(* of nodes and of virtual tokens, and every order of Add and Remove: the   *)
(* map and the sorted list agree, Get returns the nearest token's node, a   *)
(* change moves only the keys of the affected arc, Route answers a node     *)
(* that owned the key during the call, and a mismatch at the receiver means *)
(* that the two processes know different nodes. The hypotheses are those    *)
(* the code relies on and does not check: no two tokens hash to one         *)
(* position, and Add is called only for nodes that are not registered.      *)
(*                                                                          *)
(* GoodRing says that a ring is what its set of registered nodes makes of   *)
(* it. sort.Search with the wrap around finds the token at the least        *)
(* clockwise distance (ClockwiseIsNearest), and there is only one at that   *)
(* distance (NearestIsUnique). So a token that is nearest before a change   *)
(* and still there, or nearest after it and there before, is both. The      *)
(* rings that the processes build at start-up are results of a recursive    *)
(* function, and AddsExists says that the function has a value for every    *)
(* list of nodes.                                                           *)
(****************************************************************************)
EXTENDS Routing, WellFoundedInduction, FiniteSetTheorems, TLAPS

\* hashKey puts all virtual tokens of all nodes on different positions.
NoCollisions ==
  \A f \in Placements : \A m, n \in Node : \A i, j \in VNodes :
    f[m][i] = f[n][j] => m = n /\ i = j

\* What the code relies on: Add is called once per node, and no collision.
OnceEach == ~ReAdd /\ NoCollisions

\* Map and list hold the tokens of the registered nodes, each of them once.
GoodRing(r) ==
  /\ Registered(r) \subseteq Node
  /\ DOMAIN r.tokens = UNION {TokensOf(n) : n \in Registered(r)}
  /\ \A n \in Registered(r) : \A p \in TokensOf(n) : r.tokens[p] = n
  /\ r.copies = [p \in Position |-> IF p \in DOMAIN r.tokens THEN 1 ELSE 0]

\* The inductive invariant of the ring.
RingInv == token \in Placements /\ GoodRing(ring)

\* c is a position of S at the least clockwise distance from pos.
IsNearest(S, pos, c) == c \in S /\ \A q \in S : Distance(pos, c) =< Distance(pos, q)

-----------------------------------------------------------------------------
(* Positions and distances. *)

\* A set of positions that is not empty has a least element.
LEMMA LeastIs ==
  ASSUME NEW S \in SUBSET Nat, S # {}
  PROVE  Least(S) \in S /\ \A q \in S : Least(S) =< q
<1> DEFINE R == {ss \in Nat \X Nat : ss[1] < ss[2]}
<1>1. IsWellFoundedOn(R, Nat)
  BY NatLessThanWellFounded DEF OpToRel
<1>2. \A a, b \in Nat : a < b => <<a, b>> \in R
  OBVIOUS
<1> HIDE DEF R
<1>3. PICK x \in S : \A y \in S : ~(<<y, x>> \in R)
  BY <1>1, WFMin, Zenon
<1>4. ASSUME NEW y \in S PROVE x =< y
  <2>1. x \in Nat /\ y \in Nat
    OBVIOUS
  <2>2. ~(y < x)
    BY <1>2, <1>3, <2>1, Zenon
  <2> QED  BY <2>1, <2>2
<1> QED  BY <1>4, Zenon DEF Least

\* The distance is the difference, one turn more when q lies behind p.
LEMMA DistanceIs ==
  ASSUME NEW p \in Position, NEW q \in Position
  PROVE  Distance(p, q) = IF p =< q THEN q - p ELSE q - p + Size
BY RingAssumption DEF Position, Distance

\* The search with the wrap around finds a token at the least distance.
LEMMA ClockwiseIsNearest ==
  ASSUME NEW S \in SUBSET Position, S # {}, NEW pos \in Position
  PROVE  IsNearest(S, pos, Clockwise(S, pos))
<1> DEFINE c == Clockwise(S, pos)
<1>0. S \subseteq Nat /\ Size \in Nat
  BY RingAssumption DEF Position
<1>1. CASE \E p \in S : p >= pos
  <2>1. c = Least({p \in S : p >= pos})
    BY <1>1 DEF Clockwise
  <2>2. c \in S /\ c >= pos /\ \A q \in S : q >= pos => c =< q
    BY <1>0, <1>1, <2>1, LeastIs
  <2> HIDE DEF c
  <2>3. ASSUME NEW q \in S PROVE Distance(pos, c) =< Distance(pos, q)
    BY <1>0, <2>2, DistanceIs DEF Position
  <2> QED  BY <2>2, <2>3 DEF IsNearest, c
<1>2. CASE ~\E p \in S : p >= pos
  <2>1. c = Least(S)
    BY <1>2 DEF Clockwise
  <2>2. c \in S /\ \A q \in S : c =< q
    BY <1>0, <2>1, LeastIs
  <2> HIDE DEF c
  <2>3. ASSUME NEW q \in S PROVE Distance(pos, c) =< Distance(pos, q)
    BY <1>0, <1>2, <2>2, DistanceIs DEF Position
  <2> QED  BY <2>2, <2>3 DEF IsNearest, c
<1> QED  BY <1>1, <1>2

\* Two positions are not equally far from a third.
LEMMA NearestIsUnique ==
  ASSUME NEW S \in SUBSET Position, NEW pos \in Position, NEW a, NEW b,
         IsNearest(S, pos, a), IsNearest(S, pos, b)
  PROVE  a = b
<1>1. a \in Position /\ b \in Position /\ Size \in Nat
  BY RingAssumption DEF IsNearest
<1>2. Distance(pos, a) =< Distance(pos, b) /\ Distance(pos, b) =< Distance(pos, a)
  BY DEF IsNearest
<1> QED  BY <1>1, <1>2, DistanceIs DEF Position

-----------------------------------------------------------------------------
(* Rings. *)

\* Without collisions a token belongs to one node, which appends it once.
LEMMA TokenFacts ==
  ASSUME NoCollisions, token \in Placements
  PROVE  /\ \A n \in Node : TokensOf(n) \subseteq Position /\ TokensOf(n) # {}
         /\ \A m, n \in Node : \A p : p \in TokensOf(m) /\ p \in TokensOf(n) => m = n
         /\ \A n \in Node : \A p : Appended(n, p) = IF p \in TokensOf(n) THEN 1 ELSE 0
<1>1. \A n \in Node : TokensOf(n) \subseteq Position /\ TokensOf(n) # {}
  BY RingAssumption DEF TokensOf
<1>2. \A m, n \in Node : \A p : p \in TokensOf(m) /\ p \in TokensOf(n) => m = n
  BY DEF TokensOf, NoCollisions
<1>3. ASSUME NEW n \in Node, NEW p
      PROVE  Appended(n, p) = IF p \in TokensOf(n) THEN 1 ELSE 0
  <2> DEFINE I == {i \in VNodes : token[n][i] = p}
  <2>1. CASE p \in TokensOf(n)
    <3>1. PICK i \in VNodes : token[n][i] = p
      BY <2>1 DEF TokensOf
    <3>2. I = {i}
      BY <3>1 DEF NoCollisions
    <3> QED  BY <2>1, <3>2, FS_Singleton, Zenon DEF Appended
  <2>2. CASE p \notin TokensOf(n)
    <3>1. I = {}
      BY <2>2 DEF TokensOf
    <3> QED  BY <2>2, <3>1, FS_EmptySet DEF Appended
  <2> QED  BY <2>1, <2>2
<1> QED  BY <1>1, <1>2, <1>3

\* The new ring is empty.
LEMMA NewRingGood ==
  ASSUME token \in Placements
  PROVE  GoodRing(NewRing)
BY SMTT(30) DEF GoodRing, NewRing, Registered

\* Add on a ring without the node.
LEMMA AddGood ==
  ASSUME NoCollisions, token \in Placements, NEW r, GoodRing(r),
         NEW n \in Node, n \notin Registered(r), NEW addr
  PROVE  /\ GoodRing(Add(r, n, addr))
         /\ Registered(Add(r, n, addr)) = Registered(r) \cup {n}
<1> DEFINE s == Add(r, n, addr)
<1>1. /\ DOMAIN s.tokens = DOMAIN r.tokens \cup TokensOf(n)
      /\ \A p \in DOMAIN s.tokens :
           s.tokens[p] = IF p \in TokensOf(n) THEN n ELSE r.tokens[p]
      /\ s.copies = [p \in Position |-> r.copies[p] + Appended(n, p)]
      /\ Registered(s) = Registered(r) \cup {n}
  BY DEF Add, Registered
<1> HIDE DEF s
<1>2. \A p \in TokensOf(n) : p \notin DOMAIN r.tokens
  BY TokenFacts DEF GoodRing
<1>3. s.copies = [p \in Position |-> IF p \in DOMAIN s.tokens THEN 1 ELSE 0]
  BY <1>1, <1>2, TokenFacts DEF GoodRing
<1>4. \A m \in Registered(s) : \A p \in TokensOf(m) : s.tokens[p] = m
  BY <1>1, <1>2, TokenFacts DEF GoodRing
<1>5. Registered(s) \subseteq Node /\ DOMAIN s.tokens = UNION {TokensOf(m) : m \in Registered(s)}
  BY <1>1 DEF GoodRing
<1> QED  BY <1>1, <1>3, <1>4, <1>5 DEF GoodRing, s

\* Remove, of a node that is registered or not.
LEMMA RemoveGood ==
  ASSUME NoCollisions, token \in Placements, NEW r, GoodRing(r), NEW n \in Node
  PROVE  /\ GoodRing(Remove(r, n))
         /\ Registered(Remove(r, n)) = Registered(r) \ {n}
<1> DEFINE s    == Remove(r, n)
           gone == {p \in DOMAIN r.tokens : r.tokens[p] = n}
<1>1. /\ DOMAIN s.tokens = DOMAIN r.tokens \ gone
      /\ \A p \in DOMAIN s.tokens : s.tokens[p] = r.tokens[p]
      /\ s.copies = [p \in Position |-> IF p \in gone THEN r.copies[p] - 1 ELSE r.copies[p]]
      /\ Registered(s) = Registered(r) \ {n}
  BY DEF Remove, Registered
<1> HIDE DEF s
<1>2. \A p : p \in gone <=> n \in Registered(r) /\ p \in TokensOf(n)
  BY TokenFacts DEF GoodRing
<1>3. s.copies = [p \in Position |-> IF p \in DOMAIN s.tokens THEN 1 ELSE 0]
  BY <1>1 DEF GoodRing
<1> HIDE DEF gone
<1>4. Registered(s) \subseteq Node /\ DOMAIN s.tokens = UNION {TokensOf(m) : m \in Registered(s)}
  BY <1>1, <1>2, TokenFacts DEF GoodRing
<1>5. \A m \in Registered(s) : \A p \in TokensOf(m) : s.tokens[p] = m
  BY <1>1, <1>4 DEF GoodRing
<1> QED  BY <1>1, <1>3, <1>4, <1>5 DEF GoodRing, s

\* Get finds the nearest token and returns the node whose it is.
LEMMA GetFacts ==
  ASSUME NoCollisions, token \in Placements, NEW r, GoodRing(r), NEW k \in Key
  PROVE  /\ Held(r) = DOMAIN r.tokens /\ Held(r) \subseteq Position
         /\ Registered(r) = {} => Get(r, k) = NoNode
         /\ Registered(r) # {} => \E c :
              /\ IsNearest(Held(r), Hash[k], c)
              /\ Get(r, k) = r.tokens[c] /\ Get(r, k) \in Registered(r)
              /\ c \in TokensOf(Get(r, k))
<1>1. Held(r) = DOMAIN r.tokens /\ Held(r) \subseteq Position
  BY TokenFacts DEF GoodRing, Held
<1>2. Registered(r) = {} => Get(r, k) = NoNode
  BY <1>1 DEF Get, GoodRing
<1>3. ASSUME Registered(r) # {}
      PROVE  \E c : /\ IsNearest(Held(r), Hash[k], c)
                    /\ Get(r, k) = r.tokens[c] /\ Get(r, k) \in Registered(r)
                    /\ c \in TokensOf(Get(r, k))
  <2> DEFINE c == Clockwise(Held(r), Hash[k])
  <2>1. Held(r) # {} /\ Hash[k] \in Position
    BY <1>1, <1>3, TokenFacts, RingAssumption DEF GoodRing
  <2>2. IsNearest(Held(r), Hash[k], c)
    BY <1>1, <2>1, ClockwiseIsNearest
  <2>3. c \in DOMAIN r.tokens
    BY <1>1, <2>2 DEF IsNearest
  <2>4. Get(r, k) = r.tokens[c]
    BY <2>1, <2>3 DEF Get, NodeAt
  <2> HIDE DEF c
  <2>5. PICK n \in Registered(r) : c \in TokensOf(n)
    BY <2>3 DEF GoodRing
  <2>6. r.tokens[c] = n
    BY <2>5 DEF GoodRing
  <2> QED  BY <2>2, <2>4, <2>5, <2>6
<1> QED  BY <1>1, <1>2, <1>3

-----------------------------------------------------------------------------
(* The rings that main builds. *)

\* What the recursion of AddAll has computed up to the m-th node of ids.
Adds(f, r, ids, m) ==
  f = [i \in 0..m |-> IF i = 0 THEN r ELSE Add(f[i - 1], ids[i], AddrOf[ids[i]])]

\* A set of natural numbers that has 0, and i + 1 when it has i < n, has all up
\* to n.
LEMMA UpTo ==
  ASSUME NEW n \in Nat, NEW S, 0 \in S, \A i \in 0..n : i < n /\ i \in S => i + 1 \in S
  PROVE  n \in S
<1> DEFINE B == {i \in 0..n : i \notin S}
<1>1. SUFFICES ASSUME B # {} PROVE FALSE
  OBVIOUS
<1>2. B \in SUBSET Nat
  OBVIOUS
<1>3. Least(B) \in B /\ \A q \in B : Least(B) =< q
  BY <1>1, <1>2, LeastIs
<1>4. PICK b \in B : \A q \in B : b =< q
  BY <1>3
<1>5. b # 0 /\ b - 1 \in 0..n /\ b - 1 \notin B
  BY <1>4
<1> QED  BY <1>4, <1>5

\* The recursion is well defined.
LEMMA AddsExists ==
  ASSUME NEW r, NEW ids, NEW n \in Nat
  PROVE  \E f : Adds(f, r, ids, n)
<1> DEFINE S == {m \in Nat : \E f : Adds(f, r, ids, m)}
<1>1. 0 \in S
  <2>1. Adds([i \in 0..0 |-> r], r, ids, 0)
    BY DEF Adds
  <2> QED  BY <2>1
<1>2. ASSUME NEW m \in 0..n, m \in S PROVE m + 1 \in S
  <2>1. PICK f : Adds(f, r, ids, m)
    BY <1>2
  <2> DEFINE g == [i \in 0..(m + 1) |-> IF i =< m THEN f[i] ELSE Add(f[m], ids[i], AddrOf[ids[i]])]
             h == [i \in 0..(m + 1) |-> IF i = 0 THEN r ELSE Add(g[i - 1], ids[i], AddrOf[ids[i]])]
  <2>2. f[0] = r /\ \A i \in 1..m : f[i] = Add(f[i - 1], ids[i], AddrOf[ids[i]])
    BY <2>1, SMTT(30) DEF Adds
  <2>3. ASSUME NEW i \in 0..(m + 1) PROVE g[i] = h[i]
    <3>1. CASE i = 0
      BY <2>2, <3>1
    <3>2. CASE i \in 1..m
      <4>1. g[i] = f[i] /\ g[i - 1] = f[i - 1]
        BY <3>2
      <4> QED  BY <2>2, <3>2, <4>1
    <3>3. CASE i = m + 1
      <4>1. g[m] = f[m] /\ i - 1 = m /\ i # 0 /\ ~(i =< m)
        BY <3>3
      <4> QED  BY <4>1
    <3> QED  BY <3>1, <3>2, <3>3
  <2>4. g = h
    BY <2>3
  <2>5. Adds(g, r, ids, m + 1)
    BY <2>4, Zenon DEF Adds
  <2> HIDE DEF g
  <2> QED  BY <2>5
<1> HIDE DEF S
<1>3. n \in S
  BY <1>1, <1>2, UpTo
<1> QED  BY <1>3 DEF S

\* Adding different nodes to a new ring makes a ring of exactly these nodes.
LEMMA AddAllGood ==
  ASSUME NoCollisions, token \in Placements, NEW ids \in Seq(Node), IsInjective(ids)
  PROVE  /\ GoodRing(AddAll(NewRing, ids))
         /\ Registered(AddAll(NewRing, ids)) = {ids[i] : i \in 1..Len(ids)}
<1> DEFINE n == Len(ids)
           f == CHOOSE g : Adds(g, NewRing, ids, n)
           S == {m \in 0..n : /\ GoodRing(f[m])
                              /\ Registered(f[m]) = {ids[i] : i \in 1..m}}
<1>1. n \in Nat /\ DOMAIN ids = 1..n
  OBVIOUS
<1>2. AddAll(NewRing, ids) = f[n]
  BY DEF AddAll, Adds
<1>3. Adds(f, NewRing, ids, n)
  BY <1>1, AddsExists, Zenon
<1> HIDE DEF n, f
<1>4. f[0] = NewRing /\ \A i \in 1..n : f[i] = Add(f[i - 1], ids[i], AddrOf[ids[i]])
  BY <1>1, <1>3 DEF Adds
<1>5. 0 \in S
  BY <1>1, <1>4, NewRingGood DEF NewRing, Registered
<1>6. ASSUME NEW m \in 0..n, m < n, m \in S PROVE m + 1 \in S
  <2>1. /\ m + 1 \in 1..n /\ ids[m + 1] \in Node
        /\ f[m + 1] = Add(f[m], ids[m + 1], AddrOf[ids[m + 1]])
    BY <1>1, <1>4, <1>6
  <2>2. ids[m + 1] \notin Registered(f[m])
    BY <1>1, <1>6, <2>1 DEF IsInjective
  <2>3. GoodRing(f[m + 1]) /\ Registered(f[m + 1]) = Registered(f[m]) \cup {ids[m + 1]}
    BY <1>6, <2>1, <2>2, AddGood
  <2>4. {ids[i] : i \in 1..(m + 1)} = {ids[i] : i \in 1..m} \cup {ids[m + 1]}
    BY <1>1, <1>6
  <2> QED  BY <1>1, <1>6, <2>1, <2>3, <2>4
<1> HIDE DEF S
<1>7. n \in S
  BY <1>1, <1>5, <1>6, UpTo
<1> QED  BY <1>2, <1>7 DEF S, n

\* What a node has on its ring after main.
LEMMA NodeRingGood ==
  ASSUME NoCollisions, token \in Placements, NEW self \in Node, NEW peers \in PeersOf(self)
  PROVE  GoodRing(NodeRing(self, peers)) /\ self \in Registered(NodeRing(self, peers))
<1> DEFINE ids == <<self>> \o peers
<1>1. peers \in Seq(Node) /\ IsInjective(ids)
  BY RoutingAssumption DEF PeersOf
<1>2. ids \in Seq(Node) /\ 1 \in 1..Len(ids) /\ ids[1] = self
  BY <1>1
<1> HIDE DEF ids
<1>3. GoodRing(AddAll(NewRing, ids)) /\ Registered(AddAll(NewRing, ids)) = {ids[i] : i \in 1..Len(ids)}
  BY <1>1, <1>2, AddAllGood
<1> QED  BY <1>2, <1>3 DEF NodeRing, ids

-----------------------------------------------------------------------------
\* The router changes its ring by Add and Remove alone.
LEMMA RouterKeepsRing == [RoutingNext]_<<vars, rvars>> => [RingNext]_vars
BY Zenon DEF RoutingNext, Change, SetLeader, UpdateNodeHealth, RouteStart, RouteOwner, RouteHealth,
       ValidateOwnership, Return, vars

\* A ring keeps being what its registered nodes make of it.
LEMMA RingStep ==
  ASSUME OnceEach, RingInv, [RingNext]_vars
  PROVE  RingInv'
<1>1. token' = token
  BY DEF RingNext, vars
<1>2. GoodRing(ring')
  BY AddGood, RemoveGood DEF OnceEach, RingInv, RingNext, vars
<1> QED  BY <1>1, <1>2 DEF RingInv, GoodRing, TokensOf, Registered

\* RingInv holds in every reachable state, of a ring by itself and of the ring
\* of a router.
LEMMA RingAlways ==
  ASSUME OnceEach
  PROVE  (Spec => []RingInv) /\ (RoutingSpec => []RingInv)
<1>1. Init => RingInv
  BY NewRingGood DEF Init, RingInv
<1>2. RingInv /\ [RingNext]_vars => RingInv'
  BY RingStep
<1>3. RoutingInit => RingInv
  BY NodeRingGood DEF RoutingInit, RingInv, OnceEach
<1>4. [RoutingNext]_<<vars, rvars>> => [RingNext]_vars
  BY RouterKeepsRing
<1>5. Spec => []RingInv
  BY <1>1, <1>2, PTL DEF Spec
<1>6. RoutingSpec => []RingInv
  BY <1>2, <1>3, <1>4, PTL DEF RoutingSpec
<1> QED  BY <1>5, <1>6

\* The map and the sorted list hold exactly the tokens of the registered nodes,
\* after any sequence of Add and Remove.
THEOREM ListMatchesMapHolds ==
  ASSUME OnceEach
  PROVE  (Spec => []ListMatchesMap) /\ (RoutingSpec => []ListMatchesMap)
<1>1. RingInv => ListMatchesMap
  BY TokenFacts DEF OnceEach, RingInv, GoodRing, ListMatchesMap, Held
<1> QED  BY <1>1, RingAlways, PTL

\* Get returns the registered node whose token is nearest clockwise of the key,
\* in whatever order the nodes were added and removed: rings with the same
\* nodes route alike.
THEOREM OwnerIsNearestHolds ==
  ASSUME OnceEach
  PROVE  (Spec => []OwnerIsNearest) /\ (RoutingSpec => []OwnerIsNearest)
<1>1. ASSUME RingInv, Registered(ring) # {}, NEW k \in Key
      PROVE  /\ Get(ring, k) \in Registered(ring)
             /\ \E p \in TokensOf(Get(ring, k)) :
                  \A m \in Registered(ring) : \A q \in TokensOf(m) :
                    Distance(Hash[k], p) =< Distance(Hash[k], q)
  <2>1. Held(ring) = UNION {TokensOf(n) : n \in Registered(ring)}
    BY <1>1, GetFacts DEF OnceEach, RingInv, GoodRing
  <2>2. PICK c : /\ IsNearest(Held(ring), Hash[k], c) /\ Get(ring, k) \in Registered(ring)
                 /\ c \in TokensOf(Get(ring, k))
    BY <1>1, GetFacts DEF OnceEach, RingInv
  <2> QED  BY <2>1, <2>2 DEF IsNearest
<1>2. RingInv => OwnerIsNearest
  BY <1>1, SMTT(30) DEF OwnerIsNearest
<1> QED  BY <1>2, RingAlways, PTL

\* Two rings, one with the tokens of the other and more: a key whose nearest
\* token on the larger ring is on the smaller one has the same owner on both.
LEMMA SameOwner ==
  ASSUME NoCollisions, token \in Placements, NEW r, NEW s, GoodRing(r), GoodRing(s),
         Registered(r) \subseteq Registered(s), Registered(r) # {}, NEW k \in Key,
         Get(s, k) \in Registered(r)
  PROVE  Get(r, k) = Get(s, k)
<1>1. /\ Held(r) = UNION {TokensOf(n) : n \in Registered(r)}
      /\ Held(s) = UNION {TokensOf(n) : n \in Registered(s)}
      /\ Held(r) \subseteq Position /\ Hash[k] \in Position
  BY GetFacts, RingAssumption, Zenon DEF GoodRing
<1>2. PICK c : /\ IsNearest(Held(r), Hash[k], c) /\ Get(r, k) = r.tokens[c]
  BY GetFacts
<1>3. PICK d : /\ IsNearest(Held(s), Hash[k], d) /\ d \in TokensOf(Get(s, k))
  <2>1. Registered(s) # {}
    OBVIOUS
  <2> QED  BY <2>1, GetFacts
<1>4. d \in Held(r) /\ Held(r) \subseteq Held(s)
  BY <1>1, <1>3
<1>5. IsNearest(Held(r), Hash[k], d)
  BY <1>3, <1>4 DEF IsNearest
<1>6. c = d
  BY <1>1, <1>2, <1>5, NearestIsUnique
<1> QED  BY <1>2, <1>3, <1>6, SMTT(30) DEF GoodRing

\* Adding or removing a node moves only keys to the node that joined or from
\* the node that left.
THEOREM MinimalRemappingHolds ==
  ASSUME OnceEach
  PROVE  (Spec => MinimalRemapping) /\ (RoutingSpec => MinimalRemapping)
<1> DEFINE Moved(k) ==
      \/ Get(ring', k) = Get(ring, k)
      \/ Get(ring', k) \in Registered(ring') \ Registered(ring)
      \/ Get(ring, k) \in Registered(ring) \ Registered(ring')
      \/ Get(ring, k) = NoNode
<1>1. ASSUME RingInv, RingNext, NEW k \in Key PROVE Moved(k)
  <2> USE <1>1 DEF OnceEach, RingInv
  <2>1. PICK n \in Node :
          \/ n \notin Registered(ring) /\ \E addr \in Addr : ring' = Add(ring, n, addr)
          \/ ring' = Remove(ring, n)
    BY DEF RingNext
  <2>2. CASE n \notin Registered(ring) /\ \E addr \in Addr : ring' = Add(ring, n, addr)
    <3>1. GoodRing(ring') /\ Registered(ring') = Registered(ring) \cup {n}
      BY <2>2, AddGood
    <3>2. CASE Registered(ring) = {}
      BY <3>2, GetFacts
    <3>3. CASE Registered(ring) # {}
      <4>1. Get(ring', k) \in Registered(ring')
        BY <3>1, <3>3, GetFacts
      <4> QED  BY <2>2, <3>1, <3>3, <4>1, SameOwner
    <3> QED  BY <3>2, <3>3
  <2>3. CASE ring' = Remove(ring, n)
    <3>1. GoodRing(ring') /\ Registered(ring') = Registered(ring) \ {n}
      BY <2>3, RemoveGood
    <3>2. CASE Registered(ring) = {}
      BY <3>2, GetFacts
    <3>3. CASE Registered(ring) # {}
      <4>1. Get(ring, k) \in Registered(ring)
        BY <3>3, GetFacts
      <4>2. CASE Get(ring, k) \in Registered(ring')
        BY <3>1, <4>1, <4>2, SameOwner
      <4> QED  BY <4>1, <4>2
    <3> QED  BY <3>2, <3>3
  <2> QED  BY <2>1, <2>2, <2>3
<1> DEFINE A == ring' # ring => \A k \in Key : Moved(k)
<1>2. RingInv /\ [RingNext]_vars => [A]_vars
  BY <1>1
<1> HIDE DEF A
<1>3. [RoutingNext]_<<vars, rvars>> => [RingNext]_vars
  BY RouterKeepsRing
<1>4. (Spec => [][A]_vars) /\ (RoutingSpec => [][A]_vars)
  BY <1>2, <1>3, RingAlways, PTL DEF Spec, RoutingSpec
<1> QED  BY <1>4 DEF A, MinimalRemapping

-----------------------------------------------------------------------------
(* Route and ValidateOwnership. *)

\* The owners noted for a request have the node it is sent to, and before Route
\* has read the ring the node that it would read.
OwnersNoted(q) ==
  /\ q.pc \in {"ring", "health", "send"} => q.key \in Key
  /\ q.pc \in {"health", "send"} => q.to \in q.owners

\* The inductive invariant of a request under way.
RouteInv ==
  /\ DOMAIN req = DOMAIN NoRequest
  /\ OwnersNoted(req)
  /\ req.pc = "ring" => Get(ring, req.key) \in req.owners

\* A request keeps its shape and its owners in every step of the router.
LEMMA RouteStep ==
  ASSUME RouteInv, [RoutingNext]_<<vars, rvars>>
  PROVE  RouteInv'
<1> USE DEF RouteInv, OwnersNoted
<1>1. CASE Change
  BY <1>1 DEF Change, Routing, NoRequest
<1>2. CASE \E b \in BOOLEAN : SetLeader(b)
  BY <1>2 DEF SetLeader, NoRequest
<1>3. CASE \E n \in Node, b \in BOOLEAN : UpdateNodeHealth(n, b)
  BY <1>3 DEF UpdateNodeHealth, NoRequest
<1>4. CASE \E k \in Key : RouteStart(k)
  <2>1. PICK k \in Key : RouteStart(k)
    BY <1>4
  <2>2. /\ ring' = ring /\ DOMAIN req' = DOMAIN NoRequest
        /\ \/ req'.pc = "ring" /\ req'.key = k /\ req'.owners = {Get(ring, k)}
           \/ req'.pc = "done"
    BY <2>1, Zenon DEF RouteStart, Finish, NoRequest
  <2> QED  BY <2>2 DEF NoRequest
<1>5. CASE RouteOwner
  BY <1>5, Zenon DEF RouteOwner, Finish, NoRequest
<1>6. CASE RouteHealth
  BY <1>6, Zenon DEF RouteHealth, Finish, NoRequest
<1>7. CASE \E peers \in PeersOf(req.to) : ValidateOwnership(peers)
  BY <1>7 DEF ValidateOwnership, NoRequest
<1>8. CASE Return
  BY <1>8 DEF Return, NoRequest
<1>9. CASE UNCHANGED <<vars, rvars>>
  BY <1>9 DEF vars, rvars, NoRequest
<1> QED  BY <1>1, <1>2, <1>3, <1>4, <1>5, <1>6, <1>7, <1>8, <1>9, Zenon DEF RoutingNext

\* A request is only sent to a node that owned its key at some moment of the
\* call, whatever happens to the ring and to the health of the nodes meanwhile,
\* and whether tokens collide or nodes are added twice.
THEOREM NeverReroutedHolds == RoutingSpec => []NeverRerouted
<1>1. RoutingInit => RouteInv
  BY SMTT(30) DEF RoutingInit, RouteInv, OwnersNoted, NoRequest
<1>2. RouteInv /\ [RoutingNext]_<<vars, rvars>> => RouteInv'
  BY RouteStep
<1>3. RouteInv => NeverRerouted
  BY DEF RouteInv, OwnersNoted, NeverRerouted
<1> QED  BY <1>1, <1>2, <1>3, PTL DEF RoutingSpec

\* Rings of the same nodes route alike, in whatever order the nodes came.
LEMMA SameNodesSameOwner ==
  ASSUME NoCollisions, token \in Placements, NEW r, NEW s, GoodRing(r), GoodRing(s),
         Registered(r) = Registered(s), NEW k \in Key
  PROVE  Get(r, k) = Get(s, k)
<1>1. CASE Registered(r) = {}
  BY <1>1, GetFacts, Zenon
<1>2. CASE Registered(r) # {}
  <2>1. Get(s, k) \in Registered(r)
    BY <1>2, GetFacts
  <2> QED  BY <1>2, <2>1, SameOwner
<1> QED  BY <1>1, <1>2

\* The node a request goes to owns its key on every ring of the nodes that
\* Route saw.
Routed(q) ==
  /\ q.pc # "done" => q.err = "none"
  /\ q.pc \in {"health", "send"} =>
       /\ q.to \in Node
       /\ \E r : GoodRing(r) /\ Registered(r) = q.from /\ Get(r, q.key) = q.to

\* The inductive invariant with what the receiver finds.
StaleInv == RingInv /\ RouteInv /\ Routed(req) /\ MismatchMeansStale

\* No step of the router breaks it.
LEMMA StaleStep ==
  ASSUME OnceEach, StaleInv, [RoutingNext]_<<vars, rvars>>
  PROVE  StaleInv'
<1> USE DEF StaleInv
<1>1. [RingNext]_vars
  BY RouterKeepsRing
<1>2. RingInv' /\ RouteInv' /\ token' = token
  BY <1>1, RingStep, RouteStep DEF RingNext, vars
<1> DEFINE Goal == Routed(req') /\ MismatchMeansStale'
<1>3. ASSUME Change PROVE Goal
  BY <1>3 DEF Change, Routed, MismatchMeansStale, RouteInv, NoRequest
<1>4. ASSUME RouteOwner PROVE Goal
  <2>1. CASE Held(ring) = {}
    BY <1>4, <2>1, Zenon DEF RouteOwner, Finish, NoRequest, Routed, MismatchMeansStale
  <2>2. CASE Held(ring) # {}
    <3>1. GoodRing(ring) /\ NoCollisions /\ token \in Placements /\ req.key \in Key
      BY <1>4, Zenon DEF RingInv, OnceEach, RouteInv, OwnersNoted, RouteOwner
    <3>2. Registered(ring) # {}
      BY <2>2, <3>1, GetFacts, SMTT(30) DEF GoodRing
    <3>3. Get(ring, req.key) \in Node
      BY <3>1, <3>2, GetFacts, Zenon DEF GoodRing
    <3>4. /\ req'.err = "none" /\ req'.to = Get(ring, req.key) /\ req'.from = Registered(ring)
          /\ req'.key = req.key
      BY <1>4, <2>2, Zenon DEF RouteOwner, RouteInv, NoRequest, Routed
    <3>5. Routed(req')
      BY <3>1, <3>3, <3>4, Zenon DEF Routed
    <3> QED  BY <3>4, <3>5 DEF MismatchMeansStale
  <2> QED  BY <2>1, <2>2
<1>5. ASSUME NEW peers \in PeersOf(req.to), ValidateOwnership(peers) PROVE Goal
  <2> DEFINE own == NodeRing(req.to, peers)
  <2>1. NoCollisions /\ token \in Placements /\ req.key \in Key /\ req.to \in Node
    BY <1>5 DEF RingInv, OnceEach, RouteInv, OwnersNoted, Routed, ValidateOwnership
  <2>2. PICK r : GoodRing(r) /\ Registered(r) = req.from /\ Get(r, req.key) = req.to
    BY <1>5 DEF Routed, ValidateOwnership
  <2>3. GoodRing(own)
    BY <1>5, <2>1, NodeRingGood
  <2>4. /\ req'.pc = "done" /\ req'.from = req.from /\ req'.at = Registered(own)
        /\ req'.err = IF Get(own, req.key) = req.to THEN "none" ELSE "mismatch"
    BY <1>5, SMTT(30) DEF ValidateOwnership, NoRequest
  <2> HIDE DEF own
  <2>5. Registered(own) = req.from => Get(own, req.key) = req.to
    BY <2>1, <2>2, <2>3, SameNodesSameOwner
  <2> QED  BY <2>4, <2>5, Zenon DEF Routed, MismatchMeansStale
<1>6. ASSUME NEW k \in Key, RouteStart(k) PROVE Goal
  BY <1>6, Zenon DEF RouteStart, Finish, NoRequest, Routed, MismatchMeansStale
<1>7. ASSUME RouteHealth PROVE Goal
  BY <1>7, Zenon DEF RouteHealth, Finish, NoRequest, Routed, MismatchMeansStale, RouteInv
<1>8. ASSUME Return PROVE Goal
  BY <1>8, Zenon DEF Return, NoRequest, Routed, MismatchMeansStale
<1>9. ASSUME req' = req PROVE Goal
  BY <1>9, SMTT(30) DEF Routed, MismatchMeansStale
<1> HIDE DEF Goal
<1>10. Goal
  BY <1>3, <1>4, <1>5, <1>6, <1>7, <1>8, <1>9
     DEF RoutingNext, SetLeader, UpdateNodeHealth, rvars
<1>11. \A r : GoodRing(r) => GoodRing(r)'
  BY <1>2 DEF GoodRing, TokensOf, Registered
<1>12. Routed(req)'
  BY <1>10, <1>11, Zenon DEF Goal, Routed, Registered, Get, Held, NodeAt
<1> QED  BY <1>2, <1>10, <1>12 DEF Goal

\* The router and the receiver disagree on the owner of a key only when they
\* have different sets of nodes, never because they registered the same nodes
\* in different orders.
THEOREM MismatchMeansStaleHolds ==
  ASSUME OnceEach
  PROVE  RoutingSpec => []MismatchMeansStale
<1>1. RoutingInit => StaleInv
  <2> SUFFICES ASSUME RoutingInit PROVE StaleInv
    OBVIOUS
  <2>1. RingInv
    BY NodeRingGood DEF RoutingInit, RingInv, OnceEach
  <2>2. RouteInv /\ Routed(req) /\ MismatchMeansStale
    BY Zenon DEF RoutingInit, RouteInv, OwnersNoted, Routed, MismatchMeansStale, NoRequest
  <2> QED  BY <2>1, <2>2 DEF StaleInv
<1>2. StaleInv /\ [RoutingNext]_<<vars, rvars>> => StaleInv'
  BY StaleStep
<1>3. StaleInv => MismatchMeansStale
  BY DEF StaleInv
<1> QED  BY <1>1, <1>2, <1>3, PTL DEF RoutingSpec
=============================================================================
