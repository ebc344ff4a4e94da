--------------------------- MODULE EvictionProofs ---------------------------
(***************************************************************************)
(* Proofs about EvictionPolicies, for every set of keys, every capacity and  *)
(* every bound: WellFormed, and that the list and the heaps implement        *)
(* PolicySpec (ImplementsPolicy).                                            *)
(*                                                                           *)
(* The invariant has two parts.  For the list (Holds) there is a sequence    *)
(* of different keys that the pointers lead through in both directions;      *)
(* insertAtFront puts a key in front of it and removeNode takes one out,     *)
(* which is what the abstract LRU does with its sequence.  For the heaps     *)
(* (HeapOK) the array and the index fields are inverse to each other, and    *)
(* no value is less than that of its parent.                                 *)
(*                                                                           *)
(* Between two calls the heap is in order; inside up and down it is not.     *)
(* Loose says what is left of the order while one entry is out of place: the *)
(* other pairs are in order, and the children of that entry are not less     *)
(* than its parent.  A pass of either loop keeps this and moves the place,   *)
(* so a loop ends after at most as many passes as there are positions.       *)
(***************************************************************************)
EXTENDS EvictionPolicies, SequenceLemmas

-----------------------------------------------------------------------------
(* The list. *)

\* The i-th node of the list that holds the keys s between the sentinels.
NodeAt(s, i) == IF i = 0 THEN head ELSE IF i = Len(s) + 1 THEN tail ELSE s[i]

\* The pointers l lead through s, forward and backward.
Linked(l, s) ==
  /\ l = [next |-> l.next, prev |-> l.prev]
  /\ l.next \in [Node -> Node \cup {None}] /\ l.prev \in [Node -> Node \cup {None}]
  /\ s \in Seq(Key) /\ Distinct(s)
  /\ \A i \in 0..Len(s) :
       l.next[NodeAt(s, i)] = NodeAt(s, i + 1) /\ l.prev[NodeAt(s, i + 1)] = NodeAt(s, i)

\* The nodes between and including the sentinels are different nodes.
LEMMA NodesDiffer ==
  ASSUME NEW s \in Seq(Key), Distinct(s)
  PROVE  /\ \A i \in 0..(Len(s) + 1) : NodeAt(s, i) \in Node
         /\ \A i, j \in 0..(Len(s) + 1) : NodeAt(s, i) = NodeAt(s, j) => i = j
<1>1. \A i \in 1..Len(s) : s[i] \in Key /\ s[i] # head /\ s[i] # tail
  BY LRUAssumption
<1>2. head # tail /\ Len(s) \in Nat
  BY LRUAssumption
<1>3. \A i \in 0..(Len(s) + 1) : i = 0 \/ i = Len(s) + 1 \/ i \in 1..Len(s)
  BY <1>2
<1>4. 0 # Len(s) + 1
  BY <1>2
<1>5. \A i \in 1..Len(s) : i # 0 /\ i # Len(s) + 1
  BY <1>2
<1>6. \A i \in 0..(Len(s) + 1) : NodeAt(s, i) \in Node
  BY <1>1, <1>2, <1>3, Zenon DEF NodeAt, Node
<1>7. ASSUME NEW i \in 0..(Len(s) + 1), NEW j \in 0..(Len(s) + 1), NodeAt(s, i) = NodeAt(s, j)
      PROVE  i = j
  BY <1>1, <1>2, <1>3, <1>4, <1>5, <1>7, Zenon DEF NodeAt, Distinct
<1> QED  BY <1>6, <1>7

\* insertAtFront puts a new key before the others.
LEMMA InsertLinks ==
  ASSUME NEW l, NEW s, Linked(l, s), NEW k \in Key, k \notin Range(s)
  PROVE  Linked(insertAtFront(l, k), <<k>> \o s)
<1> DEFINE t == <<k>> \o s
           m == insertAtFront(l, k)
           f == NodeAt(s, 1)
<1>0. /\ l.next \in [Node -> Node \cup {None}] /\ l.prev \in [Node -> Node \cup {None}]
      /\ s \in Seq(Key) /\ Distinct(s) /\ Len(s) \in Nat
  BY DEF Linked
<1>1. /\ t \in Seq(Key) /\ Len(t) = Len(s) + 1
      /\ \A j \in 1..Len(t) : t[j] = IF j = 1 THEN k ELSE s[j - 1]
  BY <1>0
<1>2. Distinct(t)
  BY <1>0, ConsSet
<1>3. k \in Node /\ head \in Node /\ tail \in Node /\ k # head /\ k # tail /\ head # tail
  BY LRUAssumption DEF Node
<1>4. /\ \A i \in 0..(Len(s) + 1) : NodeAt(s, i) \in Node
      /\ \A i, j \in 0..(Len(s) + 1) : NodeAt(s, i) = NodeAt(s, j) => i = j
  BY <1>0, NodesDiffer, Zenon
<1>5. /\ NodeAt(t, 0) = head /\ NodeAt(t, 1) = k
      /\ \A i \in 1..(Len(s) + 1) : NodeAt(t, i + 1) = NodeAt(s, i)
  <2> HIDE DEF t
  <2> QED  BY <1>0, <1>1 DEF NodeAt
<1>6. \A i \in 0..Len(s) :
        l.next[NodeAt(s, i)] = NodeAt(s, i + 1) /\ l.prev[NodeAt(s, i + 1)] = NodeAt(s, i)
  BY DEF Linked
<1>7. NodeAt(s, 0) = head /\ l.next[head] = f /\ f \in Node /\ f # head
  <2>1. NodeAt(s, 0) = head /\ 0 \in 0..Len(s) /\ 0 + 1 = 1 /\ 1 \in 0..(Len(s) + 1)
        /\ 0 \in 0..(Len(s) + 1) /\ 0 # 1
    BY <1>0 DEF NodeAt
  <2> HIDE DEF f
  <2>2. l.next[head] = f
    BY <1>6, <2>1 DEF f
  <2> QED  BY <1>4, <2>1, <2>2, Zenon DEF f
<1>8. \A i \in 0..(Len(s) + 1) : NodeAt(s, i) # k
  BY <1>0, <1>3 DEF NodeAt, Range
<1> HIDE DEF t, f
<1>9. m.next = [l.next EXCEPT ![k] = f, ![head] = k] /\ m.prev = [l.prev EXCEPT ![k] = head, ![f] = k]
      /\ m = [next |-> m.next, prev |-> m.prev]
  BY <1>7 DEF insertAtFront
<1>10. /\ m.next \in [Node -> Node \cup {None}] /\ m.prev \in [Node -> Node \cup {None}]
       /\ m.next[k] = f /\ m.next[head] = k /\ m.prev[k] = head /\ m.prev[f] = k
       /\ \A n \in Node : n # k /\ n # head => m.next[n] = l.next[n]
       /\ \A n \in Node : n # k /\ n # f => m.prev[n] = l.prev[n]
  <2>1. f # k
    BY <1>0, <1>8 DEF f
  <2> HIDE DEF m
  <2> QED  BY <1>0, <1>3, <1>7, <1>9, <2>1, SMTT(30)
<1> HIDE DEF m
<1>11. ASSUME NEW i \in 0..Len(t)
       PROVE  m.next[NodeAt(t, i)] = NodeAt(t, i + 1) /\ m.prev[NodeAt(t, i + 1)] = NodeAt(t, i)
  <2>1. CASE i = 0
    BY <1>5, <1>10, <2>1
  <2>2. CASE i = 1
    <3>1. NodeAt(t, 1 + 1) = f
      BY <1>0, <1>5 DEF f
    <3> QED  BY <1>5, <1>10, <2>2, <3>1
  <2>3. CASE i > 1
    <3>1. i - 1 \in 0..Len(s) /\ (i - 1) + 1 = i /\ i \in 1..(Len(s) + 1) /\ i - 1 \in 1..(Len(s) + 1)
          /\ i - 1 # 0 /\ i # 1
          /\ i \in 0..(Len(s) + 1) /\ i - 1 \in 0..(Len(s) + 1)
           /\ 0 \in 0..(Len(s) + 1) /\ 1 \in 0..(Len(s) + 1)
      BY <1>0, <1>1, <2>3
    <3>2. NodeAt(t, i) = NodeAt(s, i - 1) /\ NodeAt(t, i + 1) = NodeAt(s, i)
      BY <1>5, <3>1, Zenon
    <3>3. l.next[NodeAt(s, i - 1)] = NodeAt(s, i) /\ l.prev[NodeAt(s, i)] = NodeAt(s, i - 1)
      BY <1>6, <3>1, Zenon
    <3>4. NodeAt(s, i - 1) # head /\ NodeAt(s, i) # f
      BY <1>4, <1>7, <3>1, Zenon DEF f
    <3>5. m.next[NodeAt(s, i - 1)] = l.next[NodeAt(s, i - 1)] /\ m.prev[NodeAt(s, i)] = l.prev[NodeAt(s, i)]
      BY <1>4, <1>8, <1>10, <3>1, <3>4, Zenon
    <3> QED  BY <3>2, <3>3, <3>5, Zenon
  <2> QED  BY <1>0, <1>1, <2>1, <2>2, <2>3
<1> QED  BY <1>1, <1>2, <1>9, <1>10, <1>11, Zenon DEF Linked, t, m

\* removeNode takes a key out of the order and leaves the others as they are.
LEMMA RemoveLinks ==
  ASSUME NEW l, NEW s, Linked(l, s), NEW p \in 1..Len(s)
  PROVE  Linked(removeNode(l, s[p]), Cut(s, p))
<1> DEFINE t == Cut(s, p)
           m == removeNode(l, s[p])
           x == NodeAt(s, p - 1)
           k == s[p]
           y == NodeAt(s, p + 1)
<1>0. /\ l.next \in [Node -> Node \cup {None}] /\ l.prev \in [Node -> Node \cup {None}]
      /\ s \in Seq(Key) /\ Distinct(s) /\ Len(s) \in Nat
  BY DEF Linked
<1>1. /\ t \in Seq(Key) /\ Len(t) = Len(s) - 1
      /\ \A j \in 1..Len(t) : t[j] = IF j < p THEN s[j] ELSE s[j + 1]
  BY <1>0, CutIs
<1>2. Distinct(t)
  BY <1>0, CutSet
<1>3. /\ \A i \in 0..(Len(s) + 1) : NodeAt(s, i) \in Node
      /\ \A i, j \in 0..(Len(s) + 1) : NodeAt(s, i) = NodeAt(s, j) => i = j
  BY <1>0, NodesDiffer, Zenon
<1>4. p - 1 \in 0..Len(s) /\ p \in 0..Len(s) /\ (p - 1) + 1 = p
      /\ p - 1 \in 0..(Len(s) + 1) /\ p \in 0..(Len(s) + 1) /\ p + 1 \in 0..(Len(s) + 1)
      /\ p - 1 # p /\ p # p + 1 /\ p - 1 # p + 1
  BY <1>0
<1>5. k = NodeAt(s, p)
  BY <1>0 DEF NodeAt
<1>6. \A i \in 0..Len(s) :
        l.next[NodeAt(s, i)] = NodeAt(s, i + 1) /\ l.prev[NodeAt(s, i + 1)] = NodeAt(s, i)
  BY DEF Linked
<1>7. l.next[x] = k /\ l.prev[k] = x /\ l.next[k] = y /\ l.prev[y] = k
  BY <1>4, <1>5, <1>6, Zenon
<1>8. /\ \A i \in 0..(Len(s) - 1) : i < p => NodeAt(t, i) = NodeAt(s, i)
      /\ \A i \in 0..Len(s) : i >= p => NodeAt(t, i) = NodeAt(s, i + 1)
  <2> HIDE DEF t
  <2>1. ASSUME NEW i \in 0..(Len(s) - 1), i < p PROVE NodeAt(t, i) = NodeAt(s, i)
    BY <1>0, <1>1, <2>1 DEF NodeAt
  <2>2. ASSUME NEW i \in 0..Len(s), i >= p PROVE NodeAt(t, i) = NodeAt(s, i + 1)
    <3>1. i # 0 /\ i + 1 # 0 /\ (i = Len(t) + 1 <=> i + 1 = Len(s) + 1)
      BY <1>0, <1>1, <2>2
    <3>2. CASE i = Len(t) + 1
      BY <3>1, <3>2 DEF NodeAt
    <3>3. CASE i # Len(t) + 1
      <4>1. i \in 1..Len(t) /\ ~(i < p)
        BY <1>0, <1>1, <2>2, <3>3
      <4>2. t[i] = s[i + 1]
        BY <1>1, <4>1
      <4> QED  BY <3>1, <3>3, <4>2 DEF NodeAt
    <3> QED  BY <3>2, <3>3
  <2> QED  BY <2>1, <2>2
<1>9. x \in Node /\ k \in Node /\ y \in Node /\ x # k /\ k # y /\ x # y
  <2> HIDE DEF k
  <2> QED  BY <1>3, <1>4, <1>5, Zenon
<1> HIDE DEF t, x, k, y
<1>10. m.next = [l.next EXCEPT ![x] = y, ![k] = None] /\ m.prev = [l.prev EXCEPT ![y] = x, ![k] = None]
       /\ m = [next |-> m.next, prev |-> m.prev]
  BY <1>7 DEF removeNode, k
<1> HIDE DEF m
<1>11. /\ m.next \in [Node -> Node \cup {None}] /\ m.prev \in [Node -> Node \cup {None}]
       /\ m.next[x] = y /\ m.prev[y] = x
       /\ \A n \in Node : n # k /\ n # x => m.next[n] = l.next[n]
       /\ \A n \in Node : n # k /\ n # y => m.prev[n] = l.prev[n]
  BY <1>0, <1>9, <1>10, SMTT(30)
<1>12. ASSUME NEW i \in 0..Len(t)
       PROVE  m.next[NodeAt(t, i)] = NodeAt(t, i + 1) /\ m.prev[NodeAt(t, i + 1)] = NodeAt(t, i)
  <2>1. CASE i = p - 1
    <3>1. NodeAt(t, i) = x /\ NodeAt(t, i + 1) = y
      BY <1>0, <1>1, <1>8, <2>1 DEF x, y
    <3> QED  BY <1>11, <3>1
  <2>2. CASE i # p - 1
    <3>1. PICK j \in 0..Len(s) :
                 j # p /\ j # p - 1 /\ NodeAt(t, i) = NodeAt(s, j) /\ NodeAt(t, i + 1) = NodeAt(s, j + 1)
      <4>1. CASE i < p - 1
        <5>1. /\ i \in 0..(Len(s) - 1) /\ i + 1 \in 0..(Len(s) - 1) /\ i < p /\ i + 1 < p
              /\ i \in 0..Len(s) /\ i # p /\ i # p - 1
          BY <1>0, <1>1, <4>1
        <5> QED  BY <1>8, <5>1
      <4>2. CASE i >= p
        <5>1. i + 1 \in 0..Len(s) /\ i + 1 # p /\ i + 1 # p - 1 /\ i \in 0..Len(s) /\ i + 1 >= p
          BY <1>0, <1>1, <4>2
        <5> QED  BY <1>8, <4>2, <5>1
      <4> QED  BY <1>0, <1>1, <2>2, <4>1, <4>2
    <3>2. l.next[NodeAt(s, j)] = NodeAt(s, j + 1) /\ l.prev[NodeAt(s, j + 1)] = NodeAt(s, j)
      BY <1>6
    <3>3. j \in 0..(Len(s) + 1) /\ j + 1 \in 0..(Len(s) + 1) /\ j + 1 # p + 1 /\ j + 1 # p
      BY <1>0, <3>1
    <3>4. NodeAt(s, j) # k /\ NodeAt(s, j) # x /\ NodeAt(s, j + 1) # k /\ NodeAt(s, j + 1) # y
      BY <1>3, <1>4, <1>5, <3>1, <3>3, Zenon DEF x, y
    <3> QED  BY <1>3, <1>11, <3>1, <3>2, <3>3, <3>4, Zenon
  <2> QED  BY <2>1, <2>2
<1> QED  BY <1>1, <1>2, <1>10, <1>11, <1>12, Zenon DEF Linked, t, m, k

\* What the recursive definition of After says, for pointers that lead through s.
IsWalk(f, p, from) == f = [i \in 0..(Size + 1) |-> IF i = 0 THEN from ELSE p[f[i - 1]]]

\* Any function that walks along pointers with given values has these values.
LEMMA WalkIs ==
  ASSUME Size \in Nat, NEW p, NEW from, NEW w, NEW f,
         \A i \in 0..Size : p[w[i]] = w[i + 1], w[0] = from, IsWalk(f, p, from)
  PROVE  \A i \in 0..(Size + 1) : f[i] = w[i]
<1>1. \A i \in 0..(Size + 1) : f[i] = IF i = 0 THEN from ELSE p[f[i - 1]]
  BY Zenon DEF IsWalk
<1> SUFFICES ASSUME NEW n \in 0..(Size + 1) PROVE f[n] = w[n]
  OBVIOUS
<1> DEFINE S == {i \in 0..(Size + 1) : f[i] = w[i]}
<1>2. 0 \in S
  BY <1>1
<1>3. ASSUME NEW i \in 0..n, i < n, i \in S PROVE i + 1 \in S
  <2>1. i + 1 \in 0..(Size + 1) /\ i + 1 # 0 /\ (i + 1) - 1 = i /\ i \in 0..Size
    BY <1>3
  <2>2. f[i + 1] = p[f[i]]
    BY <1>1, <2>1, Zenon
  <2> QED  BY <1>3, <2>1, <2>2
<1>4. n \in Nat
  OBVIOUS
<1> HIDE DEF S
<1>5. n \in S
  BY <1>2, <1>3, <1>4, UpTo
<1> QED  BY <1>5 DEF S

\* A walk exists.
LEMMA WalkExists ==
  ASSUME Size \in Nat, NEW p, NEW w,
         \A i \in 0..Size : p[w[i]] = w[i + 1], DOMAIN w = 0..(Size + 1),
         w = [i \in 0..(Size + 1) |-> w[i]]
  PROVE  IsWalk(w, p, w[0])
<1>1. ASSUME NEW i \in 0..(Size + 1) PROVE w[i] = IF i = 0 THEN w[0] ELSE p[w[i - 1]]
  <2>1. CASE i = 0
    BY <2>1
  <2>2. CASE i # 0
    <3>1. i - 1 \in 0..Size /\ (i - 1) + 1 = i
      BY <2>2
    <3> QED  BY <2>2, <3>1
  <2> QED  BY <2>1, <2>2
<1> QED  BY <1>1, Zenon DEF IsWalk

\* The keys of the list in order, as the pointers and the map hold them.
Holds(s) == Linked(List, s) /\ Range(s) = nodes

\* After and Before walk through the keys in order.
LEMMA WalksThrough ==
  ASSUME NEW s, Holds(s)
  PROVE  /\ Size = Len(s) /\ Len(s) \in Nat
         /\ \A i \in 0..(Size + 1) : After[i] = NodeAt(s, i) /\ Before[i] = NodeAt(s, Size + 1 - i)
<1>1. /\ s \in Seq(Key) /\ Distinct(s) /\ Len(s) \in Nat
      /\ \A i \in 0..Len(s) : next[NodeAt(s, i)] = NodeAt(s, i + 1) /\ prev[NodeAt(s, i + 1)] = NodeAt(s, i)
  BY DEF Holds, Linked, List
<1>2. Size = Len(s)
  BY <1>1, LenIsCardinality DEF Size, Holds
<1> DEFINE v == [i \in 0..(Size + 1) |-> NodeAt(s, i)]
           w == [i \in 0..(Size + 1) |-> NodeAt(s, Size + 1 - i)]
<1>3. ASSUME NEW i \in 0..Size PROVE next[v[i]] = v[i + 1] /\ prev[w[i]] = w[i + 1]
  <2>1. /\ i \in 0..(Size + 1) /\ i + 1 \in 0..(Size + 1) /\ i \in 0..Len(s) /\ Size - i \in 0..Len(s)
        /\ Size + 1 - i = (Size - i) + 1 /\ Size + 1 - (i + 1) = Size - i
    BY <1>1, <1>2
  <2>2. /\ next[NodeAt(s, i)] = NodeAt(s, i + 1)
        /\ prev[NodeAt(s, (Size - i) + 1)] = NodeAt(s, Size - i)
    BY <1>1, <2>1, Zenon
  <2> QED  BY <2>1, <2>2, Zenon
<1>4. v[0] = head /\ w[0] = tail
  BY <1>1, <1>2 DEF NodeAt
<1>5. /\ DOMAIN v = 0..(Size + 1) /\ v = [i \in 0..(Size + 1) |-> v[i]]
      /\ DOMAIN w = 0..(Size + 1) /\ w = [i \in 0..(Size + 1) |-> w[i]]
  BY Zenon
<1>6. \A i \in 0..(Size + 1) : v[i] = NodeAt(s, i) /\ w[i] = NodeAt(s, Size + 1 - i)
  BY Zenon
<1> HIDE DEF v, w
<1>7. IsWalk(v, next, head) /\ IsWalk(w, prev, tail)
  BY <1>1, <1>2, <1>3, <1>4, <1>5, WalkExists, Zenon
<1>8. After = CHOOSE f : IsWalk(f, next, head)
  BY DEF After, IsWalk
<1>9. Before = CHOOSE f : IsWalk(f, prev, tail)
  BY DEF Before, IsWalk
<1>10. IsWalk(After, next, head) /\ IsWalk(Before, prev, tail)
  <2> HIDE DEF After, Before
  <2> QED  BY <1>7, <1>8, <1>9, Zenon
<1>11. \A i \in 0..(Size + 1) : After[i] = v[i]
  BY <1>1, <1>2, <1>3, <1>4, <1>10, WalkIs
<1>12. \A i \in 0..(Size + 1) : Before[i] = w[i]
  BY <1>1, <1>2, <1>3, <1>4, <1>10, WalkIs
<1> QED  BY <1>1, <1>2, <1>6, <1>11, <1>12, Zenon

\* The list is well formed, and what the abstract policy sees of it is the order.
LEMMA ListIs ==
  ASSUME NEW s, Holds(s)
  PROVE  ListWellFormed /\ [i \in 1..Size |-> After[i]] = s
<1>1. /\ Size = Len(s) /\ Len(s) \in Nat
      /\ \A i \in 0..(Size + 1) : After[i] = NodeAt(s, i) /\ Before[i] = NodeAt(s, Size + 1 - i)
  BY WalksThrough
<1>2. s \in Seq(Key) /\ Range(s) = nodes
  BY DEF Holds, Linked
<1>3. \A i \in 1..Size : After[i] = s[i] /\ Before[Size + 1 - i] = s[i]
  <2> TAKE i \in 1..Size
  <2>1. /\ i \in 0..(Size + 1) /\ Size + 1 - i \in 0..(Size + 1) /\ Size + 1 - (Size + 1 - i) = i
        /\ i # 0 /\ i # Len(s) + 1
    BY <1>1
  <2> QED  BY <1>1, <2>1 DEF NodeAt
<1>4. After[Size + 1] = tail /\ Before[Size + 1] = head
  <2>1. Size + 1 \in 0..(Size + 1) /\ Size + 1 - (Size + 1) = 0 /\ Size + 1 # 0
    BY <1>1
  <2> QED  BY <1>1, <2>1 DEF NodeAt
<1>5. {After[i] : i \in 1..Size} = nodes
  BY <1>1, <1>2, <1>3 DEF Range
<1>6. [i \in 1..Size |-> After[i]] = s
  BY <1>1, <1>2, <1>3
<1> QED  BY <1>3, <1>4, <1>5, <1>6 DEF ListWellFormed

-----------------------------------------------------------------------------
(* The order of the heaps. *)

\* What Less compares, and how.
Rank == IF policy = "ttl" THEN Nat ELSE [freq : Nat, accessedAt : Nat]
Below(x, y) ==
  IF policy = "ttl" THEN x < y
  ELSE IF x.freq # y.freq THEN x.freq < y.freq ELSE x.accessedAt < y.accessedAt

\* "Not less" is a total preorder, of which container/heap asks no more.
LEMMA BelowOrders ==
  /\ \A x \in Rank : ~Below(x, x)
  /\ \A x, y \in Rank : Below(x, y) => ~Below(y, x)
  /\ \A x, y, z \in Rank : ~Below(y, x) /\ ~Below(z, y) => ~Below(z, x)
<1>1. CASE policy = "ttl"
  BY <1>1 DEF Rank, Below
<1>2. CASE policy # "ttl"
  BY <1>2 DEF Rank, Below
<1> QED  BY <1>1, <1>2

\* A position above the first has a parent, and i is the parent of 2 i and 2 i + 1.
LEMMA Parents ==
  /\ \A c \in Nat : c > 1 => c \div 2 \in 1..(c - 1)
  /\ \A c, i \in Nat : c \div 2 = i => c = 2 * i \/ c = 2 * i + 1
  /\ \A i \in Nat : (2 * i) \div 2 = i /\ (2 * i + 1) \div 2 = i
OBVIOUS

\* The values v in the array are in heap order up to position n; they are, but
\* for those at i; those below i are not less than the one at i.
Ordered(v, n)  == \A c \in 2..n : ~Below(v[c], v[c \div 2])
Loose(v, i, n) ==
  /\ \A c \in 2..n : c # i /\ c \div 2 # i => ~Below(v[c], v[c \div 2])
  /\ \A c \in 2..n : c \div 2 = i /\ i > 1 => ~Below(v[c], v[i \div 2])
Tops(v, i, n)  == \A c \in 2..n : c \div 2 = i => ~Below(v[c], v[i])

Exchange(v, i, j) == [v EXCEPT ![i] = v[j], ![j] = v[i]]

\* up: the value at j is less than its parent's and changes places with it.
LEMMA UpMoves ==
  ASSUME NEW N \in Nat, NEW v \in [1..N -> Rank], NEW n \in 0..N, NEW j \in 2..n,
         Loose(v, j, n), Tops(v, j, n), Below(v[j], v[j \div 2])
  PROVE  LET w == Exchange(v, j \div 2, j) IN Loose(w, j \div 2, n) /\ Tops(w, j \div 2, n)
<1> DEFINE i == j \div 2
           w == Exchange(v, i, j)
<1>1. i \in 1..(j - 1) /\ i \in 1..N /\ j \in 1..N /\ i # j
  BY Parents
<1>2. w \in [1..N -> Rank] /\ w[i] = v[j] /\ w[j] = v[i] /\ \A k \in 1..N : k # i /\ k # j => w[k] = v[k]
  BY <1>1 DEF Exchange
<1>3. \A c \in 2..n : c \in 1..N /\ c \div 2 \in 1..N /\ c \div 2 # c
  BY Parents
<1>4. \A k \in 1..N : v[k] \in Rank
  OBVIOUS
<1>5. ~Below(v[i], v[j])
  BY <1>1, <1>4, BelowOrders, Zenon
<1> HIDE DEF w, i
<1>6. ASSUME NEW c \in 2..n, c # i, c \div 2 # i PROVE ~Below(w[c], w[c \div 2])
  <2>1. CASE c = j
    BY <1>6, <2>1 DEF i
  <2>2. CASE c # j /\ c \div 2 = j
    <3>1. ~Below(v[c], v[i])
      <4>1. j > 1
        OBVIOUS
      <4> QED  BY <2>2, <4>1 DEF Loose, i
    <3> QED  BY <1>2, <1>3, <1>6, <2>2, <3>1
  <2>3. CASE c # j /\ c \div 2 # j
    <3>1. ~Below(v[c], v[c \div 2])
      BY <2>3 DEF Loose
    <3> QED  BY <1>2, <1>3, <1>6, <2>3, <3>1
  <2> QED  BY <2>1, <2>2, <2>3
<1>7. ASSUME NEW c \in 2..n, c \div 2 = i PROVE ~Below(w[c], w[i])
  <2>1. CASE c = j
    BY <1>2, <1>5, <2>1
  <2>2. CASE c # j
    <3>1. ~Below(v[c], v[i])
      BY <1>1, <1>7, <2>2 DEF Loose
    <3>2. ~Below(v[c], v[j])
      BY <1>1, <1>3, <1>4, <1>5, <3>1, BelowOrders, Zenon
    <3> QED  BY <1>2, <1>3, <1>7, <2>2, <3>2
  <2> QED  BY <2>1, <2>2
<1>8. ASSUME NEW c \in 2..n, c \div 2 = i, i > 1 PROVE ~Below(w[c], w[i \div 2])
  <2>1. i \in 2..n /\ i \div 2 \in 1..N /\ i \div 2 # i /\ i \div 2 # j
    BY <1>1, <1>8, Parents
  <2>2. ~Below(v[i], v[i \div 2])
    BY <1>1, <2>1 DEF Loose
  <2>3. w[i \div 2] = v[i \div 2]
    BY <1>2, <2>1
  <2>4. CASE c = j
    BY <1>2, <2>2, <2>3, <2>4
  <2>5. CASE c # j
    <3>1. ~Below(v[c], v[i])
      BY <1>1, <1>8, <2>5 DEF Loose
    <3>2. ~Below(v[c], v[i \div 2])
      BY <1>1, <1>3, <1>4, <2>1, <2>2, <3>1, BelowOrders, Zenon
    <3> QED  BY <1>2, <1>3, <1>8, <2>3, <2>5, <3>2
  <2> QED  BY <2>4, <2>5
<1> QED  BY <1>6, <1>7, <1>8, Zenon DEF Loose, Tops, w, i

\* down: the value at i is greater than that of the lesser child j and changes
\* places with it.
LEMMA DownMoves ==
  ASSUME NEW N \in Nat, NEW v \in [1..N -> Rank], NEW n \in 0..N, NEW i \in 1..n, NEW j \in 2..n,
         j \div 2 = i, \A c \in 2..n : c \div 2 = i => ~Below(v[c], v[j]),
         Loose(v, i, n), Below(v[j], v[i])
  PROVE  LET w == Exchange(v, i, j) IN Loose(w, j, n) /\ ~Below(w[j], w[j \div 2])
<1> DEFINE w == Exchange(v, i, j)
<1>1. i \in 1..(j - 1) /\ i \in 1..N /\ j \in 1..N /\ i # j
  BY Parents
<1>2. w \in [1..N -> Rank] /\ w[i] = v[j] /\ w[j] = v[i] /\ \A k \in 1..N : k # i /\ k # j => w[k] = v[k]
  BY <1>1 DEF Exchange
<1>3. \A c \in 2..n : c \in 1..N /\ c \div 2 \in 1..N /\ c \div 2 # c
  BY Parents
<1>4. \A k \in 1..N : v[k] \in Rank
  OBVIOUS
<1>5. ~Below(v[i], v[j])
  BY <1>1, <1>4, BelowOrders, Zenon
<1> HIDE DEF w
<1>6. ASSUME NEW c \in 2..n, c # j, c \div 2 # j PROVE ~Below(w[c], w[c \div 2])
  <2>1. CASE c = i
    <3>1. i > 1 /\ i \div 2 \in 1..N /\ i \div 2 # i /\ i \div 2 # j
      BY <1>1, <1>3, <1>6, <2>1
    <3>2. ~Below(v[j], v[i \div 2])
      BY <3>1 DEF Loose
    <3> QED  BY <1>2, <2>1, <3>1, <3>2
  <2>2. CASE c # i /\ c \div 2 = i
    BY <1>2, <1>3, <1>6, <2>2
  <2>3. CASE c # i /\ c \div 2 # i
    <3>1. ~Below(v[c], v[c \div 2])
      BY <2>3 DEF Loose
    <3> QED  BY <1>2, <1>3, <1>6, <2>3, <3>1
  <2> QED  BY <2>1, <2>2, <2>3
<1>7. ASSUME NEW c \in 2..n, c \div 2 = j PROVE ~Below(w[c], w[j \div 2])
  <2>1. c # i /\ c # j /\ c \div 2 # i
    BY <1>1, <1>3, <1>7, Parents
  <2>2. ~Below(v[c], v[j])
    BY <1>7, <2>1 DEF Loose
  <2> QED  BY <1>2, <1>3, <2>1, <2>2
<1>8. ~Below(w[j], w[j \div 2])
  BY <1>2, <1>5
<1> QED  BY <1>6, <1>7, <1>8, Zenon DEF Loose, w

\* The first position holds a least value.
LEMMA TopIsLeast ==
  ASSUME NEW n \in Nat, NEW v \in [1..n -> Rank], Ordered(v, n), NEW k \in 1..n
  PROVE  ~Below(v[k], v[1])
<1> DEFINE B == {i \in 1..n : Below(v[i], v[1])}
<1>1. SUFFICES ASSUME B # {} PROVE FALSE
  OBVIOUS
<1>2. B \in SUBSET Nat
  OBVIOUS
<1>3. PICK b \in B : \A q \in B : b =< q
  BY <1>1, <1>2, LeastExists, Zenon
<1>4. b \in 1..n /\ Below(v[b], v[1]) /\ 1 \in 1..n /\ \A i \in 1..n : v[i] \in Rank
  OBVIOUS
<1>5. b # 1
  BY <1>4, BelowOrders, Zenon
<1>6. b \in 2..n /\ b \div 2 \in 1..(b - 1) /\ b \div 2 \in 1..n
  BY <1>4, <1>5, Parents
<1>7. ~Below(v[b \div 2], v[1])
  BY <1>3, <1>6
<1>8. ~Below(v[b], v[b \div 2])
  BY <1>6 DEF Ordered
<1> QED  BY <1>4, <1>6, <1>7, <1>8, BelowOrders, Zenon

-----------------------------------------------------------------------------
(* The heaps. *)

\* A heap of the entries E: array and index fields are inverse to each other.
Shaped(h, E) ==
  /\ h = [a |-> h.a, index |-> h.index, rank |-> h.rank]
  /\ h.a \in Seq(E) /\ h.index \in [E -> 1..Len(h.a)] /\ h.rank \in [E -> Rank]
  /\ \A k \in E : h.a[h.index[k]] = k
  /\ \A i \in 1..Len(h.a) : h.index[h.a[i]] = i

\* The values in the order of the array.
Val(h) == [i \in 1..Len(h.a) |-> h.rank[h.a[i]]]

\* g holds the entries of h, rearranged in the first n positions.
Rearranged(g, h, E, n) ==
  /\ Shaped(g, E) /\ g.rank = h.rank /\ Len(g.a) = Len(h.a)
  /\ \A m \in (n + 1)..Len(h.a) : g.a[m] = h.a[m]

\* What Less compares.
LEMMA LessIs ==
  ASSUME NEW h, NEW E, Shaped(h, E)
  PROVE  /\ Len(h.a) \in Nat /\ Val(h) \in [1..Len(h.a) -> Rank]
         /\ \A i, j \in 1..Len(h.a) : Less(h, i, j) <=> Below(Val(h)[i], Val(h)[j])
<1>1. h.a \in Seq(E) /\ h.rank \in [E -> Rank] /\ Len(h.a) \in Nat
  BY DEF Shaped
<1>2. \A i \in 1..Len(h.a) : h.rank[h.a[i]] \in Rank
  BY <1>1
<1>3. Val(h) \in [1..Len(h.a) -> Rank] /\ \A i \in 1..Len(h.a) : Val(h)[i] = h.rank[h.a[i]]
  BY <1>2, Zenon DEF Val
<1>4. ASSUME NEW i \in 1..Len(h.a), NEW j \in 1..Len(h.a)
      PROVE  Less(h, i, j) <=> Below(Val(h)[i], Val(h)[j])
  BY <1>3, Zenon DEF Less, Below
<1> QED  BY <1>1, <1>3, <1>4

\* Two values of a function change.
LEMMA TwoUpdates ==
  ASSUME NEW D, NEW S, NEW f \in [D -> S], NEW x \in D, NEW y \in D, x # y, NEW u \in S, NEW v \in S
  PROVE  LET g == [f EXCEPT ![x] = u, ![y] = v] IN
         /\ g \in [D -> S] /\ g[x] = u /\ g[y] = v
         /\ \A k \in D : k # x /\ k # y => g[k] = f[k]
OBVIOUS

\* A function on 1..n is a sequence.
LEMMA FunctionIsSeq ==
  ASSUME NEW n \in Nat, NEW S, NEW f \in [1..n -> S]
  PROVE  f \in Seq(S) /\ Len(f) = n
OBVIOUS

\* Swap exchanges two entries and their index fields.
LEMMA SwapIs ==
  ASSUME NEW h, NEW E, Shaped(h, E), NEW i \in 1..Len(h.a), NEW j \in 1..Len(h.a), i # j
  PROVE  LET g == Swap(h, i, j) IN
         /\ Shaped(g, E) /\ g.rank = h.rank /\ Len(g.a) = Len(h.a)
         /\ g.a[i] = h.a[j] /\ g.a[j] = h.a[i]
         /\ \A m \in 1..Len(h.a) : m # i /\ m # j => g.a[m] = h.a[m]
         /\ Val(g) = Exchange(Val(h), i, j)
<1> DEFINE g == Swap(h, i, j)
           x == h.a[i]
           y == h.a[j]
           N == Len(h.a)
<1>1. /\ h = [a |-> h.a, index |-> h.index, rank |-> h.rank] /\ N \in Nat
      /\ h.a \in Seq(E) /\ h.index \in [E -> 1..N] /\ h.rank \in [E -> Rank]
      /\ \A k \in E : h.a[h.index[k]] = k
      /\ \A m \in 1..N : h.index[h.a[m]] = m
  BY DEF Shaped
<1>2. h.a \in [1..N -> E] /\ x \in E /\ y \in E /\ x # y /\ i \in 1..N /\ j \in 1..N
  BY <1>1, SMTT(30)
<1>3. /\ g.a = [h.a EXCEPT ![i] = y, ![j] = x] /\ g.index = [h.index EXCEPT ![y] = i, ![x] = j]
      /\ g.rank = h.rank /\ g = [a |-> g.a, index |-> g.index, rank |-> g.rank]
  BY <1>1, <1>2 DEF Swap
<1> HIDE DEF g, x, y, N
<1>4. /\ g.a \in [1..N -> E] /\ g.a[i] = y /\ g.a[j] = x
      /\ \A m \in 1..N : m # i /\ m # j => g.a[m] = h.a[m]
  BY <1>2, <1>3, Zenon
<1>5. /\ g.index \in [E -> 1..N] /\ g.index[y] = i /\ g.index[x] = j
      /\ \A k \in E : k # x /\ k # y => g.index[k] = h.index[k]
  <2> DEFINE f == h.index
             e == [f EXCEPT ![y] = i, ![x] = j]
  <2>1. f \in [E -> 1..N] /\ y # x
    BY <1>1, <1>2
  <2> HIDE DEF f
  <2>2. e \in [E -> 1..N] /\ e[y] = i /\ e[x] = j /\ \A k \in E : k # y /\ k # x => e[k] = f[k]
    BY <1>2, <2>1, TwoUpdates, Zenon
  <2>3. g.index = e
    BY <1>3 DEF f
  <2> HIDE DEF e
  <2> QED  BY <2>2, <2>3 DEF f
<1>6. g.a \in Seq(E) /\ Len(g.a) = N
  BY <1>1, <1>4, FunctionIsSeq, Zenon
<1>7. ASSUME NEW k \in E PROVE g.a[g.index[k]] = k
  <2>1. CASE k = x \/ k = y
    BY <1>4, <1>5, <2>1
  <2>2. CASE k # x /\ k # y
    <3>1. h.index[k] \in 1..N /\ h.index[k] # i /\ h.index[k] # j
      BY <1>1, <2>2 DEF x, y
    <3>2. g.index[k] = h.index[k]
      BY <1>5, <2>2
    <3>3. g.a[h.index[k]] = h.a[h.index[k]]
      BY <1>4, <3>1, Zenon
    <3> QED  BY <1>1, <3>2, <3>3, Zenon
  <2> QED  BY <2>1, <2>2
<1>8. ASSUME NEW m \in 1..N PROVE g.index[g.a[m]] = m
  <2>1. CASE m = i \/ m = j
    BY <1>4, <1>5, <2>1
  <2>2. CASE m # i /\ m # j
    <3>1. h.a[m] \in E /\ h.a[m] # x /\ h.a[m] # y
      BY <1>1, <1>2, <2>2, Zenon DEF x, y
    <3> QED  BY <1>1, <1>4, <1>5, <2>2, <3>1, Zenon
  <2> QED  BY <2>1, <2>2
<1>9. Shaped(g, E)
  BY <1>1, <1>3, <1>5, <1>6, <1>7, <1>8, Zenon DEF Shaped, N
<1>10. Val(g) = Exchange(Val(h), i, j)
  <2>1. Val(g) = [m \in 1..N |-> h.rank[g.a[m]]] /\ Val(h) = [m \in 1..N |-> h.rank[h.a[m]]]
    BY <1>3, <1>6, Zenon DEF Val, N
  <2>2. Exchange(Val(h), i, j) =
          [m \in 1..N |-> IF m = j THEN Val(h)[i] ELSE IF m = i THEN Val(h)[j] ELSE Val(h)[m]]
    BY <2>1, Zenon DEF Exchange
  <2>3. Val(h)[i] = h.rank[x] /\ Val(h)[j] = h.rank[y] /\ \A m \in 1..N : Val(h)[m] = h.rank[h.a[m]]
    BY <1>2, <2>1, Zenon DEF x, y
  <2>4. \A m \in 1..N : h.rank[g.a[m]] = IF m = j THEN Val(h)[i] ELSE IF m = i THEN Val(h)[j] ELSE Val(h)[m]
    BY <1>4, <2>3, Zenon
  <2> QED  BY <2>1, <2>2, <2>4, Zenon
<1> QED  BY <1>3, <1>4, <1>6, <1>9, <1>10 DEF g, x, y, N

-----------------------------------------------------------------------------
(* The loops of container/heap. *)

\* After some passes of up, which started with h: only the entry at s.at may be
\* less than its parent.
UpState(s, h, E, n) ==
  /\ Rearranged(s.h, h, E, n) /\ s.at \in 1..n
  /\ Loose(Val(s.h), s.at, n) /\ Tops(Val(s.h), s.at, n)

\* After some passes of down, which started with h at i: only the entry at s.at
\* may be greater than its children, and only at i less than its parent.
DownState(s, h, E, i, n) ==
  /\ Rearranged(s.h, h, E, n) /\ s.at \in i..n
  /\ Loose(Val(s.h), s.at, n)
  /\ s.at = i => s.h = h
  /\ s.at # i => ~Below(Val(s.h)[s.at], Val(s.h)[s.at \div 2])

\* The heap order, when neither the entry at i nor those below it are out of place.
LEMMA NothingOutOfPlace ==
  ASSUME NEW v, NEW i, NEW n, Loose(v, i, n), Tops(v, i, n),
         i \in 2..n => ~Below(v[i], v[i \div 2])
  PROVE  Ordered(v, n)
BY SMTT(30) DEF Loose, Tops, Ordered

\* An exchange within the first n positions.
LEMMA SwapRearranges ==
  ASSUME NEW g, NEW h, NEW E, NEW n \in 0..Len(h.a), Rearranged(g, h, E, n),
         NEW i \in 1..n, NEW j \in 1..n, i # j
  PROVE  /\ Rearranged(Swap(g, i, j), h, E, n)
         /\ Val(Swap(g, i, j)) = Exchange(Val(g), i, j)
<1>1. /\ Shaped(g, E) /\ g.rank = h.rank /\ Len(g.a) = Len(h.a) /\ Len(g.a) \in Nat
      /\ \A m \in (n + 1)..Len(h.a) : g.a[m] = h.a[m]
  BY LessIs DEF Rearranged
<1>2. /\ i \in 1..Len(g.a) /\ j \in 1..Len(g.a)
      /\ \A m \in (n + 1)..Len(h.a) : m \in 1..Len(g.a) /\ m # i /\ m # j
  BY <1>1, SMTT(30)
<1> DEFINE k == Swap(g, i, j)
<1>3. /\ Shaped(k, E) /\ k.rank = g.rank /\ Len(k.a) = Len(g.a)
      /\ \A m \in 1..Len(g.a) : m # i /\ m # j => k.a[m] = g.a[m]
      /\ Val(k) = Exchange(Val(g), i, j)
  <2>1. Shaped(g, E) /\ i \in 1..Len(g.a) /\ j \in 1..Len(g.a) /\ i # j
    BY <1>1, <1>2, Zenon
  <2> QED  BY <2>1, SwapIs, ZenonT(30)
<1> HIDE DEF k
<1>4. \A m \in (n + 1)..Len(h.a) : k.a[m] = h.a[m]
  BY <1>1, <1>2, <1>3, Zenon
<1> QED  BY <1>1, <1>3, <1>4 DEF Rearranged, k

\* A pass of up moves the entry closer to the top, or the order is restored.
LEMMA UpPass ==
  ASSUME NEW s, NEW h, NEW E, NEW n \in 0..Len(h.a), UpState(s, h, E, n)
  PROVE  /\ UpState(upPass(s), h, E, n)
         /\ upPass(s) = s => Ordered(Val(s.h), n)
         /\ upPass(s) # s => upPass(s).at < s.at
<1> DEFINE j == s.at
           i == j \div 2
           v == Val(s.h)
           N == Len(s.h.a)
<1>1. /\ Rearranged(s.h, h, E, n) /\ Shaped(s.h, E) /\ N = Len(h.a)
      /\ j \in 1..n /\ Loose(v, j, n) /\ Tops(v, j, n)
  BY SMTT(30) DEF UpState, Rearranged
<1>2. /\ N \in Nat /\ v \in [1..N -> Rank] /\ n \in 0..N
      /\ \A x, y \in 1..N : Less(s.h, x, y) <=> Below(v[x], v[y])
  BY <1>1, LessIs
<1>3. j > 1 => i \in 1..(j - 1) /\ i \in 1..n /\ j \in 2..n /\ i # j
  BY <1>1, Parents
<1>4. \A x \in 1..n : x \in 1..N
  BY <1>2
<1>5. upPass(s) = IF j = 1 \/ ~Less(s.h, j, i) THEN s ELSE [h |-> Swap(s.h, i, j), at |-> i]
  BY DEF upPass
<1> HIDE DEF j, i, v, N
<1>6. CASE j = 1 \/ ~Less(s.h, j, i)
  <2>1. upPass(s) = s
    BY <1>5, <1>6
  <2>2. j \in 2..n => ~Below(v[j], v[j \div 2])
    <3> SUFFICES ASSUME j \in 2..n PROVE ~Below(v[j], v[j \div 2])
      OBVIOUS
    <3>1. i \in 1..N /\ j \in 1..N /\ ~Less(s.h, j, i)
      BY <1>1, <1>3, <1>4, <1>6
    <3> QED  BY <1>2, <3>1 DEF i
  <2>3. Ordered(v, n)
    BY <1>1, <2>2, NothingOutOfPlace
  <2> QED  BY <2>1, <2>3 DEF v
<1>7. CASE j # 1 /\ Less(s.h, j, i)
  <2>1. i \in 1..(j - 1) /\ i \in 1..n /\ j \in 2..n /\ i # j /\ i < j
    BY <1>1, <1>3, <1>7
  <2>2. upPass(s) = [h |-> Swap(s.h, i, j), at |-> i]
    BY <1>5, <1>7
  <2>3. upPass(s).h = Swap(s.h, i, j) /\ upPass(s).at = i
    BY <2>2
  <2>4. /\ Rearranged(Swap(s.h, i, j), h, E, n)
        /\ Val(Swap(s.h, i, j)) = Exchange(v, i, j)
    BY <1>1, <2>1, SwapRearranges DEF v
  <2>5. Below(v[j], v[j \div 2])
    BY <1>1, <1>2, <1>4, <1>7, <2>1 DEF i
  <2>6. Loose(Exchange(v, i, j), i, n) /\ Tops(Exchange(v, i, j), i, n)
    BY <1>1, <1>2, <2>1, <2>5, UpMoves, Zenon DEF i
  <2>7. UpState(upPass(s), h, E, n)
    BY <2>1, <2>3, <2>4, <2>6, Zenon DEF UpState
  <2>8. upPass(s).at < s.at
    BY <2>1, <2>3 DEF j
  <2>9. upPass(s) # s
    BY <2>1, <2>3 DEF j
  <2> QED  BY <2>7, <2>8, <2>9
<1> QED  BY <1>6, <1>7

\* A pass of down moves the entry further from the top, or the entries below it
\* are not less.
LEMMA DownPass ==
  ASSUME NEW s, NEW h, NEW E, NEW n \in 0..Len(h.a), NEW i \in 1..n, DownState(s, h, E, i, n)
  PROVE  /\ DownState(downPass(s, n), h, E, i, n)
         /\ downPass(s, n) = s => Tops(Val(s.h), s.at, n)
         /\ downPass(s, n) # s => downPass(s, n).at > s.at
<1> DEFINE p == s.at
           v == Val(s.h)
           N == Len(s.h.a)
           left == 2 * p
           j == IF left + 1 =< n /\ Less(s.h, left + 1, left) THEN left + 1 ELSE left
<1>1. /\ Rearranged(s.h, h, E, n) /\ Shaped(s.h, E) /\ N = Len(h.a)
      /\ p \in i..n /\ Loose(v, p, n)
      /\ p # i => ~Below(v[p], v[p \div 2])
  BY Zenon DEF DownState, Rearranged
<1>2. /\ N \in Nat /\ v \in [1..N -> Rank] /\ n \in 0..N
      /\ \A x, y \in 1..N : Less(s.h, x, y) <=> Below(v[x], v[y])
  BY <1>1, LessIs
<1>3. p \in 1..n /\ p \in Nat /\ left \in Nat /\ left > p
  BY <1>1
<1>4. \A x \in 1..n : x \in 1..N /\ v[x] \in Rank
  BY <1>2
<1>5. downPass(s, n) = IF left > n \/ ~Less(s.h, j, p) THEN s ELSE [h |-> Swap(s.h, p, j), at |-> j]
  BY DEF downPass
<1>6. \A c \in 2..n : c \div 2 = p => c = left \/ c = left + 1
  BY <1>3, Parents, SMTT(30)
<1>7. left =< n => /\ j \in 2..n /\ j \div 2 = p /\ j > p
                   /\ \A c \in 2..n : c \div 2 = p => ~Below(v[c], v[j])
  <2> SUFFICES ASSUME left =< n PROVE /\ j \in 2..n /\ j \div 2 = p /\ j > p
                   /\ \A c \in 2..n : c \div 2 = p => ~Below(v[c], v[j])
    OBVIOUS
  <2>1. left \in 2..n /\ left \in 1..N /\ left \div 2 = p /\ (left + 1) \div 2 = p
    <3>1. left \div 2 = p /\ (left + 1) \div 2 = p
      BY <1>3, Parents, Zenon
    <3> HIDE DEF N, p
    <3> QED  BY <1>2, <1>3, <3>1
  <2> HIDE DEF p, v, N, left
  <2>2. CASE left + 1 =< n
    <3>1. left + 1 \in 2..n /\ left + 1 \in 1..N /\ left + 1 > p
      BY <1>2, <1>3, <2>2
    <3>2. CASE Less(s.h, left + 1, left)
      <4>1. j = left + 1
        BY <2>2, <3>2
      <4>2. ~Below(v[left], v[left + 1]) /\ ~Below(v[left + 1], v[left + 1])
        BY <1>2, <1>4, <2>1, <3>1, <3>2, BelowOrders
      <4> HIDE DEF j
      <4> QED  BY <1>6, <2>1, <3>1, <4>1, <4>2
    <3>3. CASE ~Less(s.h, left + 1, left)
      <4>1. j = left
        BY <3>3
      <4>2. ~Below(v[left], v[left]) /\ ~Below(v[left + 1], v[left])
        BY <1>2, <1>4, <2>1, <3>1, <3>3, BelowOrders
      <4> HIDE DEF j
      <4> QED  BY <1>3, <1>6, <2>1, <4>1, <4>2
    <3> QED  BY <3>2, <3>3
  <2>3. CASE ~(left + 1 =< n)
    <3>1. j = left
      BY <2>3
    <3>2. ~Below(v[left], v[left])
      BY <1>4, <2>1, BelowOrders
    <3>3. \A c \in 2..n : c \div 2 = p => c = left
      BY <1>6, <2>3
    <3> HIDE DEF j
    <3> QED  BY <1>3, <2>1, <3>1, <3>2, <3>3
  <2> QED  BY <2>2, <2>3, SMTT(30)
<1> HIDE DEF p, v, N, left, j
<1>8. CASE left > n \/ ~Less(s.h, j, p)
  <2>1. downPass(s, n) = s
    BY <1>5, <1>8
  <2>2. ASSUME NEW c \in 2..n, c \div 2 = p PROVE ~Below(v[c], v[p])
    <3>1. CASE left > n
      BY <1>3, <1>6, <2>2, <3>1
    <3>2. CASE left =< n /\ ~Less(s.h, j, p)
      <4>1. j \in 1..n /\ ~Below(v[j], v[p]) /\ ~Below(v[c], v[j]) /\ c \in 1..n
        BY <1>2, <1>3, <1>4, <1>7, <2>2, <3>2
      <4> QED  BY <1>3, <1>4, <4>1, BelowOrders, Zenon
    <3> QED  BY <1>3, <1>8, <3>1, <3>2
  <2> QED  BY <2>1, <2>2 DEF Tops, v, p
<1>9. CASE ~(left > n) /\ Less(s.h, j, p)
  <2>1. /\ j \in 2..n /\ j \div 2 = p /\ j > p /\ j \in 1..n /\ p # j
        /\ \A c \in 2..n : c \div 2 = p => ~Below(v[c], v[j])
    BY <1>3, <1>7, <1>9
  <2>2. downPass(s, n) = [h |-> Swap(s.h, p, j), at |-> j]
    BY <1>5, <1>9
  <2>3. downPass(s, n).h = Swap(s.h, p, j) /\ downPass(s, n).at = j
    BY <2>2
  <2>4. /\ Rearranged(Swap(s.h, p, j), h, E, n)
        /\ Val(Swap(s.h, p, j)) = Exchange(v, p, j)
    BY <1>1, <1>3, <2>1, SwapRearranges DEF v
  <2>5. Below(v[j], v[p])
    BY <1>2, <1>3, <1>4, <1>9, <2>1
  <2>6. Loose(Exchange(v, p, j), j, n) /\ ~Below(Exchange(v, p, j)[j], Exchange(v, p, j)[j \div 2])
    BY <1>1, <1>2, <1>3, <2>1, <2>5, DownMoves, Zenon
  <2>7. j \in i..n /\ j # i
    BY <1>1, <1>3, <2>1
  <2>8. DownState(downPass(s, n), h, E, i, n)
    BY <2>3, <2>4, <2>6, <2>7, Zenon DEF DownState
  <2>9. downPass(s, n).at > s.at /\ downPass(s, n) # s
    BY <1>3, <2>1, <2>3 DEF p
  <2> QED  BY <2>8, <2>9
<1> QED  BY <1>8, <1>9

\* What the functions loop of up and down are defined by, for m passes.
IsUp(f, h, i, m) ==
  f = [p \in 0..m |-> IF p = 0 THEN [h |-> h, at |-> i] ELSE upPass(f[p - 1])]
IsDown(f, h, i, n, m) ==
  f = [p \in 0..m |-> IF p = 0 THEN [h |-> h, at |-> i] ELSE downPass(f[p - 1], n)]

\* The loop of up is well defined.
LEMMA IsUpExists ==
  ASSUME NEW h, NEW i, NEW k \in Nat
  PROVE  \E f : IsUp(f, h, i, k)
<1> DEFINE S == {m \in Nat : \E f : IsUp(f, h, i, m)}
           start == [h |-> h, at |-> i]
<1>1. 0 \in S
  <2>1. IsUp([p \in 0..0 |-> start], h, i, 0)
    BY DEF IsUp
  <2> QED  BY <2>1
<1>2. ASSUME NEW m \in 0..k, m < k, m \in S PROVE m + 1 \in S
  <2>1. PICK f : IsUp(f, h, i, m)
    BY <1>2
  <2>2. m \in Nat /\ m + 1 \in Nat
    OBVIOUS
  <2>3. \A p \in 0..m : f[p] = IF p = 0 THEN start ELSE upPass(f[p - 1])
    BY <2>1, Zenon DEF IsUp
  <2> DEFINE g == [p \in 0..(m + 1) |-> IF p = m + 1 THEN upPass(f[m]) ELSE f[p]]
  <2>4. ASSUME NEW p \in 0..(m + 1)
        PROVE  g[p] = IF p = 0 THEN start ELSE upPass(g[p - 1])
    <3>1. CASE p = m + 1
      <4>1. p # 0 /\ p - 1 = m /\ m \in 0..(m + 1) /\ m # m + 1
        BY <2>2, <3>1
      <4> QED  BY <3>1, <4>1, Zenon
    <3>2. CASE p # m + 1
      <4>1. p \in 0..m /\ (p # 0 => p - 1 \in 0..(m + 1) /\ p - 1 # m + 1)
        BY <2>2, <3>2
      <4> QED  BY <2>3, <3>2, <4>1, Zenon
    <3> QED  BY <3>1, <3>2
  <2>5. g = [p \in 0..(m + 1) |-> g[p]]
    BY Zenon
  <2> HIDE DEF g
  <2>6. IsUp(g, h, i, m + 1)
    BY <2>4, <2>5, Zenon DEF IsUp
  <2> QED  BY <2>2, <2>6
<1> HIDE DEF S
<1>3. k \in S
  BY <1>1, <1>2, UpTo
<1> QED  BY <1>3 DEF S

\* The loop of down is well defined.
LEMMA IsDownExists ==
  ASSUME NEW h, NEW i, NEW n, NEW k \in Nat
  PROVE  \E f : IsDown(f, h, i, n, k)
<1> DEFINE S == {m \in Nat : \E f : IsDown(f, h, i, n, m)}
           start == [h |-> h, at |-> i]
<1>1. 0 \in S
  <2>1. IsDown([p \in 0..0 |-> start], h, i, n, 0)
    BY DEF IsDown
  <2> QED  BY <2>1
<1>2. ASSUME NEW m \in 0..k, m < k, m \in S PROVE m + 1 \in S
  <2>1. PICK f : IsDown(f, h, i, n, m)
    BY <1>2
  <2>2. m \in Nat /\ m + 1 \in Nat
    OBVIOUS
  <2>3. \A p \in 0..m : f[p] = IF p = 0 THEN start ELSE downPass(f[p - 1], n)
    BY <2>1, Zenon DEF IsDown
  <2> DEFINE g == [p \in 0..(m + 1) |-> IF p = m + 1 THEN downPass(f[m], n) ELSE f[p]]
  <2>4. ASSUME NEW p \in 0..(m + 1)
        PROVE  g[p] = IF p = 0 THEN start ELSE downPass(g[p - 1], n)
    <3>1. CASE p = m + 1
      <4>1. p # 0 /\ p - 1 = m /\ m \in 0..(m + 1) /\ m # m + 1
        BY <2>2, <3>1
      <4> QED  BY <3>1, <4>1, Zenon
    <3>2. CASE p # m + 1
      <4>1. p \in 0..m /\ (p # 0 => p - 1 \in 0..(m + 1) /\ p - 1 # m + 1)
        BY <2>2, <3>2
      <4> QED  BY <2>3, <3>2, <4>1, Zenon
    <3> QED  BY <3>1, <3>2
  <2>5. g = [p \in 0..(m + 1) |-> g[p]]
    BY Zenon
  <2> HIDE DEF g
  <2>6. IsDown(g, h, i, n, m + 1)
    BY <2>4, <2>5, Zenon DEF IsDown
  <2> QED  BY <2>2, <2>6
<1> HIDE DEF S
<1>3. k \in S
  BY <1>1, <1>2, UpTo
<1> QED  BY <1>3 DEF S

\* up restores the order when only the entry at j may be less than its parent.
LEMMA UpRestores ==
  ASSUME NEW h, NEW E, Shaped(h, E), NEW n \in 0..Len(h.a), NEW j \in 1..n,
         Loose(Val(h), j, n), Tops(Val(h), j, n)
  PROVE  Rearranged(up(h, j), h, E, n) /\ Ordered(Val(up(h, j)), n)
<1> DEFINE f == CHOOSE g : IsUp(g, h, j, j)
           S == {p \in 0..j : UpState(f[p], h, E, n) /\ (upPass(f[p]) = f[p] \/ f[p].at + p =< j)}
<1>0. j \in Nat
  BY LessIs
<1>1. up(h, j) = f[j].h
  BY DEF up, IsUp
<1>2. IsUp(f, h, j, j)
  BY <1>0, IsUpExists, Zenon
<1> HIDE DEF f
<1>3. \A p \in 0..j : f[p] = IF p = 0 THEN [h |-> h, at |-> j] ELSE upPass(f[p - 1])
  BY <1>2, Zenon DEF IsUp
<1>4. 0 \in S
  <2>1. f[0] = [h |-> h, at |-> j] /\ 0 \in 0..j
    BY <1>0, <1>3
  <2>2. f[0].h = h /\ f[0].at = j
    BY <2>1
  <2>3. UpState(f[0], h, E, n)
    BY <2>2, Zenon DEF UpState, Rearranged
  <2>4. f[0].at + 0 =< j
    BY <1>0, <2>2
  <2> QED  BY <2>1, <2>3, <2>4
<1>5. ASSUME NEW p \in 0..j, p < j, p \in S PROVE p + 1 \in S
  <2>1. p + 1 \in 0..j /\ f[p + 1] = upPass(f[p])
    <3>1. p + 1 \in 0..j /\ p + 1 # 0 /\ (p + 1) - 1 = p
      BY <1>0, <1>5, SMTT(30)
    <3> QED  BY <1>3, <3>1, Zenon
  <2>2. UpState(f[p], h, E, n) /\ (upPass(f[p]) = f[p] \/ f[p].at + p =< j)
    BY <1>5
  <2>3. UpState(f[p + 1], h, E, n) /\ (upPass(f[p]) # f[p] => f[p + 1].at < f[p].at)
    BY <2>1, <2>2, UpPass, Zenon
  <2>4. f[p].at \in 1..n /\ f[p + 1].at \in 1..n
    BY <2>2, <2>3, Zenon DEF UpState
  <2>5. upPass(f[p + 1]) = f[p + 1] \/ f[p + 1].at + (p + 1) =< j
    <3>1. CASE upPass(f[p]) = f[p]
      BY <2>1, <3>1
    <3>2. CASE upPass(f[p]) # f[p]
      <4>1. f[p].at + p =< j /\ f[p + 1].at < f[p].at
        BY <2>2, <2>3, <3>2
      <4> QED  BY <1>0, <2>4, <4>1, SMTT(30)
    <3> QED  BY <3>1, <3>2
  <2> QED  BY <2>1, <2>3, <2>5
<1> HIDE DEF S
<1>6. j \in S
  BY <1>0, <1>4, <1>5, UpTo
<1>7. UpState(f[j], h, E, n) /\ (upPass(f[j]) = f[j] \/ f[j].at + j =< j)
  BY <1>6 DEF S
<1>8. upPass(f[j]) = f[j]
  <2>1. f[j].at \in 1..n
    BY <1>7 DEF UpState
  <2> QED  BY <1>0, <1>7, <2>1
<1>9. Ordered(Val(f[j].h), n)
  BY <1>7, <1>8, UpPass, SMTT(30)
<1> QED  BY <1>1, <1>7, <1>9 DEF UpState

\* down leaves the entries below the moved one in order.
LEMMA DownSinks ==
  ASSUME NEW h, NEW E, Shaped(h, E), NEW n \in 0..Len(h.a), NEW i \in 1..n, Loose(Val(h), i, n)
  PROVE  LET d == down(h, i, n) IN DownState(d, h, E, i, n) /\ Tops(Val(d.h), d.at, n)
<1> DEFINE f == CHOOSE g : IsDown(g, h, i, n, n)
           S == {p \in 0..n : DownState(f[p], h, E, i, n) /\ (downPass(f[p], n) = f[p] \/ f[p].at >= i + p)}
<1>0. n \in Nat /\ i \in Nat
  BY LessIs
<1>1. down(h, i, n) = f[n]
  BY DEF down, IsDown
<1>2. IsDown(f, h, i, n, n)
  BY <1>0, IsDownExists, Zenon
<1> HIDE DEF f
<1>3. \A p \in 0..n : f[p] = IF p = 0 THEN [h |-> h, at |-> i] ELSE downPass(f[p - 1], n)
  BY <1>2, Zenon DEF IsDown
<1>4. 0 \in S
  <2>1. f[0] = [h |-> h, at |-> i] /\ 0 \in 0..n /\ i \in i..n
    BY <1>0, <1>3
  <2>2. f[0].h = h /\ f[0].at = i
    BY <2>1
  <2>3. DownState(f[0], h, E, i, n)
    BY <2>1, <2>2, Zenon DEF DownState, Rearranged
  <2>4. f[0].at >= i + 0
    BY <1>0, <2>2, SMTT(30)
  <2> QED  BY <2>1, <2>3, <2>4
<1>5. ASSUME NEW p \in 0..n, p < n, p \in S PROVE p + 1 \in S
  <2>1. p + 1 \in 0..n /\ f[p + 1] = downPass(f[p], n)
    <3>1. p + 1 \in 0..n /\ p + 1 # 0 /\ (p + 1) - 1 = p
      BY <1>0, <1>5, SMTT(30)
    <3> QED  BY <1>3, <3>1, Zenon
  <2>2. DownState(f[p], h, E, i, n) /\ (downPass(f[p], n) = f[p] \/ f[p].at >= i + p)
    BY <1>5, SMTT(30)
  <2>3. DownState(f[p + 1], h, E, i, n) /\ (downPass(f[p], n) # f[p] => f[p + 1].at > f[p].at)
    BY <2>1, <2>2, DownPass, Zenon
  <2>4. f[p].at \in i..n /\ f[p + 1].at \in i..n
    BY <2>2, <2>3, Zenon DEF DownState
  <2>5. downPass(f[p + 1], n) = f[p + 1] \/ f[p + 1].at >= i + (p + 1)
    <3>1. CASE downPass(f[p], n) = f[p]
      BY <2>1, <3>1, SMTT(30)
    <3>2. CASE downPass(f[p], n) # f[p]
      <4>1. f[p].at >= i + p /\ f[p + 1].at > f[p].at
        BY <2>2, <2>3, <3>2
      <4> QED  BY <1>0, <2>4, <4>1
    <3> QED  BY <3>1, <3>2, Zenon
  <2> QED  BY <2>1, <2>3, <2>5
<1> HIDE DEF S
<1>6. n \in S
  BY <1>0, <1>4, <1>5, UpTo
<1>7. DownState(f[n], h, E, i, n) /\ (downPass(f[n], n) = f[n] \/ f[n].at >= i + n)
  BY <1>6, SMTT(30) DEF S
<1>8. downPass(f[n], n) = f[n]
  <2>1. f[n].at \in i..n
    BY <1>7, SMTT(30) DEF DownState
  <2> QED  BY <1>0, <1>7, <2>1, SMTT(30)
<1>9. Tops(Val(f[n].h), f[n].at, n)
  BY <1>7, <1>8, DownPass
<1> QED  BY <1>1, <1>7, <1>9

\* Settle restores the order when only the entry at i is out of place.
LEMMA SettleRestores ==
  ASSUME NEW h, NEW E, Shaped(h, E), NEW n \in 0..Len(h.a), NEW i \in 1..n, Loose(Val(h), i, n)
  PROVE  Rearranged(Settle(h, i, n), h, E, n) /\ Ordered(Val(Settle(h, i, n)), n)
<1> DEFINE d == down(h, i, n)
<1>1. DownState(d, h, E, i, n) /\ Tops(Val(d.h), d.at, n)
  BY DownSinks
<1>2. Settle(h, i, n) = IF d.at > i THEN d.h ELSE up(h, i)
  BY DEF Settle
<1> HIDE DEF d
<1>3. /\ Rearranged(d.h, h, E, n) /\ d.at \in i..n /\ Loose(Val(d.h), d.at, n)
      /\ d.at = i => d.h = h
      /\ d.at # i => ~Below(Val(d.h)[d.at], Val(d.h)[d.at \div 2])
  BY <1>1 DEF DownState
<1>4. CASE d.at > i
  <2>1. Ordered(Val(d.h), n)
    <3>1. d.at # i
      BY <1>3, <1>4
    <3> QED  BY <1>1, <1>3, <3>1, NothingOutOfPlace
  <2> QED  BY <1>2, <1>3, <1>4, <2>1
<1>5. CASE ~(d.at > i)
  <2>1. d.at = i /\ d.h = h
    BY <1>3, <1>5
  <2>2. Tops(Val(h), i, n)
    BY <1>1, <2>1
  <2>3. Rearranged(up(h, i), h, E, n) /\ Ordered(Val(up(h, i)), n)
    BY <2>2, UpRestores
  <2> QED  BY <1>2, <1>5, <2>3
<1> QED  BY <1>4, <1>5

-----------------------------------------------------------------------------
(* The operations of container/heap on a heap in order. *)

HeapOK(h) == Shaped(h, DOMAIN h.rank) /\ Ordered(Val(h), Len(h.a))

\* Where one value of a heap in order has changed, only this one is out of place.
LEMMA OneChanged ==
  ASSUME NEW N \in Nat, NEW v \in [1..N -> Rank], Ordered(v, N), NEW n \in 0..N, NEW i \in 1..n,
         NEW w, \A c \in 1..n : c # i => w[c] = v[c]
  PROVE  Loose(w, i, n)
<1>1. \A c \in 2..n : /\ c \in 2..N /\ c \in 1..n /\ c \div 2 \in 1..n /\ c \div 2 < c
                      /\ v[c] \in Rank /\ v[c \div 2] \in Rank
  BY Parents
<1>2. \A c \in 2..N : ~Below(v[c], v[c \div 2])
  BY DEF Ordered
<1>3. ASSUME NEW c \in 2..n, c # i, c \div 2 # i PROVE ~Below(w[c], w[c \div 2])
  BY <1>1, <1>2, <1>3
<1>4. ASSUME NEW c \in 2..n, c \div 2 = i, i > 1 PROVE ~Below(w[c], w[i \div 2])
  <2>1. i \in 2..n
    BY <1>4
  <2>2. /\ ~Below(v[i], v[i \div 2]) /\ ~Below(v[c], v[i])
        /\ i \div 2 \in 1..n /\ i \div 2 # i /\ c # i /\ c \in 1..n
    BY <1>1, <1>2, <1>4, <2>1
  <2>3. ~Below(v[c], v[i \div 2])
    BY <1>1, <1>4, <2>1, <2>2, BelowOrders, Zenon
  <2> QED  BY <2>2, <2>3
<1> QED  BY <1>3, <1>4, Zenon DEF Loose

\* heap.Push
LEMMA PushKeeps ==
  ASSUME NEW h, HeapOK(h), NEW k, k \notin DOMAIN h.rank, NEW r \in Rank
  PROVE  HeapOK(heapPush(h, k, r)) /\ heapPush(h, k, r).rank = Extend(h.rank, k, r)
<1> DEFINE E == DOMAIN h.rank
           F == E \cup {k}
           n == Len(h.a)
           g == Push(h, k, r)
<1>1. /\ h.a \in Seq(E) /\ n \in Nat /\ h.index \in [E -> 1..n] /\ h.rank \in [E -> Rank]
      /\ \A x \in E : h.a[h.index[x]] = x
      /\ \A i \in 1..n : h.index[h.a[i]] = i
      /\ Shaped(h, E) /\ Ordered(Val(h), n) /\ Val(h) \in [1..n -> Rank]
  BY LessIs, Zenon DEF HeapOK, Shaped
<1>2. /\ g.a = Append(h.a, k) /\ g.index = Extend(h.index, k, n + 1) /\ g.rank = Extend(h.rank, k, r)
      /\ g = [a |-> g.a, index |-> g.index, rank |-> g.rank]
  BY Zenon DEF Push
<1>3. heapPush(h, k, r) = up(g, n + 1)
  BY DEF heapPush
<1>4. k \notin E
  BY SMTT(30)
<1> HIDE DEF E, n, g
<1>5. g.a \in Seq(F) /\ Len(g.a) = n + 1 /\ g.a[n + 1] = k /\ \A i \in 1..n : g.a[i] = h.a[i] /\ h.a[i] \in E
  <2>1. h.a \in [1..n -> E]
    BY <1>1 DEF n
  <2>2. h.a \in Seq(F)
    BY <1>1, SMTT(30)
  <2> QED  BY <1>1, <1>2, <2>1, <2>2, SMTT(30) DEF n
<1>6. /\ g.index \in [F -> 1..(n + 1)] /\ g.index[k] = n + 1
      /\ \A x \in E : g.index[x] = h.index[x] /\ h.index[x] \in 1..n
  <2>1. h.index \in [E -> 1..(n + 1)] /\ n + 1 \in 1..(n + 1)
    BY <1>1, SMTT(30)
  <2>2. \A x \in E : h.index[x] \in 1..n /\ x # k
    BY <1>1, <1>4, SMTT(30)
  <2> QED  BY <1>2, <2>1, <2>2 DEF Extend
<1>7. g.rank \in [F -> Rank] /\ \A x \in E : g.rank[x] = h.rank[x]
  BY <1>1, <1>2, <1>4 DEF Extend
<1> HIDE DEF F
<1>8. Shaped(g, F)
  <2>1. ASSUME NEW x \in F PROVE g.a[g.index[x]] = x
    BY <1>1, <1>5, <1>6, Zenon DEF F
  <2>2. ASSUME NEW i \in 1..(n + 1) PROVE g.index[g.a[i]] = i
    <3>1. i \in 1..n \/ i = n + 1
      BY <1>1, SMTT(30)
    <3>2. CASE i \in 1..n
      <4>1. g.a[i] = h.a[i] /\ h.a[i] \in E /\ h.index[h.a[i]] = i
        BY <1>1, <1>5, <3>2, Zenon
      <4> QED  BY <1>6, <4>1, Zenon
    <3>3. CASE i = n + 1
      BY <1>5, <1>6, <3>3, Zenon
    <3> QED  BY <3>1, <3>2, <3>3, Zenon
  <2> QED  BY <1>2, <1>5, <1>6, <1>7, <2>1, <2>2, Zenon DEF Shaped
<1>9. Val(g) \in [1..(n + 1) -> Rank] /\ \A c \in 1..n : Val(g)[c] = Val(h)[c]
  <2>1. Val(g) \in [1..(n + 1) -> Rank]
    BY <1>5, <1>8, LessIs
  <2>2. ASSUME NEW c \in 1..n PROVE Val(g)[c] = Val(h)[c]
    <3>1. c \in 1..(n + 1)
      BY <1>1
    <3>2. Val(g)[c] = g.rank[g.a[c]] /\ Val(h)[c] = h.rank[h.a[c]]
      BY <1>5, <3>1, Zenon DEF Val, n
    <3> QED  BY <1>5, <1>7, <3>2, Zenon
  <2> QED  BY <2>1, <2>2
<1>10. Loose(Val(g), n + 1, n + 1) /\ Tops(Val(g), n + 1, n + 1)
  <2>1. \A c \in 2..(n + 1) : c \div 2 \in 1..n /\ c \div 2 # n + 1
    BY <1>1, Parents
  <2>2. ASSUME NEW c \in 2..(n + 1), c # n + 1 PROVE ~Below(Val(g)[c], Val(g)[c \div 2])
    <3>1. c \in 2..n /\ c \in 1..n /\ c \div 2 \in 1..n
      BY <1>1, <2>1, <2>2
    <3>2. ~Below(Val(h)[c], Val(h)[c \div 2])
      BY <1>1, <3>1, Zenon DEF Ordered
    <3> QED  BY <1>9, <3>1, <3>2, Zenon
  <2> QED  BY <2>1, <2>2, Zenon DEF Loose, Tops
<1>11. Rearranged(up(g, n + 1), g, F, n + 1) /\ Ordered(Val(up(g, n + 1)), n + 1)
  <2>1. n + 1 \in 0..Len(g.a) /\ n + 1 \in 1..(n + 1)
    BY <1>1, <1>5
  <2> QED  BY <1>8, <1>10, <2>1, UpRestores
<1>12. DOMAIN up(g, n + 1).rank = F
  BY <1>7, <1>11 DEF Rearranged
<1> QED  BY <1>2, <1>3, <1>5, <1>11, <1>12, Zenon DEF HeapOK, Rearranged

\* heap.Fix, after the value of the entry k has changed.
LEMMA FixKeeps ==
  ASSUME NEW h, HeapOK(h), NEW k \in DOMAIN h.rank, NEW r \in Rank
  PROVE  LET g == [h EXCEPT !.rank[k] = r] IN
         /\ HeapOK(heapFix(g, h.index[k]))
         /\ heapFix(g, h.index[k]).rank = [h.rank EXCEPT ![k] = r]
<1> DEFINE E == DOMAIN h.rank
           n == Len(h.a)
           i == h.index[k]
           g == [h EXCEPT !.rank[k] = r]
<1>1. /\ h = [a |-> h.a, index |-> h.index, rank |-> h.rank]
      /\ h.a \in Seq(E) /\ n \in Nat /\ h.index \in [E -> 1..n] /\ h.rank \in [E -> Rank]
      /\ \A x \in E : h.a[h.index[x]] = x
      /\ \A m \in 1..n : h.index[h.a[m]] = m
      /\ Shaped(h, E) /\ Ordered(Val(h), n) /\ Val(h) \in [1..n -> Rank]
  BY LessIs, Zenon DEF HeapOK, Shaped
<1>2. g.a = h.a /\ g.index = h.index /\ g.rank = [h.rank EXCEPT ![k] = r]
      /\ g = [a |-> g.a, index |-> g.index, rank |-> g.rank]
  <2> DEFINE A == h.a
             X == h.index
             R == h.rank
  <2>1. h = [a |-> A, index |-> X, rank |-> R]
    BY <1>1
  <2> HIDE DEF A, X, R
  <2>2. g = [a |-> A, index |-> X, rank |-> [R EXCEPT ![k] = r]]
    BY <2>1
  <2> QED  BY <2>2 DEF A, X, R
<1>3. heapFix(g, i) = Settle(g, i, Len(g.a))
  BY DEF heapFix
<1>4. k \in E /\ i \in 1..n
  BY <1>1
<1> HIDE DEF E, n, g
<1>5. g.rank \in [E -> Rank] /\ \A x \in E : x # k => g.rank[x] = h.rank[x]
  BY <1>1, <1>2, <1>4
<1>6. Shaped(g, E) /\ Len(g.a) = n
  BY <1>1, <1>2, <1>5 DEF Shaped, n
<1>7. ASSUME NEW c \in 1..n, c # i PROVE Val(g)[c] = Val(h)[c]
  <2>1. h.a[c] \in E /\ h.a[c] # k
    BY <1>1, <1>7 DEF n
  <2>2. Val(g)[c] = g.rank[h.a[c]] /\ Val(h)[c] = h.rank[h.a[c]]
    BY <1>2, <1>6, Zenon DEF Val, n
  <2> QED  BY <1>5, <2>1, <2>2
<1> HIDE DEF i
<1>8. n \in 0..n /\ n \in 0..Len(g.a)
  BY <1>1, <1>6
<1>9. Loose(Val(g), i, n)
  BY <1>1, <1>4, <1>7, <1>8, OneChanged, Zenon
<1>10. Rearranged(Settle(g, i, n), g, E, n) /\ Ordered(Val(Settle(g, i, n)), n)
  BY <1>4, <1>6, <1>8, <1>9, SettleRestores
<1>11. heapFix(g, i) = Settle(g, i, n)
  BY <1>3, <1>6
<1>12. HeapOK(heapFix(g, i)) /\ heapFix(g, i).rank = g.rank
  <2>1. DOMAIN Settle(g, i, n).rank = E
    BY <1>5, <1>10 DEF Rearranged
  <2> QED  BY <1>6, <1>10, <1>11, <2>1, Zenon DEF HeapOK, Rearranged
<1> QED  BY <1>2, <1>12 DEF g, i

\* heap.Remove before it calls Pop: the entry is the last of the array and the
\* others are in order.
LEMMA RemoveMovesToEnd ==
  ASSUME NEW h, HeapOK(h), NEW k \in DOMAIN h.rank
  PROVE  LET n == Len(h.a)
             i == h.index[k]
             m == IF i = n THEN h ELSE Settle(Swap(h, i, n), i, n - 1)
         IN  /\ Shaped(m, DOMAIN h.rank) /\ m.rank = h.rank /\ Len(m.a) = n /\ m.a[n] = k
             /\ n \in Nat \ {0} /\ Ordered(Val(m), n - 1)
<1> DEFINE E == DOMAIN h.rank
           n == Len(h.a)
           i == h.index[k]
           g == Swap(h, i, n)
           m == IF i = n THEN h ELSE Settle(g, i, n - 1)
<1>1. /\ h.a \in Seq(E) /\ n \in Nat /\ h.index \in [E -> 1..n] /\ h.rank \in [E -> Rank]
      /\ \A x \in E : h.a[h.index[x]] = x
      /\ Shaped(h, E) /\ Ordered(Val(h), n) /\ Val(h) \in [1..n -> Rank]
  BY LessIs, Zenon DEF HeapOK, Shaped
<1>2. k \in E /\ i \in 1..n /\ h.a[i] = k /\ n \in 1..n /\ n \in Nat \ {0} /\ n - 1 \in 0..n
  BY <1>1
<1> HIDE DEF E, n, i
<1>3. CASE i = n
  <2>1. m = h /\ Ordered(Val(h), n - 1)
    BY <1>1, <1>2, <1>3 DEF Ordered
  <2> QED  BY <1>1, <1>2, <1>3, <2>1 DEF E, n, i
<1>4. CASE i # n
  <2>1. /\ Shaped(g, E) /\ g.rank = h.rank /\ Len(g.a) = n /\ g.a[n] = k
        /\ Val(g) = Exchange(Val(h), i, n)
    <3>1. i \in 1..Len(h.a) /\ n \in 1..Len(h.a)
      BY <1>2 DEF n
    <3>2. /\ Shaped(g, E) /\ g.rank = h.rank /\ Len(g.a) = Len(h.a) /\ g.a[n] = h.a[i]
          /\ Val(g) = Exchange(Val(h), i, n)
      BY <1>1, <1>4, <3>1, SwapIs
    <3> QED  BY <1>2, <3>2 DEF n
  <2>2. m = Settle(g, i, n - 1)
    BY <1>4
  <2> HIDE DEF g, m
  <2>3. \A c \in 1..(n - 1) : c # i => Val(g)[c] = Val(h)[c]
    BY <1>1, <1>2, <2>1 DEF Exchange
  <2>4. i \in 1..(n - 1) /\ n - 1 \in 0..Len(g.a) /\ n \in ((n - 1) + 1)..Len(g.a)
    BY <1>2, <1>4, <2>1
  <2>5. Loose(Val(g), i, n - 1)
    BY <1>1, <1>2, <2>3, <2>4, OneChanged
  <2>6. Rearranged(m, g, E, n - 1) /\ Ordered(Val(m), n - 1)
    BY <2>1, <2>2, <2>4, <2>5, SettleRestores
  <2>7. Shaped(m, E) /\ m.rank = h.rank /\ Len(m.a) = n /\ m.a[n] = k
    BY <2>1, <2>4, <2>6 DEF Rearranged
  <2> QED  BY <1>2, <2>6, <2>7 DEF m, g, E, n, i
<1> QED  BY <1>3, <1>4

\* heap.Remove, and the entry is deleted from the map.
LEMMA RemoveKeeps ==
  ASSUME NEW h, HeapOK(h), NEW k \in DOMAIN h.rank
  PROVE  LET g == [heapRemove(h, h.index[k]) EXCEPT !.rank = Drop(@, k)] IN
         HeapOK(g) /\ g.rank = Drop(h.rank, k)
<1> DEFINE E == DOMAIN h.rank
           F == E \ {k}
           n == Len(h.a)
           i == h.index[k]
           m == IF i = n THEN h ELSE Settle(Swap(h, i, n), i, n - 1)
           g == [heapRemove(h, i) EXCEPT !.rank = Drop(@, k)]
<1>1. /\ Shaped(m, E) /\ m.rank = h.rank /\ Len(m.a) = n /\ m.a[n] = k
      /\ n \in Nat \ {0} /\ Ordered(Val(m), n - 1)
  BY RemoveMovesToEnd
<1>2. heapRemove(h, i) = Pop(m)
  BY DEF heapRemove
<1> HIDE DEF m, n, i
<1>3. /\ m.a \in Seq(E) /\ m.index \in [E -> 1..n] /\ m.rank \in [E -> Rank]
      /\ \A x \in E : m.a[m.index[x]] = x
      /\ \A c \in 1..n : m.index[m.a[c]] = c
  BY <1>1, Zenon DEF Shaped
<1>4. Pop(m) = [a |-> SubSeq(m.a, 1, n - 1), index |-> Drop(m.index, k), rank |-> h.rank]
  BY <1>1 DEF Pop
<1>5. g = [a |-> SubSeq(m.a, 1, n - 1), index |-> Drop(m.index, k), rank |-> Drop(h.rank, k)]
  <2> DEFINE A == SubSeq(m.a, 1, n - 1)
             X == Drop(m.index, k)
             R == h.rank
  <2>1. g = [[a |-> A, index |-> X, rank |-> R] EXCEPT !.rank = Drop(@, k)]
    BY <1>2, <1>4
  <2> HIDE DEF A, X, R, g
  <2>2. g = [a |-> A, index |-> X, rank |-> Drop(R, k)]
    BY <2>1
  <2> QED  BY <2>2 DEF A, X, R
<1>6. /\ g.a = SubSeq(m.a, 1, n - 1) /\ g.index = Drop(m.index, k) /\ g.rank = Drop(h.rank, k)
      /\ g = [a |-> g.a, index |-> g.index, rank |-> g.rank]
  BY <1>5
<1> HIDE DEF g
<1>7. \A c \in 1..(n - 1) : c \in 1..n /\ m.a[c] \in E /\ m.a[c] # k
  <2> TAKE c \in 1..(n - 1)
  <2>1. c \in 1..n /\ n \in 1..n /\ c # n
    BY <1>1
  <2>2. m.a[c] \in E
    BY <1>1, <1>3, <2>1
  <2>3. m.index[m.a[c]] = c /\ m.index[k] = n
    BY <1>1, <1>3, <2>1
  <2> QED  BY <2>1, <2>2, <2>3
<1>8. g.a \in Seq(F) /\ Len(g.a) = n - 1 /\ \A c \in 1..(n - 1) : g.a[c] = m.a[c]
  <2>1. g.a = [c \in 1..(n - 1) |-> m.a[c]]
    BY <1>1, <1>3, <1>6
  <2>2. n - 1 \in Nat
    BY <1>1
  <2>3. g.a \in [1..(n - 1) -> F]
    BY <1>7, <2>1
  <2> QED  BY <2>1, <2>2, <2>3, FunctionIsSeq
<1>9. g.index \in [F -> 1..(n - 1)] /\ \A x \in F : g.index[x] = m.index[x]
  <2>1. g.index \in [F -> 1..n] /\ \A x \in F : g.index[x] = m.index[x]
    BY <1>3, <1>6 DEF Drop
  <2>2. ASSUME NEW x \in F PROVE g.index[x] \in 1..(n - 1)
    <3>1. m.index[x] \in 1..n /\ m.a[m.index[x]] = x /\ x # k
      BY <1>3
    <3>2. m.index[x] # n
      BY <1>1, <3>1
    <3> QED  BY <1>1, <2>1, <3>1, <3>2
  <2> QED  BY <2>1, <2>2
<1>10. g.rank \in [F -> Rank] /\ \A x \in F : g.rank[x] = m.rank[x]
  BY <1>1, <1>3, <1>6 DEF Drop
<1>11. Shaped(g, F)
  <2>1. ASSUME NEW x \in F PROVE g.a[g.index[x]] = x
    <3>1. g.index[x] \in 1..(n - 1) /\ g.index[x] = m.index[x] /\ x \in E
      BY <1>9
    <3> QED  BY <1>3, <1>8, <3>1, Zenon
  <2>2. ASSUME NEW c \in 1..(n - 1) PROVE g.index[g.a[c]] = c
    <3>1. g.a[c] = m.a[c] /\ m.a[c] \in F /\ c \in 1..n
      BY <1>7, <1>8
    <3> QED  BY <1>3, <1>9, <3>1, Zenon
  <2> QED  BY <1>6, <1>8, <1>9, <1>10, <2>1, <2>2, Zenon DEF Shaped
<1>12. \A c \in 1..(n - 1) : Val(g)[c] = Val(m)[c]
  <2> TAKE c \in 1..(n - 1)
  <2>1. c \in 1..n /\ m.a[c] \in F /\ g.a[c] = m.a[c]
    BY <1>7, <1>8
  <2>2. Val(g)[c] = g.rank[g.a[c]] /\ Val(m)[c] = m.rank[m.a[c]]
    BY <1>1, <1>8, <2>1, Zenon DEF Val
  <2> QED  BY <1>10, <2>1, <2>2, Zenon
<1>13. Ordered(Val(g), n - 1)
  <2> SUFFICES ASSUME NEW c \in 2..(n - 1) PROVE ~Below(Val(g)[c], Val(g)[c \div 2])
    BY DEF Ordered
  <2>1. c \in 1..(n - 1) /\ c \div 2 \in 1..(n - 1)
    BY <1>1, Parents
  <2> QED  BY <1>1, <1>12, <2>1, Zenon DEF Ordered
<1>14. DOMAIN g.rank = F
  BY <1>10
<1>15. HeapOK(g)
  BY <1>8, <1>11, <1>13, <1>14, Zenon DEF HeapOK
<1> QED  BY <1>6, <1>15 DEF g, i

\* The index fields of a heap agree with the array.
LEMMA IndexesOfHeap ==
  ASSUME HeapOK(heap)
  PROVE  IndexesAgree
<1> DEFINE E == DOMAIN heap.rank
<1>1. /\ heap.a \in Seq(E) /\ heap.index \in [E -> 1..Len(heap.a)]
      /\ \A k \in E : heap.a[heap.index[k]] = k
      /\ \A i \in 1..Len(heap.a) : heap.index[heap.a[i]] = i
  BY DEF HeapOK, Shaped
<1>2. Distinct(heap.a)
  BY <1>1, Zenon DEF Distinct
<1>3. Range(heap.a) = E
  BY <1>1 DEF Range
<1>4. Cardinality(E) = Len(heap.a)
  BY <1>1, <1>2, <1>3, LenIsCardinality
<1> QED  BY <1>1, <1>4 DEF IndexesAgree, Entries

\* The first entry of the array is one that Less puts before no other.
LEMMA FirstIsLeast ==
  ASSUME NEW h, HeapOK(h), h.a # << >>
  PROVE  h.a[1] \in DOMAIN h.rank /\ \A k \in DOMAIN h.rank : ~Below(h.rank[k], h.rank[h.a[1]])
<1> DEFINE E == DOMAIN h.rank
           n == Len(h.a)
<1>1. /\ h.a \in Seq(E) /\ n \in Nat /\ h.index \in [E -> 1..n]
      /\ \A x \in E : h.a[h.index[x]] = x
      /\ Ordered(Val(h), n) /\ Val(h) \in [1..n -> Rank]
  BY LessIs, Zenon DEF HeapOK, Shaped
<1>2. 1 \in 1..n /\ h.a[1] \in E
  BY <1>1
<1>3. ASSUME NEW k \in E PROVE ~Below(h.rank[k], h.rank[h.a[1]])
  <2>1. h.index[k] \in 1..n /\ h.a[h.index[k]] = k
    BY <1>1
  <2>2. ~Below(Val(h)[h.index[k]], Val(h)[1])
    BY <1>1, <2>1, TopIsLeast, Zenon
  <2>3. Val(h)[h.index[k]] = h.rank[k] /\ Val(h)[1] = h.rank[h.a[1]]
    BY <1>2, <2>1, Zenon DEF Val
  <2> QED  BY <2>2, <2>3
<1> QED  BY <1>2, <1>3

-----------------------------------------------------------------------------
(* The invariant and the refinement. *)

\* The inductive invariant.
Inv ==
  /\ policy \in DOMAIN Capacity /\ now \in Nat
  /\ \E s : Holds(s)
  /\ HeapOK(heap)

\* What the abstract policy is given as its state.
View == IF policy = "lru" THEN [i \in 1..Size |-> After[i]] ELSE heap.rank

\* The key at position i is found there.
LEMMA PlaceIs ==
  ASSUME NEW s \in Seq(Key), Distinct(s), NEW i \in 1..Len(s)
  PROVE  Policy!place(s, s[i]) = i
<1> DEFINE P(j) == s[j] = s[i] /\ \A m \in 1..(j - 1) : s[m] # s[i]
<1>1. DOMAIN s = 1..Len(s) /\ i \in DOMAIN s
  OBVIOUS
<1>2. P(i)
  <2>1. \A m \in 1..(i - 1) : m \in 1..Len(s) /\ m # i
    OBVIOUS
  <2> QED  BY <2>1, Zenon DEF Distinct
<1>3. \A j \in DOMAIN s : P(j) => j = i
  BY <1>1, Zenon DEF Distinct
<1>4. Policy!place(s, s[i]) = CHOOSE j \in DOMAIN s : P(j)
  BY DEF Policy!place
<1> HIDE DEF P
<1> QED  BY <1>1, <1>2, <1>3, <1>4, Zenon

\* What the abstract LRU does with an order.
LEMMA AbstractLRU ==
  ASSUME NEW s \in Seq(Key), Distinct(s), NEW i \in 1..Len(s)
  PROVE  /\ Policy!lruOnAccess(s, s[i]) = <<s[i]>> \o Cut(s, i)
         /\ Policy!lruOnEvict(s, s[i]) = Cut(s, i)
<1>1. Policy!place(s, s[i]) = i
  BY PlaceIs
<1>2. s[i] \in Policy!Range(s)
  BY DEF Policy!Range
<1>3. Policy!removeNode(s, i) = Cut(s, i)
  BY DEF Policy!removeNode, Cut
<1> QED  BY <1>1, <1>2, <1>3, Zenon DEF Policy!lruOnAccess, Policy!lruOnEvict

\* In every state the walk along the list gives its order.
LEMMA ViewOfList == \A s : Holds(s) => [i \in 1..Size |-> After[i]] = s
BY ListIs

\* An order in the next state is what the abstract LRU sees there.
LEMMA NextOrder ==
  ASSUME NEW t, Holds(t)', policy = "lru", policy' = policy
  PROVE  View' = t
<1>1. (\A s : Holds(s) => [i \in 1..Size |-> After[i]] = s)'
  BY ViewOfList, PTL
<1>2. (View = [i \in 1..Size |-> After[i]])'
  BY DEF View
<1> QED  BY <1>1, <1>2, Zenon

\* The pointers after an Assign.
LEMMA AssignHolds ==
  ASSUME NEW l, NEW t, Linked(l, t), Assign(l), nodes' = Range(t)
  PROVE  Holds(t)'
<1>1. List' = l
  BY DEF Linked, Assign, List
<1>2. Linked(List', t)
  BY <1>1
<1> QED  BY <1>2 DEF Holds, Linked, NodeAt, Distinct, Node

\* A heap in order stays so while the policy is the same.
LEMMA CarryHeap ==
  ASSUME NEW g, HeapOK(g), heap' = g, policy' = policy
  PROVE  HeapOK(heap)'
<1>1. Rank' = Rank
  BY DEF Rank
<1>2. Shaped(g, DOMAIN g.rank) /\ Ordered(Val(g), Len(g.a))
  BY DEF HeapOK
<1>3. Shaped(heap, DOMAIN heap.rank)'
  BY <1>1, <1>2 DEF Shaped
<1>4. Ordered(Val(heap), Len(heap.a))'
  <2>1. ASSUME NEW c \in 2..Len(g.a) PROVE ~Below(Val(g)[c], Val(g)[c \div 2])
    BY <1>2 DEF Ordered
  <2>2. Val(heap)' = Val(g)
    BY DEF Val
  <2> DEFINE v == Val(g)
             n == Len(g.a)
  <2>3. \A c \in 2..n : ~Below(v[c], v[c \div 2])
    BY <2>1
  <2>4. Val(heap)' = v /\ Len(heap.a)' = n
    BY <2>2
  <2> HIDE DEF v, n
  <2> QED  BY <2>3, <2>4 DEF Ordered, Below
<1> QED  BY <1>3, <1>4 DEF HeapOK

\* The policies that are modelled with their structures.
LEMMA PolicyIs ==
  ASSUME policy \in DOMAIN Capacity
  PROVE  policy \in {"lru", "lfu", "ttl"} /\ policy \in Policy!Policies
BY PolicyAssumption DEF Policy!Policies

\* lru.go: OnAccess.
LEMMA LRUAccess ==
  ASSUME NEW s, Holds(s), policy = "lru", NEW k \in Key, lruOnAccess(k)
  PROVE  (\E t : Holds(t)') /\ Policy!Access(k)
<1>1. policy' = policy /\ call' = <<"OnAccess", k>> /\ victim' = None /\ now' = now /\ nodes' = nodes
  BY DEF lruOnAccess, Called
<1>2. Linked(List, s) /\ Range(s) = nodes /\ s \in Seq(Key) /\ Distinct(s)
  BY DEF Holds, Linked
<1>3. View = s
  BY ListIs DEF View
<1> SUFFICES \E t : Holds(t)' /\ t = Policy!lruOnAccess(s, k)
  <2>1. PICK t : Holds(t)' /\ t = Policy!lruOnAccess(s, k)
    OBVIOUS
  <2>2. View' = t
    BY <1>1, <2>1, NextOrder
  <2>3. View' = Policy!OnAccess(policy, View, k, now)
    BY <1>3, <2>1, <2>2 DEF Policy!OnAccess
  <2> QED  BY <1>1, <2>1, <2>3 DEF Policy!Access, View
<1>4. CASE k \in nodes
  <2>1. PICK i \in 1..Len(s) : s[i] = k
    BY <1>2, <1>4 DEF Range
  <2> DEFINE r == Cut(s, i)
             l == removeNode(List, k)
  <2>2. Linked(l, r)
    BY <1>2, <2>1, RemoveLinks
  <2>3. r \in Seq(Key) /\ Distinct(r) /\ Range(r) = nodes \ {k}
    BY <1>2, <2>1, CutSet
  <2> HIDE DEF r, l
  <2>4. Linked(insertAtFront(l, k), <<k>> \o r)
    BY <2>2, <2>3, InsertLinks
  <2>5. Range(<<k>> \o r) = nodes
    <3>1. k \notin Range(r)
      BY <2>3
    <3>2. Range(<<k>> \o r) = Range(r) \cup {k}
      BY <2>3, <3>1, ConsSet
    <3> QED  BY <1>4, <2>3, <3>2, Zenon
  <2>6. Assign(insertAtFront(l, k))
    BY <1>4 DEF lruOnAccess, moveToFront, l
  <2>7. Holds(<<k>> \o r)'
    BY <1>1, <2>4, <2>5, <2>6, AssignHolds
  <2>8. <<k>> \o r = Policy!lruOnAccess(s, k)
    BY <1>2, <2>1, AbstractLRU DEF r
  <2> QED  BY <2>7, <2>8, Zenon
<1>5. CASE k \notin nodes
  <2>1. Assign(List)
    BY <1>5 DEF lruOnAccess
  <2>2. Holds(s)'
    BY <1>1, <1>2, <2>1, AssignHolds
  <2>3. Policy!lruOnAccess(s, k) = s
    BY <1>2, <1>5 DEF Policy!lruOnAccess, Policy!Range, Range
  <2> QED  BY <2>2, <2>3
<1> QED  BY <1>4, <1>5

\* lru.go: OnInsert.
LEMMA LRUInsert ==
  ASSUME NEW s, Holds(s), policy = "lru", NEW k \in Key, lruOnInsert(k)
  PROVE  (\E t : Holds(t)') /\ Policy!Insert(k, 0)
<1>1. policy' = policy /\ call' = <<"OnInsert", k>> /\ victim' = None /\ now' = now
      /\ k \notin nodes /\ nodes' = nodes \cup {k} /\ Assign(insertAtFront(List, k))
  BY DEF lruOnInsert, Called
<1>2. Linked(List, s) /\ Range(s) = nodes /\ s \in Seq(Key) /\ Distinct(s)
  BY DEF Holds, Linked
<1>3. View = s
  BY ListIs DEF View
<1> DEFINE t == <<k>> \o s
<1>4. Linked(insertAtFront(List, k), t)
  BY <1>1, <1>2, InsertLinks
<1>5. nodes' = Range(t)
  BY <1>1, <1>2, ConsSet
<1>6. Holds(t)'
  <2> HIDE DEF t
  <2> QED  BY <1>1, <1>4, <1>5, AssignHolds
<1>7. View' = t
  <2> HIDE DEF t
  <2> QED  BY <1>1, <1>6, NextOrder
<1>8. View' = Policy!OnInsert(policy, View, k, 0, now)
  BY <1>3, <1>7 DEF Policy!OnInsert, Policy!lruOnInsert
<1>9. k \notin Policy!Tracked(policy, View)
  BY <1>1, <1>2, <1>3 DEF Policy!Tracked, Policy!Range, Range
<1> QED  BY <1>1, <1>6, <1>8, <1>9 DEF Policy!Insert, View

\* lru.go: OnEvict.
LEMMA LRUForget ==
  ASSUME NEW s, Holds(s), policy = "lru", NEW k \in Key, lruOnEvict(k)
  PROVE  (\E t : Holds(t)') /\ Policy!Forget(k)
<1>1. policy' = policy /\ call' = <<"OnEvict", k>> /\ victim' = None /\ now' = now /\ nodes' = nodes \ {k}
  BY DEF lruOnEvict, Called
<1>2. Linked(List, s) /\ Range(s) = nodes /\ s \in Seq(Key) /\ Distinct(s)
  BY DEF Holds, Linked
<1>3. View = s
  BY ListIs DEF View
<1> SUFFICES \E t : Holds(t)' /\ t = Policy!lruOnEvict(s, k)
  <2>1. PICK t : Holds(t)' /\ t = Policy!lruOnEvict(s, k)
    OBVIOUS
  <2>2. View' = t
    BY <1>1, <2>1, NextOrder
  <2>3. View' = Policy!OnEvict(policy, View, k)
    BY <1>3, <2>1, <2>2 DEF Policy!OnEvict
  <2> QED  BY <1>1, <2>1, <2>3 DEF Policy!Forget, View
<1>4. CASE k \in nodes
  <2>1. PICK i \in 1..Len(s) : s[i] = k
    BY <1>2, <1>4 DEF Range
  <2> DEFINE r == Cut(s, i)
  <2>2. Linked(removeNode(List, k), r)
    BY <1>2, <2>1, RemoveLinks
  <2>3. Range(r) = nodes \ {k}
    BY <1>2, <2>1, CutSet
  <2> HIDE DEF r
  <2>4. Assign(removeNode(List, k))
    BY <1>4 DEF lruOnEvict
  <2>5. Holds(r)'
    BY <1>1, <2>2, <2>3, <2>4, AssignHolds
  <2>6. r = Policy!lruOnEvict(s, k)
    BY <1>2, <2>1, AbstractLRU, Zenon DEF r
  <2> QED  BY <2>5, <2>6
<1>5. CASE k \notin nodes
  <2>1. Assign(List) /\ nodes' = nodes
    BY <1>1, <1>5 DEF lruOnEvict
  <2>2. Holds(s)'
    BY <1>2, <2>1, AssignHolds
  <2>3. Policy!lruOnEvict(s, k) = s
    BY <1>2, <1>5 DEF Policy!lruOnEvict, Policy!Range, Range
  <2> QED  BY <2>2, <2>3
<1> QED  BY <1>4, <1>5

\* lru.go: Evict.
LEMMA LRUChoose ==
  ASSUME NEW s, Holds(s), policy = "lru", lruEvict
  PROVE  (\E t : Holds(t)') /\ Policy!Choose
<1>1. policy' = policy /\ call' = <<"Evict", None>> /\ now' = now
      /\ victim' = (IF prev[tail] = head THEN None ELSE prev[tail])
      /\ next' = next /\ prev' = prev /\ nodes' = nodes
  BY DEF lruEvict, Returned, listVars
<1>2. Linked(List, s) /\ Range(s) = nodes /\ s \in Seq(Key) /\ Distinct(s) /\ Len(s) \in Nat
  BY DEF Holds, Linked
<1>3. View = s
  BY ListIs DEF View
<1>4. Holds(s)'
  <2>1. Assign(List) /\ nodes' = Range(s)
    BY <1>1, <1>2 DEF Assign, List
  <2> QED  BY <1>2, <2>1, AssignHolds
<1>5. View' = s
  BY <1>1, <1>4, NextOrder
<1>6. prev[tail] = NodeAt(s, Len(s))
  <2>1. Len(s) \in 0..Len(s) /\ NodeAt(s, Len(s) + 1) = tail
    BY <1>2 DEF NodeAt
  <2>2. List.prev[NodeAt(s, Len(s) + 1)] = NodeAt(s, Len(s))
    BY <1>2, <2>1 DEF Linked
  <2> QED  BY <2>1, <2>2 DEF List
<1>7. Policy!Evict(policy, s) = IF s = << >> THEN {} ELSE {s[Len(s)]}
  BY DEF Policy!Evict, Policy!lruEvict
<1>8. victim' \in IF Policy!Evict(policy, s) = {} THEN {None} ELSE Policy!Evict(policy, s)
  <2>1. CASE s = << >>
    <3>1. NodeAt(s, Len(s)) = head
      BY <2>1 DEF NodeAt
    <3> QED  BY <1>1, <1>6, <1>7, <2>1, <3>1
  <2>2. CASE s # << >>
    <3>1. Len(s) \in 1..Len(s) /\ Len(s) # 0 /\ Len(s) # Len(s) + 1
      BY <1>2, <2>2
    <3>2. NodeAt(s, Len(s)) = s[Len(s)] /\ s[Len(s)] # head
      BY <1>2, <3>1, LRUAssumption DEF NodeAt
    <3> QED  BY <1>1, <1>6, <1>7, <2>2, <3>2
  <2> QED  BY <2>1, <2>2
<1>9. View' = View
  BY <1>3, <1>5
<1> QED  BY <1>1, <1>3, <1>4, <1>8, <1>9, Zenon DEF Policy!Choose, View

\* lfu.go: OnAccess.
LEMMA LFUAccess ==
  ASSUME HeapOK(heap), policy = "lfu", now \in Nat, NEW k \in Key, lfuOnAccess(k)
  PROVE  HeapOK(heap)' /\ Policy!Access(k)
<1>1. policy' = policy /\ call' = <<"OnAccess", k>> /\ victim' = None /\ now' = now
  BY DEF lfuOnAccess, Called
<1>2. View = heap.rank /\ View' = heap.rank'
  BY <1>1 DEF View
<1>3. heap.rank \in [Entries -> Rank] /\ Rank = [freq : Nat, accessedAt : Nat]
  BY DEF HeapOK, Shaped, Rank, Entries
<1>4. CASE k \in Entries
  <2> DEFINE r == [freq |-> heap.rank[k].freq + 1, accessedAt |-> now]
             g == [heap EXCEPT !.rank[k] = r]
             f == heapFix(g, heap.index[k])
  <2>1. r \in Rank
    BY <1>3, <1>4
  <2>2. Used(k) = g
    BY DEF Used
  <2>3. heap' = f
    BY <1>4, <2>2 DEF lfuOnAccess
  <2>4. HeapOK(f) /\ f.rank = [heap.rank EXCEPT ![k] = r]
    <3> HIDE DEF r
    <3> QED  BY <1>4, <2>1, FixKeeps DEF Entries
  <2>5. HeapOK(heap)'
    <3> HIDE DEF f
    <3> QED  BY <1>1, <2>3, <2>4, CarryHeap
  <2>6. [heap.rank EXCEPT ![k] = r] = Policy!With(heap.rank, k, r)
    <3> HIDE DEF r
    <3> QED  BY <1>3, <1>4 DEF Policy!With
  <2>7. heap.rank' = Policy!lfuOnAccess(heap.rank, k, now)
    <3>1. heap.rank' = Policy!With(heap.rank, k, r)
      BY <2>3, <2>4, <2>6
    <3> QED  BY <1>4, <3>1 DEF Policy!lfuOnAccess, Entries
  <2>8. View' = Policy!OnAccess(policy, View, k, now)
    BY <1>2, <2>7 DEF Policy!OnAccess
  <2> QED  BY <1>1, <2>5, <2>8 DEF Policy!Access, View
<1>5. CASE k \notin Entries
  <2>1. heap' = heap
    BY <1>5 DEF lfuOnAccess
  <2>2. HeapOK(heap)'
    BY <1>1, <2>1, CarryHeap
  <2>3. View' = Policy!OnAccess(policy, View, k, now)
    BY <1>2, <1>5, <2>1 DEF Policy!OnAccess, Policy!lfuOnAccess, Entries
  <2> QED  BY <1>1, <2>2, <2>3 DEF Policy!Access, View
<1> QED  BY <1>4, <1>5

\* lfu.go and ttl.go: OnInsert.
LEMMA HeapInsert ==
  ASSUME HeapOK(heap), policy \in {"lfu", "ttl"}, now \in Nat, NEW k \in Key, NEW e \in 0..MaxTime,
         NEW r, r = (IF policy = "lfu" THEN [freq |-> 1, accessedAt |-> now] ELSE e), heapOnInsert(k, r)
  PROVE  HeapOK(heap)' /\ Policy!Insert(k, e)
<1>1. policy' = policy /\ call' = <<"OnInsert", k>> /\ victim' = None /\ now' = now
      /\ k \notin DOMAIN heap.rank /\ heap' = heapPush(heap, k, r)
  BY DEF heapOnInsert, Called, Entries
<1>2. View = heap.rank /\ View' = heap.rank'
  BY <1>1 DEF View
<1>3. r \in Rank
  <2>1. CASE policy = "lfu"
    <3>1. Rank = [freq : Nat, accessedAt : Nat] /\ r = [freq |-> 1, accessedAt |-> now]
      BY <2>1 DEF Rank
    <3> QED  BY <3>1
  <2>2. CASE policy = "ttl"
    BY <2>2, PolicyAssumption DEF Rank
  <2> QED  BY <2>1, <2>2
<1> DEFINE f == heapPush(heap, k, r)
<1>4. HeapOK(f) /\ f.rank = Extend(heap.rank, k, r)
  BY <1>1, <1>3, PushKeeps
<1>5. HeapOK(heap)'
  <2> HIDE DEF f
  <2> QED  BY <1>1, <1>4, CarryHeap DEF f
<1>6. heap.rank' = Policy!With(heap.rank, k, r)
  BY <1>1, <1>4 DEF Policy!With, Extend
<1>7. View' = Policy!OnInsert(policy, View, k, e, now)
  BY <1>2, <1>6 DEF Policy!OnInsert, Policy!lfuOnInsert, Policy!ttlOnInsert
<1>8. k \notin Policy!Tracked(policy, View)
  BY <1>1, <1>2 DEF Policy!Tracked
<1> QED  BY <1>1, <1>5, <1>7, <1>8 DEF Policy!Insert, View

\* lfu.go and ttl.go: OnEvict.
LEMMA HeapForget ==
  ASSUME HeapOK(heap), policy \in {"lfu", "ttl"}, NEW k \in Key, heapOnEvict(k)
  PROVE  HeapOK(heap)' /\ Policy!Forget(k)
<1>1. policy' = policy /\ call' = <<"OnEvict", k>> /\ victim' = None /\ now' = now
  BY DEF heapOnEvict, Called
<1>2. View = heap.rank /\ View' = heap.rank'
  BY <1>1 DEF View
<1> SUFFICES HeapOK(heap)' /\ heap.rank' = Policy!Without(heap.rank, k)
  <2>1. View' = Policy!OnEvict(policy, View, k)
    BY <1>2 DEF Policy!OnEvict
  <2> QED  BY <1>1, <2>1 DEF Policy!Forget, View
<1>3. CASE k \in Entries
  <2> DEFINE g == [heapRemove(heap, heap.index[k]) EXCEPT !.rank = Drop(@, k)]
  <2>1. heap' = g
    BY <1>3 DEF heapOnEvict
  <2>2. HeapOK(g) /\ g.rank = Drop(heap.rank, k)
    BY <1>3, RemoveKeeps DEF Entries
  <2> HIDE DEF g
  <2>3. HeapOK(heap)'
    BY <1>1, <2>1, <2>2, CarryHeap
  <2> QED  BY <2>1, <2>2, <2>3 DEF Policy!Without, Drop
<1>4. CASE k \notin Entries
  <2>1. heap' = heap
    BY <1>4 DEF heapOnEvict
  <2>2. HeapOK(heap)'
    BY <1>1, <2>1, CarryHeap
  <2>3. heap.rank \in [Entries -> Rank]
    BY DEF HeapOK, Shaped, Entries
  <2>4. Policy!Without(heap.rank, k) = heap.rank
    BY <1>4, <2>3 DEF Policy!Without
  <2> QED  BY <2>1, <2>2, <2>4
<1> QED  BY <1>3, <1>4

\* lfu.go and ttl.go: Evict.
LEMMA HeapChoose ==
  ASSUME HeapOK(heap), policy \in {"lfu", "ttl"}, heapEvict
  PROVE  HeapOK(heap)' /\ Policy!Choose
<1> DEFINE R == heap.rank
<1>1. policy' = policy /\ call' = <<"Evict", None>> /\ now' = now /\ heap' = heap
      /\ victim' = (IF heap.a = << >> THEN None ELSE heap.a[1])
  BY DEF heapEvict, Returned
<1>2. View = R /\ View' = R
  BY <1>1 DEF View
<1>3. HeapOK(heap)'
  BY <1>1, CarryHeap
<1>4. /\ heap.a \in Seq(DOMAIN R) /\ R \in [DOMAIN R -> Rank] /\ heap.index \in [DOMAIN R -> 1..Len(heap.a)]
  BY DEF HeapOK, Shaped
<1>5. Policy!Evict(policy, R) = {k \in DOMAIN R : \A j \in DOMAIN R : ~Below(R[j], R[k])}
  <2>1. \A k \in DOMAIN R : R[k] \in Rank
    BY <1>4
  <2> HIDE DEF R
  <2>2. CASE policy = "lfu"
    <3>1. \A x, y \in Rank : Policy!lfuLess(x, y) <=> Below(x, y)
      BY <2>2 DEF Policy!lfuLess, Below, Rank
    <3>2. Policy!Evict(policy, R) = {k \in DOMAIN R : \A j \in DOMAIN R : ~Policy!lfuLess(R[j], R[k])}
      BY <2>2 DEF Policy!Evict, Policy!lfuEvict
    <3> QED  BY <2>1, <3>1, <3>2
  <2>3. CASE policy = "ttl"
    <3>1. Policy!Evict(policy, R) = {k \in DOMAIN R : \A j \in DOMAIN R : ~(R[j] < R[k])}
      BY <2>3 DEF Policy!Evict, Policy!ttlEvict
    <3> QED  BY <2>3, <3>1 DEF Below
  <2> QED  BY <2>2, <2>3
<1>6. victim' \in IF Policy!Evict(policy, R) = {} THEN {None} ELSE Policy!Evict(policy, R)
  <2>1. CASE heap.a = << >>
    <3>1. DOMAIN R = {}
      BY <1>4, <2>1
    <3>2. Policy!Evict(policy, R) = {}
      BY <1>5, <3>1, Zenon
    <3> QED  BY <1>1, <2>1, <3>2
  <2>2. CASE heap.a # << >>
    <3>1. heap.a[1] \in DOMAIN R /\ \A k \in DOMAIN R : ~Below(R[k], R[heap.a[1]])
      BY <2>2, FirstIsLeast
    <3>2. heap.a[1] \in Policy!Evict(policy, R)
      BY <1>5, <3>1, Zenon
    <3> QED  BY <1>1, <2>2, <3>2
  <2> QED  BY <2>1, <2>2
<1> QED  BY <1>1, <1>2, <1>3, <1>6, Zenon DEF Policy!Choose, View

-----------------------------------------------------------------------------
\* The empty list and the empty heap.
LEMMA InitKeeps == Init => Inv /\ Policy!Init
<1> SUFFICES ASSUME Init PROVE Inv /\ Policy!Init
  OBVIOUS
<1>1. policy \in DOMAIN Capacity /\ now = 0 /\ call = None /\ victim = None /\ NewLRU /\ NewHeap
  BY DEF Init
<1>2. Holds(<< >>)
  <2>1. << >> \in Seq(Key) /\ Len(<< >>) = 0 /\ Distinct(<< >>) /\ Range(<< >>) = {}
    BY DEF Distinct, Range
  <2>2. NodeAt(<< >>, 0) = head /\ NodeAt(<< >>, 1) = tail
    BY DEF NodeAt
  <2>3. head \in Node /\ tail \in Node /\ head # tail
    BY LRUAssumption DEF Node
  <2>4. /\ next \in [Node -> Node \cup {None}] /\ prev \in [Node -> Node \cup {None}]
        /\ next[head] = tail /\ prev[tail] = head /\ nodes = {}
    BY <1>1, <2>3 DEF NewLRU
  <2>5. \A i \in 0..Len(<< >>) : i = 0
    BY <2>1
  <2>6. List = [next |-> next, prev |-> prev] /\ List.next = next /\ List.prev = prev
    BY DEF List
  <2>7. Linked(List, << >>)
    BY <2>1, <2>2, <2>4, <2>5, <2>6 DEF Linked
  <2> QED  BY <2>1, <2>4, <2>7 DEF Holds
<1>3. HeapOK(heap)
  <2>1. heap.a = << >> /\ heap.index = << >> /\ heap.rank = << >>
        /\ heap = [a |-> heap.a, index |-> heap.index, rank |-> heap.rank]
    BY <1>1 DEF NewHeap
  <2>2. DOMAIN << >> = {} /\ Len(<< >>) = 0
    OBVIOUS
  <2>3. << >> \in Seq({}) /\ << >> \in [{} -> 1..0] /\ << >> \in [{} -> Rank]
    OBVIOUS
  <2>4. Shaped(heap, DOMAIN heap.rank)
    BY <2>1, <2>2, <2>3 DEF Shaped
  <2>5. Ordered(Val(heap), Len(heap.a))
    BY <2>1, <2>2 DEF Ordered
  <2> QED  BY <2>4, <2>5 DEF HeapOK
<1>4. View = << >>
  <2>1. policy = "lru" => View = << >>
    BY <1>2, ListIs, Zenon DEF View
  <2>2. policy # "lru" => View = << >>
    BY <1>1 DEF View, NewHeap
  <2> QED  BY <2>1, <2>2
<1>5. Policy!Init
  BY <1>1, <1>4, PolicyIs DEF Policy!Init, Policy!NewPolicy, View
<1> QED  BY <1>1, <1>2, <1>3, <1>5 DEF Inv

\* The calls of a cache with LRU.
LEMMA LRUStep ==
  ASSUME Inv, LRU
  PROVE  Inv' /\ Policy!Next
<1>1. PICK s : Holds(s)
  BY DEF Inv
<1>2. policy \in DOMAIN Capacity /\ now \in Nat /\ HeapOK(heap) /\ policy = "lru" /\ heap' = heap
  BY DEF Inv, LRU
<1> SUFFICES ASSUME policy' = policy, now' = now PROVE (\E t : Holds(t)') /\ Policy!Next
  <2>1. policy' = policy /\ now' = now
    BY DEF LRU, lruEvict, lruOnAccess, lruOnInsert, lruOnEvict, Called, Returned
  <2>2. HeapOK(heap)'
    BY <1>2, <2>1, CarryHeap
  <2> QED  BY <1>2, <2>1, <2>2 DEF Inv
<1>3. 0 \in 0..MaxTime
  BY PolicyAssumption
<1>4. CASE lruEvict
  BY <1>1, <1>2, <1>4, LRUChoose DEF Policy!Next
<1>5. ASSUME NEW k \in Key, lruOnAccess(k) PROVE (\E t : Holds(t)') /\ Policy!Next
  BY <1>1, <1>2, <1>5, LRUAccess DEF Policy!Next
<1>6. ASSUME NEW k \in Key, lruOnInsert(k) PROVE (\E t : Holds(t)') /\ Policy!Next
  BY <1>1, <1>2, <1>3, <1>6, LRUInsert DEF Policy!Next
<1>7. ASSUME NEW k \in Key, lruOnEvict(k) PROVE (\E t : Holds(t)') /\ Policy!Next
  BY <1>1, <1>2, <1>7, LRUForget DEF Policy!Next
<1> QED  BY <1>4, <1>5, <1>6, <1>7 DEF LRU

\* The list of a cache with another policy never changes.
LEMMA ListStays ==
  ASSUME NEW s, Holds(s), UNCHANGED listVars
  PROVE  Holds(s)'
<1>1. Linked(List, s) /\ Assign(List) /\ nodes' = Range(s)
  BY DEF Holds, Assign, List, listVars
<1> QED  BY <1>1, AssignHolds

\* The calls of a cache with LFU.
LEMMA LFUStep ==
  ASSUME Inv, LFU
  PROVE  Inv' /\ Policy!Next
<1>1. PICK s : Holds(s)
  BY DEF Inv
<1>2. policy \in DOMAIN Capacity /\ now \in Nat /\ HeapOK(heap) /\ policy = "lfu" /\ UNCHANGED listVars
  BY DEF Inv, LFU
<1> SUFFICES HeapOK(heap)' /\ Policy!Next
  <2>1. policy' = policy /\ now' = now
    BY DEF LFU, heapEvict, lfuOnAccess, lfuOnInsert, heapOnInsert, heapOnEvict, Called, Returned
  <2>2. Holds(s)'
    BY <1>1, <1>2, ListStays
  <2> QED  BY <1>2, <2>1, <2>2 DEF Inv
<1>3. 0 \in 0..MaxTime
  BY PolicyAssumption
<1>4. CASE heapEvict
  BY <1>2, <1>4, HeapChoose DEF Policy!Next
<1>5. ASSUME NEW k \in Key, lfuOnAccess(k) PROVE HeapOK(heap)' /\ Policy!Next
  BY <1>2, <1>5, LFUAccess DEF Policy!Next
<1>6. ASSUME NEW k \in Key, lfuOnInsert(k) PROVE HeapOK(heap)' /\ Policy!Next
  <2>1. heapOnInsert(k, [freq |-> 1, accessedAt |-> now])
    BY <1>6 DEF lfuOnInsert
  <2>2. HeapOK(heap)' /\ Policy!Insert(k, 0)
    BY <1>2, <1>3, <2>1, HeapInsert
  <2> QED  BY <1>3, <2>2 DEF Policy!Next
<1>7. ASSUME NEW k \in Key, heapOnEvict(k) PROVE HeapOK(heap)' /\ Policy!Next
  BY <1>2, <1>7, HeapForget DEF Policy!Next
<1> QED  BY <1>4, <1>5, <1>6, <1>7 DEF LFU

\* The calls of a cache with TTLOnly.
LEMMA TTLStep ==
  ASSUME Inv, TTLOnly
  PROVE  Inv' /\ Policy!Next
<1>1. PICK s : Holds(s)
  BY DEF Inv
<1>2. policy \in DOMAIN Capacity /\ now \in Nat /\ HeapOK(heap) /\ policy = "ttl" /\ UNCHANGED listVars
  BY DEF Inv, TTLOnly
<1> SUFFICES HeapOK(heap)' /\ Policy!Next
  <2>1. policy' = policy /\ now' = now
    BY DEF TTLOnly, heapEvict, ttlOnAccess, ttlOnInsert, heapOnInsert, heapOnEvict, Called, Returned
  <2>2. Holds(s)'
    BY <1>1, <1>2, ListStays
  <2> QED  BY <1>2, <2>1, <2>2 DEF Inv
<1>3. CASE heapEvict
  BY <1>2, <1>3, HeapChoose DEF Policy!Next
<1>4. ASSUME NEW k \in Key, ttlOnAccess(k) PROVE HeapOK(heap)' /\ Policy!Next
  <2>1. policy' = policy /\ call' = <<"OnAccess", k>> /\ victim' = None /\ now' = now /\ heap' = heap
    BY <1>4 DEF ttlOnAccess, Called
  <2>2. HeapOK(heap)'
    BY <1>2, <2>1, CarryHeap
  <2>3. View' = View /\ View = Policy!OnAccess(policy, View, k, now)
    BY <1>2, <2>1 DEF View, Policy!OnAccess
  <2>4. Policy!Access(k)
    BY <2>1, <2>3 DEF Policy!Access, View
  <2> QED  BY <2>2, <2>4 DEF Policy!Next
<1>5. ASSUME NEW k \in Key, NEW e \in 0..MaxTime, ttlOnInsert(k, e) PROVE HeapOK(heap)' /\ Policy!Next
  <2>1. heapOnInsert(k, e)
    BY <1>5 DEF ttlOnInsert
  <2>2. HeapOK(heap)' /\ Policy!Insert(k, e)
    BY <1>2, <2>1, HeapInsert
  <2> QED  BY <2>2 DEF Policy!Next
<1>6. ASSUME NEW k \in Key, heapOnEvict(k) PROVE HeapOK(heap)' /\ Policy!Next
  BY <1>2, <1>6, HeapForget DEF Policy!Next
<1> QED  BY <1>3, <1>4, <1>5, <1>6 DEF TTLOnly

\* The clock.
LEMMA TickStep ==
  ASSUME Inv, Tick
  PROVE  Inv' /\ Policy!Next
<1>1. PICK s : Holds(s)
  BY DEF Inv
<1>2. /\ policy = "lfu" /\ policy' = policy /\ now \in Nat /\ now < MaxTime /\ now' = now + 1
      /\ call' = call /\ victim' = victim /\ heap' = heap /\ UNCHANGED listVars
      /\ HeapOK(heap) /\ policy \in DOMAIN Capacity
  BY DEF Tick, Inv
<1>3. Holds(s)' /\ HeapOK(heap)'
  BY <1>1, <1>2, ListStays, CarryHeap
<1>4. View' = View
  BY <1>2 DEF View
<1>5. Policy!Tick
  BY <1>2, <1>4 DEF Policy!Tick, View
<1> QED  BY <1>2, <1>3, <1>5 DEF Inv, Policy!Next

\* Every step keeps the invariant, and is a step of the abstract policy.
LEMMA StepKeeps == Inv /\ [Next]_vars => Inv' /\ [Policy!Next]_(Policy!vars)
<1> SUFFICES ASSUME Inv, [Next]_vars PROVE Inv' /\ [Policy!Next]_(Policy!vars)
  OBVIOUS
<1>1. CASE Next
  BY <1>1, TickStep, LRUStep, LFUStep, TTLStep DEF Next
<1>2. CASE UNCHANGED vars
  <2>1. PICK s : Holds(s)
    BY DEF Inv
  <2>2. /\ policy' = policy /\ now' = now /\ call' = call /\ victim' = victim
        /\ heap' = heap /\ UNCHANGED listVars
    BY <1>2 DEF vars, callVars
  <2>3. Holds(s)' /\ HeapOK(heap)'
    BY <2>1, <2>2, ListStays, CarryHeap DEF Inv
  <2>4. View' = View
    BY <2>2 DEF View, Size, After, listVars
  <2>5. UNCHANGED Policy!vars
    BY <2>2, <2>4 DEF Policy!vars, View
  <2> QED  BY <2>2, <2>3, <2>5 DEF Inv
<1> QED  BY <1>1, <1>2

\* The links of the list and the index fields of the heaps are intact after any
\* calls, for every set of keys and every capacity.
THEOREM WellFormedHolds == Spec => []WellFormed
<1>1. Init => Inv
  BY InitKeeps
<1>2. Inv /\ [Next]_vars => Inv'
  BY StepKeeps
<1>3. Inv => WellFormed
  BY ListIs, IndexesOfHeap DEF Inv, WellFormed
<1> QED  BY <1>1, <1>2, <1>3, PTL DEF Spec

\* lru.go, lfu.go and ttl.go implement the order that the policy promises.
THEOREM PolicyImplemented == Spec => ImplementsPolicy
<1>1. Init => Inv /\ Policy!Init
  BY InitKeeps
<1>2. Inv /\ [Next]_vars => Inv' /\ [Policy!Next]_(Policy!vars)
  BY StepKeeps
<1> QED  BY <1>1, <1>2, PTL DEF Spec, ImplementsPolicy, Policy!Spec
=============================================================================
