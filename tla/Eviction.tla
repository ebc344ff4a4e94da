------------------------------ MODULE Eviction ------------------------------
(***************************************************************************)
(* The four eviction policies of internal/eviction as pure operations on a *)
(* policy state st.  Each policy keeps what its decisions depend on:       *)
(*   "lru"     the keys from the most to the least recently used           *)
(*   "lfu"     per key, how often and when it was last used                *)
(*   "ttl"     per key, the expiry given when the key was inserted         *)
(*   "random"  the slice of keys                                           *)
(* LRUList and HeapPolicy model the linked list and the heaps that the     *)
(* code keeps these in.                                                    *)
(***************************************************************************)
EXTENDS Integers, FiniteSets, Sequences, Functions

Policies == {"lru", "lfu", "ttl", "random"}

Without(f, k) == [j \in DOMAIN f \ {k} |-> f[j]]
With(f, k, v) == [j \in DOMAIN f \cup {k} |-> IF j = k THEN v ELSE f[j]]

\* NewLRU, NewLFU, NewTTLOnly, NewRandom (buildEvictionPolicy picks one).
NewPolicy == << >>

\* The keys a policy holds.
Tracked(p, st) == IF p \in {"lru", "random"} THEN Range(st) ELSE DOMAIN st

-----------------------------------------------------------------------------
\* Where a key is: LRU.nodes has its node, Random.OnEvict takes the first.
place(st, k) == CHOOSE i \in DOMAIN st : st[i] = k /\ \A j \in 1..(i - 1) : st[j] # k

removeNode(st, i) == SubSeq(st, 1, i - 1) \o SubSeq(st, i + 1, Len(st))

lruOnAccess(st, k) == IF k \in Range(st) THEN <<k>> \o removeNode(st, place(st, k)) ELSE st
lruOnInsert(st, k) == <<k>> \o st
lruOnEvict(st, k)  == IF k \in Range(st) THEN removeNode(st, place(st, k)) ELSE st
lruEvict(st)       == IF st = << >> THEN {} ELSE {st[Len(st)]}

\* lfuHeap.Less: fewer uses first, then the longer unused.
lfuLess(a, b) ==
  \/ a.freq < b.freq
  \/ a.freq = b.freq /\ a.accessedAt < b.accessedAt
lfuOnAccess(st, k, now) ==
  IF k \in DOMAIN st THEN With(st, k, [freq |-> st[k].freq + 1, accessedAt |-> now]) ELSE st
lfuOnInsert(st, k, now) == With(st, k, [freq |-> 1, accessedAt |-> now])

\* The top of a min-heap is one of its least elements.
lfuEvict(st) == {k \in DOMAIN st : \A j \in DOMAIN st : ~lfuLess(st[j], st[k])}

ttlOnInsert(st, k, expiresAt) == With(st, k, expiresAt)
ttlEvict(st) == {k \in DOMAIN st : \A j \in DOMAIN st : ~(st[j] < st[k])}

\* Random.OnEvict overwrites the key with the last one and cuts the slice.
randomOnEvict(st, k) ==
  IF k \in Range(st)
    THEN SubSeq([st EXCEPT ![place(st, k)] = st[Len(st)]], 1, Len(st) - 1)
    ELSE st

-----------------------------------------------------------------------------
(* The interface EvictionPolicy. *)

\* Mutant: an access to an unknown key starts tracking it.
OnAccess_Tracks(p, st, k, now) ==
  CASE p = "lru" -> <<k>> \o lruOnEvict(st, k)
    [] p = "lfu" -> With(st, k, [freq |-> 1, accessedAt |-> now])
    [] OTHER     -> st

OnAccess(p, st, k, now) ==
  CASE p = "lru" -> lruOnAccess(st, k)
    [] p = "lfu" -> lfuOnAccess(st, k, now)
    [] OTHER     -> st

OnInsert(p, st, k, expiresAt, now) ==
  CASE p = "lru"    -> lruOnInsert(st, k)
    [] p = "lfu"    -> lfuOnInsert(st, k, now)
    [] p = "ttl"    -> ttlOnInsert(st, k, expiresAt)
    [] p = "random" -> Append(st, k)

OnEvict(p, st, k) ==
  CASE p = "lru"    -> lruOnEvict(st, k)
    [] p = "random" -> randomOnEvict(st, k)
    [] OTHER        -> Without(st, k)

\* The keys that Evict may return; none means ok = false.
Evict(p, st) ==
  CASE p = "lru"    -> lruEvict(st)
    [] p = "lfu"    -> lfuEvict(st)
    [] p = "ttl"    -> ttlEvict(st)
    [] p = "random" -> Range(st)
=============================================================================
