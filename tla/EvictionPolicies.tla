-------------------------- MODULE EvictionPolicies --------------------------
(***************************************************************************)
(* The policy objects behind the interface EvictionPolicy, with their data *)
(* structures: buildEvictionPolicy picks one, and the calls of the cache   *)
(* are dispatched to it.  The structure that was not built never changes.  *)
(***************************************************************************)
EXTENDS LRUList, HeapPolicy

vars == <<callVars, listVars, heap>>

Init ==
  /\ policy \in DOMAIN Capacity
  /\ now = 0 /\ call = None /\ victim = None
  /\ NewLRU /\ NewHeap

\* time.Now, which only LFU reads.
Tick ==
  /\ policy = "lfu" /\ now < MaxTime /\ now' = now + 1
  /\ UNCHANGED <<policy, call, victim, listVars, heap>>

LRU ==
  /\ policy = "lru" /\ UNCHANGED heap
  /\ lruEvict \/ \E k \in Key : lruOnAccess(k) \/ lruOnInsert(k) \/ lruOnEvict(k)

LFU ==
  /\ policy = "lfu" /\ UNCHANGED listVars
  /\ heapEvict \/ \E k \in Key : lfuOnAccess(k) \/ lfuOnInsert(k) \/ heapOnEvict(k)

TTLOnly ==
  /\ policy = "ttl" /\ UNCHANGED listVars
  /\ \/ heapEvict
     \/ \E k \in Key : \/ ttlOnAccess(k) \/ heapOnEvict(k)
                       \/ \E expiresAt \in 0..MaxTime : ttlOnInsert(k, expiresAt)

Next == Tick \/ LRU \/ LFU \/ TTLOnly

Spec == Init /\ [][Next]_vars

-----------------------------------------------------------------------------
\* The links of lru.go and the indexes of lfu.go and ttl.go, on which later
\* calls rely, are intact after every call.
WellFormed == ListWellFormed /\ IndexesAgree

\* The list and the heaps implement the order that the policy promises: after
\* any sequence of calls Evict returns the key used the longest ago (lru.go),
\* one of the least used (lfu.go), one that expires first (ttl.go).
Policy == INSTANCE PolicySpec
  WITH st <- IF policy = "lru" THEN [i \in 1..Size |-> After[i]] ELSE heap.rank
ImplementsPolicy == Policy!Spec
=============================================================================
