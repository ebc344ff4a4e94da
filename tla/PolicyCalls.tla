---------------------------- MODULE PolicyCalls ----------------------------
(***************************************************************************)
(* What a cache sees of its eviction policy: which policy it was built     *)
(* with, the clock, the last call it made and the victim it returned.      *)
(***************************************************************************)
EXTENDS Integers, FiniteSets, Sequences

CONSTANTS Key, None,
          Capacity,  \* Capacity[p]: the entries of a cache with policy p; the
                     \* policies that keep a list or a heap
          MaxTime    \* bound on the clock

ASSUME PolicyAssumption ==
  /\ None \notin Key /\ MaxTime \in Nat
  /\ DOMAIN Capacity \subseteq {"lru", "lfu", "ttl"}
  /\ \A p \in DOMAIN Capacity : Capacity[p] \in Nat \ {0}

VARIABLES policy, now, call, victim
callVars == <<policy, now, call, victim>>

\* A call that returns nothing, and Evict, which returns a key or None.
Called(op, k) == call' = <<op, k>> /\ victim' = None /\ UNCHANGED <<policy, now>>
Returned(k) == call' = <<"Evict", None>> /\ victim' = k /\ UNCHANGED <<policy, now>>
=============================================================================
