----------------------------- MODULE PolicySpec -----------------------------
(***************************************************************************)
(* What an eviction policy promises its cache: the calls of the interface  *)
(* EvictionPolicy as steps on the policy states of module Eviction, in the *)
(* order in which InMemoryCache makes them (OnInsert for keys that are not *)
(* tracked).  call is the last call made, victim what it returned.         *)
(***************************************************************************)
EXTENDS Eviction

CONSTANTS Key, None,
          MaxTime   \* bound on the clock

VARIABLES policy, now, st, call, victim
vars == <<policy, now, st, call, victim>>

Init == policy \in Policies /\ now = 0 /\ st = NewPolicy /\ call = None /\ victim = None

Tick == now < MaxTime /\ now' = now + 1 /\ UNCHANGED <<policy, st, call, victim>>

Access(k) ==
  /\ call' = <<"OnAccess", k>> /\ victim' = None
  /\ st' = OnAccess(policy, st, k, now)
  /\ UNCHANGED <<policy, now>>

Insert(k, expiresAt) ==
  /\ k \notin Tracked(policy, st)
  /\ call' = <<"OnInsert", k>> /\ victim' = None
  /\ st' = OnInsert(policy, st, k, expiresAt, now)
  /\ UNCHANGED <<policy, now>>

Forget(k) ==
  /\ call' = <<"OnEvict", k>> /\ victim' = None
  /\ st' = OnEvict(policy, st, k)
  /\ UNCHANGED <<policy, now>>

Choose ==
  /\ call' = <<"Evict", None>>
  /\ victim' \in IF Evict(policy, st) = {} THEN {None} ELSE Evict(policy, st)
  /\ UNCHANGED <<policy, now, st>>

Next ==
  \/ Tick \/ Choose
  \/ \E k \in Key : Access(k) \/ Forget(k)
  \/ \E k \in Key, expiresAt \in 0..MaxTime : Insert(k, expiresAt)

Spec == Init /\ [][Next]_vars
=============================================================================
