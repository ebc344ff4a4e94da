------------------------------ MODULE LRUList ------------------------------
(***************************************************************************)
(* internal/eviction/lru.go: the doubly linked list between two sentinels  *)
(* and the map from keys to its nodes.  A key never has two nodes while    *)
(* OnInsert is called for untracked keys only, so the node of a key is     *)
(* named by the key.  A node that left the list points nowhere.            *)
(***************************************************************************)
EXTENDS PolicyCalls

CONSTANTS head, tail   \* the sentinels

ASSUME LRUAssumption == {head, tail} \cap (Key \cup {None}) = {} /\ head # tail

VARIABLES
  nodes,       \* the keys of the map l.nodes
  next, prev   \* the pointers of every node

listVars == <<nodes, next, prev>>
Node == Key \cup {head, tail}

NewLRU ==
  /\ nodes = {}
  /\ next = [n \in Node |-> IF n = head THEN tail ELSE None]
  /\ prev = [n \in Node |-> IF n = tail THEN head ELSE None]

-----------------------------------------------------------------------------
(* The list helpers, on a pair of pointer functions. *)

\* Mutant: the old first node is not linked back to the new one.
insertAtFront_OneWay(l, n) ==
  [next |-> [l.next EXCEPT ![n] = l.next[head], ![head] = n],
   prev |-> [l.prev EXCEPT ![n] = head]]

insertAtFront(l, n) ==
  [next |-> [l.next EXCEPT ![n] = l.next[head], ![head] = n],
   prev |-> [l.prev EXCEPT ![n] = head, ![l.next[head]] = n]]

removeNode(l, n) ==
  [next |-> [l.next EXCEPT ![l.prev[n]] = l.next[n], ![n] = None],
   prev |-> [l.prev EXCEPT ![l.next[n]] = l.prev[n], ![n] = None]]

moveToFront(l, n) == insertAtFront(removeNode(l, n), n)

List == [next |-> next, prev |-> prev]
Assign(l) == next' = l.next /\ prev' = l.prev

-----------------------------------------------------------------------------
lruOnAccess(k) ==
  /\ Assign(IF k \in nodes THEN moveToFront(List, k) ELSE List)
  /\ Called("OnAccess", k) /\ UNCHANGED nodes

lruOnInsert(k) ==
  /\ k \notin nodes /\ Cardinality(nodes) < Capacity["lru"]
  /\ nodes' = nodes \cup {k}
  /\ Assign(insertAtFront(List, k))
  /\ Called("OnInsert", k)

lruOnEvict(k) ==
  /\ Assign(IF k \in nodes THEN removeNode(List, k) ELSE List)
  /\ nodes' = nodes \ {k}
  /\ Called("OnEvict", k)

lruEvict ==
  /\ Returned(IF prev[tail] = head THEN None ELSE prev[tail])
  /\ UNCHANGED listVars

-----------------------------------------------------------------------------
Size == Cardinality(nodes)

\* The i-th node after head, and before tail.
After[i \in 0..(Size + 1)]  == IF i = 0 THEN head ELSE next[After[i - 1]]
Before[i \in 0..(Size + 1)] == IF i = 0 THEN tail ELSE prev[Before[i - 1]]

\* removeNode and insertAtFront keep the two directions of the list in step:
\* both pass through every node of the map once, and each ends at the other
\* sentinel.
ListWellFormed ==
  /\ After[Size + 1] = tail /\ Before[Size + 1] = head
  /\ {After[i] : i \in 1..Size} = nodes
  /\ \A i \in 1..Size : After[i] = Before[Size + 1 - i]
=============================================================================
