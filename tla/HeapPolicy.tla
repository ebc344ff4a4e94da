----------------------------- MODULE HeapPolicy -----------------------------
(***************************************************************************)
(* internal/eviction/lfu.go and ttl.go: a binary min-heap of entries, each *)
(* of which knows its position, and a map from keys to entries.  Both      *)
(* policies give container/heap the same Len, Swap, Push and Pop; they     *)
(* differ in Less and in what an entry holds.                              *)
(*                                                                         *)
(* A heap value has three parts: a, the array of keys, counted from 1;     *)
(* index, the position each entry believes to be at; rank, what Less       *)
(* compares.  container/heap is modelled from its use here.                *)
(***************************************************************************)
EXTENDS PolicyCalls

CONSTANT MaxFreq   \* bound on the uses that LFU counts

VARIABLE heap

Entries == DOMAIN heap.rank
Extend(f, k, v) == [j \in DOMAIN f \cup {k} |-> IF j = k THEN v ELSE f[j]]
Drop(f, k) == [j \in DOMAIN f \ {k} |-> f[j]]

-----------------------------------------------------------------------------
(* heap.Interface. *)

Less(h, i, j) ==
  LET x == h.rank[h.a[i]]
      y == h.rank[h.a[j]]
  IN  IF policy = "ttl" THEN x < y
      ELSE IF x.freq # y.freq THEN x.freq < y.freq
      ELSE x.accessedAt < y.accessedAt

Swap(h, i, j) ==
  [a |-> [h.a EXCEPT ![i] = h.a[j], ![j] = h.a[i]],
   index |-> [h.index EXCEPT ![h.a[j]] = i, ![h.a[i]] = j], rank |-> h.rank]

Push(h, k, rank) ==
  [a |-> Append(h.a, k), index |-> Extend(h.index, k, Len(h.a) + 1),
   rank |-> Extend(h.rank, k, rank)]

\* Pop cuts the last entry off the array; its index becomes -1.
Pop(h) ==
  [a |-> SubSeq(h.a, 1, Len(h.a) - 1), index |-> Drop(h.index, h.a[Len(h.a)]), rank |-> h.rank]

-----------------------------------------------------------------------------
(* container/heap: up and down move an entry to its place.  A loop is the    *)
(* function from the number of its passes to the heap and the entry's        *)
(* position; a pass after the break changes nothing, and no entry can move   *)
(* more often than the number of positions above or below it.               *)

upPass(s) ==
  LET i == s.at \div 2
  IN  IF s.at = 1 \/ ~Less(s.h, s.at, i) THEN s ELSE [h |-> Swap(s.h, i, s.at), at |-> i]

up(h, j) ==
  LET loop[p \in 0..j] == IF p = 0 THEN [h |-> h, at |-> j] ELSE upPass(loop[p - 1])
  IN  loop[j].h

downPass(s, n) ==
  LET left == 2 * s.at
      j == IF left + 1 =< n /\ Less(s.h, left + 1, left) THEN left + 1 ELSE left
  IN  IF left > n \/ ~Less(s.h, j, s.at) THEN s ELSE [h |-> Swap(s.h, s.at, j), at |-> j]

down(h, i, n) ==
  LET loop[p \in 0..n] == IF p = 0 THEN [h |-> h, at |-> i] ELSE downPass(loop[p - 1], n)
  IN  loop[n]

\* down among the first n, and up if the entry did not move.
Settle(h, i, n) == LET d == down(h, i, n) IN IF d.at > i THEN d.h ELSE up(h, i)

heapPush(h, k, rank) == up(Push(h, k, rank), Len(h.a) + 1)
heapFix(h, i)        == Settle(h, i, Len(h.a))
heapRemove(h, i)     ==
  LET n == Len(h.a)
  IN  Pop(IF i = n THEN h ELSE Settle(Swap(h, i, n), i, n - 1))

-----------------------------------------------------------------------------
(* The policy. *)

\* NewLFU, NewTTLOnly
NewHeap == heap = [a |-> << >>, index |-> << >>, rank |-> << >>]

Countable(k) == k \in Entries => heap.rank[k].freq < MaxFreq
Used(k)      == [heap EXCEPT !.rank[k] = [freq |-> @.freq + 1, accessedAt |-> now]]

\* Mutant: the heap is not repaired after the frequency has changed.
lfuOnAccess_NoFix(k) ==
  /\ Countable(k)
  /\ heap' = IF k \in Entries THEN Used(k) ELSE heap
  /\ Called("OnAccess", k)

\* LFU counts the use and repairs the heap.
lfuOnAccess(k) ==
  /\ Countable(k)
  /\ heap' = IF k \in Entries THEN heapFix(Used(k), heap.index[k]) ELSE heap
  /\ Called("OnAccess", k)

\* TTLOnly ignores accesses.
ttlOnAccess(k) == Called("OnAccess", k) /\ UNCHANGED heap

heapOnInsert(k, rank) ==
  /\ k \notin Entries /\ Cardinality(Entries) < Capacity[policy]
  /\ heap' = heapPush(heap, k, rank)
  /\ Called("OnInsert", k)

lfuOnInsert(k) == heapOnInsert(k, [freq |-> 1, accessedAt |-> now])
ttlOnInsert(k, expiresAt) == heapOnInsert(k, expiresAt)

heapOnEvict(k) ==
  /\ heap' = IF k \in Entries
       THEN [heapRemove(heap, heap.index[k]) EXCEPT !.rank = Drop(@, k)]
       ELSE heap
  /\ Called("OnEvict", k)

heapEvict ==
  /\ Returned(IF heap.a = << >> THEN None ELSE heap.a[1])
  /\ UNCHANGED heap

-----------------------------------------------------------------------------
\* Every entry's index field is its place in the array (heap.Fix and
\* heap.Remove are called with it), and no entry is in the array twice.
IndexesAgree ==
  /\ Len(heap.a) = Cardinality(Entries)
  /\ DOMAIN heap.index = Entries
  /\ \A k \in Entries : heap.index[k] \in 1..Len(heap.a) /\ heap.a[heap.index[k]] = k
=============================================================================
