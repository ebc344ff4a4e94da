---------------------------- MODULE PrefixCache ----------------------------
(***************************************************************************)
(* The LLM prefix caches, internal/llm in Go and python/src/llmsim, under   *)
(* the workloads of the simulations: a query retrieves TopK documents (or    *)
(* has one prefix, as in RunScenario), the prefix is looked up, and stored   *)
(* after a miss.  Both caches get the same calls.  The Go cache may be shared by goroutines; a client is one.  *)
(* A prefix is known by its documents in order (the marker tokens and the   *)
(* SHA-256 add nothing that tells two prefixes apart).                      *)
(***************************************************************************)
EXTENDS Integers, FiniteSets, Sequences, Functions

CONSTANTS Client, Doc, TopK, MaxSize,
          None,
          MaxOps     \* bound on the calls, and so on the clock

ASSUME PrefixAssumption ==
  /\ IsFiniteSet(Client)
  /\ Doc \subseteq Nat /\ TopK \in Nat \ {0} /\ MaxSize \in Nat \ {0} /\ MaxOps \in Nat

VARIABLES
  users,          \* the clients that share the cache, chosen once
  clock,          \* every call happens at a time of its own
  entries,        \* Go: prefix -> LastAccessedAt
  totalRequests, cacheHits,
  missed,         \* missed[c]: the prefix c has to store, and when it missed it
  order,          \* Python: the OrderedDict, oldest first
  pyHits,
  asked,          \* history: the prefixes looked up
  repeated        \* history: has a query drawn a document twice?

vars == <<users, clock, entries, totalRequests, cacheHits, missed, order, pyHits, asked, repeated>>

Keys == DOMAIN entries

\* The retrieved indexes, sorted; Go keeps an index that was drawn twice.
buildPrefixTokens(docs) ==
  LET permuted == {[i \in DOMAIN docs |-> docs[p[i]]] : p \in Bijection(DOMAIN docs, DOMAIN docs)}
  IN  CHOOSE s \in permuted : \A i, j \in DOMAIN s : i < j => s[i] =< s[j]

\* Python drops it.
build_prefix_tokens(docs) ==
  CHOOSE s \in [1..Cardinality(Range(docs)) -> Range(docs)] :
    \A i, j \in DOMAIN s : i < j => s[i] < s[j]

\* What a query draws, with replacement: TopK documents, or a single prefix.
Queries == [1..TopK -> Doc] \cup [1..1 -> Doc]

QueryPrefixes == {buildPrefixTokens(docs) : docs \in Queries}

ASSUME NoneAssumption ==
  None \notin QueryPrefixes /\ None \notin [prefix : QueryPrefixes, at : Nat]

Init ==
  /\ users \in SUBSET Client \ {{}}
  /\ clock = 0 /\ entries = << >> /\ totalRequests = 0 /\ cacheHits = 0
  /\ missed = [c \in Client |-> None]
  /\ order = << >> /\ pyHits = 0 /\ asked = {} /\ repeated = FALSE

-----------------------------------------------------------------------------
(* PrefixCache.Lookup and Store in Go. *)

\* Mutant: a hit does not count as an access.
Touched_Not(h) == entries

\* The entries after a lookup of h.
Touched(h) == IF h \in Keys THEN [entries EXCEPT ![h] = clock] ELSE entries

\* Mutant: the comparison is strict.
Evictable_Late ==
  IF Cardinality(Keys) > MaxSize THEN {k \in Keys : \A j \in Keys : entries[k] =< entries[j]} ELSE {None}

\* Mutant: room is made one entry early.
Evictable_Early ==
  IF Cardinality(Keys) >= MaxSize - 1 /\ Keys # {}
    THEN {k \in Keys : \A j \in Keys : entries[k] =< entries[j]} ELSE {None}

\* At capacity the scan finds an entry with the oldest access, even if the
\* prefix to be stored is there already.
Evictable ==
  IF Cardinality(Keys) >= MaxSize THEN {k \in Keys : \A j \in Keys : entries[k] =< entries[j]} ELSE {None}

Put(h, t, old) ==
  entries' = [k \in (Keys \ {old}) \cup {h} |-> IF k = h THEN t ELSE entries[k]]

-----------------------------------------------------------------------------
(* Python: the dictionary after a query, move_to_end after a hit, popitem and *)
(* an insertion at the end after a miss.                                       *)

lookup(h) ==
  LET i == CHOOSE i \in DOMAIN order : order[i] = h
  IN  Append(SubSeq(order, 1, i - 1) \o SubSeq(order, i + 1, Len(order)), h)

store(h) == Append(IF Len(order) >= MaxSize THEN Tail(order) ELSE order, h)

-----------------------------------------------------------------------------
(* One query of a client: the lookup, then, after a miss, the store.  Python   *)
(* has one thread, and does both at once.                                      *)

Lookup(c, docs) ==
  LET h == buildPrefixTokens(docs)
      p == build_prefix_tokens(docs)
  IN  /\ missed[c] = None /\ clock < MaxOps
      /\ clock' = clock + 1 /\ totalRequests' = totalRequests + 1
      /\ entries' = Touched(h)
      /\ cacheHits' = IF h \in Keys THEN cacheHits + 1 ELSE cacheHits
      /\ missed' = [missed EXCEPT ![c] = IF h \in Keys THEN None ELSE [prefix |-> h, at |-> clock]]
      /\ order' = IF p \in Range(order) THEN lookup(p) ELSE store(p)
      /\ pyHits' = IF p \in Range(order) THEN pyHits + 1 ELSE pyHits
      /\ asked' = asked \cup {h} /\ repeated' = (repeated \/ ~IsInjective(docs))
      /\ UNCHANGED users

\* The entry's LastAccessedAt was read when the entry was made, any time since
\* the miss.
Store(c) ==
  /\ missed[c] # None
  /\ \E old \in Evictable, t \in missed[c].at..clock : Put(missed[c].prefix, t, old)
  /\ clock' = clock + 1
  /\ missed' = [missed EXCEPT ![c] = None]
  /\ UNCHANGED <<users, totalRequests, cacheHits, order, pyHits, asked, repeated>>

Next ==
  \E c \in users :
    \/ \E docs \in [1..TopK -> Doc] : Lookup(c, docs)
    \/ Store(c)

Spec == Init /\ [][Next]_vars

-----------------------------------------------------------------------------
Idle == \A c \in Client : missed[c] = None
Misses == totalRequests - cacheHits

\* However lookups and stores of goroutines interleave, a store makes room.
SizeBounded == Cardinality(Keys) =< MaxSize

\* One goroutine, and no query so far that drew a document twice: the scan for
\* the oldest timestamp in Go and the OrderedDict in Python evict the same
\* prefixes and count the same hits.
SameAsPython ==
  (Cardinality(users) = 1 /\ Idle /\ ~repeated) => Keys = Range(order) /\ cacheHits = pyHits

-----------------------------------------------------------------------------
(* What comments and documents say, and the code does not do. *)

\* rag.go: "The same set of document indices always produces the same sequence,
\* so identical retrievals hash to the same cache key (exact-set matching)."
ExactSetMatching ==
  \A h, j \in asked : Range(h) = Range(j) => h = j

\* requirements.md: "The Python module ports and matches the numerical behavior
\* of the existing Go module": also when a query draws a document twice.
MatchesGo ==
  (Cardinality(users) = 1 /\ Idle) => cacheHits = pyHits
=============================================================================
