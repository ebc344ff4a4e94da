-------------------------- MODULE SimulationProofs --------------------------
(****************************************************************************)
(* The prefix caches and the cost simulations, for every capacity, every    *)
(* number of goroutines, documents and models, and every draw.              *)
(*                                                                          *)
(* CacheOK holds whoever uses the Go cache and gives its size. CostOK says  *)
(* that all entries cost the same, which makes the two ways to work out the *)
(* savings agree. OnceOK says what one goroutine's cache holds while all    *)
(* prefixes fit. The last two results rest on the lemmas about Ranks: with  *)
(* one goroutine the timestamps of the Go cache increase along the list     *)
(* that an OrderedDict keeps, so the scan for the oldest one evicts its     *)
(* head. SameOK is that for the list of the Python cache; FairOK is that    *)
(* for the list that the draws alone determine, the same for every model.   *)
(****************************************************************************)
EXTENDS Simulation, SequenceLemmas

\* What a cache may hold.
AllPrefixes == QueryPrefixes \cup {<<Shared>>}

\* The variables of the Go cache, whoever uses it.
CacheOK ==
  /\ users \subseteq Client /\ kind \in Kinds
  /\ clock \in Nat /\ totalRequests \in Nat /\ cacheHits \in Nat
  /\ entries \in [Keys -> Nat] /\ Keys \subseteq AllPrefixes
  /\ IsFiniteSet(Keys) /\ Cardinality(Keys) =< MaxSize
  /\ missed \in [Client -> [prefix : QueryPrefixes, at : Nat] \cup {None}]
  /\ \A c \in Client : missed[c] # None => c \in users

\* What a run draws is a query.
LEMMA DrawnIsQuery == Drawable \subseteq Queries
BY DEF Drawable, Queries

\* The set of warm prefixes.
LEMMA WarmFacts ==
  ASSUME NEW k
  PROVE  /\ Warm(k) \subseteq AllPrefixes /\ IsFiniteSet(Warm(k))
         /\ Cardinality(Warm(k)) \in Nat /\ Cardinality(Warm(k)) =< MaxSize
         /\ None \notin Warm(k)
<1>1. IsFiniteSet({}) /\ Cardinality({}) = 0
  BY FS_EmptySet
<1>2. IsFiniteSet({<<Shared>>}) /\ Cardinality({<<Shared>>}) = 1
  BY FS_Singleton, Zenon
<1>3. MaxSize \in Nat /\ MaxSize >= 1
  BY PrefixAssumption
<1>4. CASE k = "comparison"
  <2>1. Warm(k) = {<<Shared>>}
    BY <1>4 DEF Warm, Warmed, Range
  <2> QED  BY <1>2, <1>3, <2>1, SimulationAssumption DEF AllPrefixes
<1>5. CASE k # "comparison"
  <2>1. Warm(k) = {}
    BY <1>5 DEF Warm, Warmed, Range
  <2> QED  BY <1>1, <1>3, <2>1
<1> QED  BY <1>4, <1>5

\* Both caches start with the warm prefixes.
LEMMA CacheStarts == SimulationInit => CacheOK
<1> SUFFICES ASSUME SimulationInit PROVE CacheOK  OBVIOUS
<1>1. Keys = Warm(kind)
  BY DEF SimulationInit, Keys
<1>2. entries \in [Keys -> Nat]
  BY <1>1 DEF SimulationInit
<1> QED  BY <1>1, <1>2, WarmFacts DEF SimulationInit, CacheOK

\* A lookup changes when entries were used, not which there are.
LEMMA LookupKeeps ==
  ASSUME CacheOK, NEW c \in users, NEW docs \in Queries, Lookup(c, docs), kind' = kind
  PROVE  CacheOK' /\ Keys' = Keys
<1> DEFINE h == buildPrefixTokens(docs)
<1>1. h \in QueryPrefixes
  BY DEF QueryPrefixes
<1>2. /\ entries' = Touched(h)
      /\ missed' = [missed EXCEPT ![c] = IF h \in Keys THEN None ELSE [prefix |-> h, at |-> clock]]
      /\ clock' = clock + 1 /\ totalRequests' = totalRequests + 1 /\ users' = users
      /\ cacheHits' = IF h \in Keys THEN cacheHits + 1 ELSE cacheHits
  BY DEF Lookup
<1> HIDE DEF h
<1>3. Keys' = Keys /\ entries' \in [Keys' -> Nat]
  BY <1>2 DEF CacheOK, Keys, Touched
<1>4. missed' \in [Client -> [prefix : QueryPrefixes, at : Nat] \cup {None}]
  BY <1>1, <1>2 DEF CacheOK
<1>5. \A d \in Client : missed'[d] # None => d \in users'
  BY <1>2 DEF CacheOK
<1>6. clock' \in Nat /\ totalRequests' \in Nat /\ cacheHits' \in Nat
  BY <1>2 DEF CacheOK
<1> QED  BY <1>2, <1>3, <1>4, <1>5, <1>6 DEF CacheOK

\* At capacity there is an entry to evict.
LEMMA StoreKeeps ==
  ASSUME CacheOK, NEW c \in users, Store(c), kind' = kind
  PROVE  CacheOK' /\ \E old \in Evictable :
           /\ Keys' = (Keys \ {old}) \cup {missed[c].prefix}
           /\ old = None <=> Cardinality(Keys) < MaxSize
<1> DEFINE h == missed[c].prefix
<1>1. missed[c] \in [prefix : QueryPrefixes, at : Nat] /\ h \in QueryPrefixes /\ missed[c].at \in Nat
  BY DEF CacheOK, Store
<1>2. PICK old \in Evictable, t \in missed[c].at..clock : Put(h, t, old)
  BY DEF Store
<1>3. entries' = [k \in (Keys \ {old}) \cup {h} |-> IF k = h THEN t ELSE entries[k]]
  BY <1>2 DEF Put
<1>4. t \in Nat
  BY <1>1, <1>2 DEF CacheOK
<1> HIDE DEF h
<1>5. Keys' = (Keys \ {old}) \cup {h}
  BY <1>3 DEF Keys
<1>6. entries' \in [Keys' -> Nat]
  BY <1>3, <1>4, <1>5 DEF CacheOK
<1>7. None \notin Keys /\ Cardinality(Keys) \in Nat /\ MaxSize \in Nat
  BY NoneAssumption, SimulationAssumption, PrefixAssumption, FS_CardinalityType DEF CacheOK, AllPrefixes
<1>8. old = None <=> Cardinality(Keys) < MaxSize
  BY <1>2, <1>7 DEF Evictable
<1>9. IsFiniteSet(Keys \ {old}) /\ Cardinality(Keys \ {old}) < MaxSize
  <2>1. CASE Cardinality(Keys) < MaxSize
    <3>1. Keys \ {old} = Keys
      BY <1>7, <1>8, <2>1
    <3> QED  BY <2>1, <3>1 DEF CacheOK
  <2>2. CASE ~(Cardinality(Keys) < MaxSize)
    <3>1. old \in Keys
      BY <1>2, <1>7, <2>2 DEF Evictable
    <3>2. IsFiniteSet(Keys \ {old}) /\ Cardinality(Keys \ {old}) = Cardinality(Keys) - 1
      BY <3>1, FS_RemoveElement, Zenon DEF CacheOK
    <3> QED  BY <1>7, <3>2 DEF CacheOK
  <2> QED  BY <2>1, <2>2
<1>10. IsFiniteSet(Keys') /\ Cardinality(Keys') =< MaxSize
  <2> DEFINE K == Keys \ {old}
  <2>1. IsFiniteSet(K) /\ Cardinality(K) < MaxSize /\ Cardinality(K) \in Nat
    BY <1>9, FS_CardinalityType
  <2> HIDE DEF K
  <2>2. /\ IsFiniteSet(K \cup {h})
        /\ Cardinality(K \cup {h}) = IF h \in K THEN Cardinality(K) ELSE Cardinality(K) + 1
    BY <2>1, FS_AddElement
  <2> QED  BY <1>5, <1>7, <2>1, <2>2 DEF K
<1>11. missed' \in [Client -> [prefix : QueryPrefixes, at : Nat] \cup {None}]
       /\ \A d \in Client : missed'[d] # None => d \in users
  BY DEF CacheOK, Store
<1>12. /\ users' = users /\ clock' = clock + 1 /\ totalRequests' = totalRequests
       /\ cacheHits' = cacheHits
  BY DEF Store
<1>13. Keys' \subseteq AllPrefixes
  BY <1>1, <1>5 DEF CacheOK, AllPrefixes, h
<1>14. CacheOK'
  BY <1>6, <1>10, <1>11, <1>12, <1>13 DEF CacheOK
<1> QED  BY <1>2, <1>5, <1>8, <1>14 DEF h

\* A new model has new caches.
LEMMA NextModelKeeps ==
  ASSUME CacheOK, NextModel
  PROVE  CacheOK' /\ Keys' = Warm(kind) /\ kind' = kind
<1>1. /\ Keys' = Warm(kind) /\ kind' = kind /\ users' = users /\ missed' = missed
      /\ clock' = Cardinality(Warm(kind)) /\ totalRequests' = 0 /\ cacheHits' = 0
  BY DEF NextModel, Keys
<1>2. entries' \in [Keys' -> Nat]
  BY <1>1 DEF NextModel
<1> QED  BY <1>1, <1>2, WarmFacts DEF CacheOK

\* CacheOK holds in every reachable state.
LEMMA CacheStep == CacheOK /\ [SimulationNext]_<<vars, svars>> => CacheOK'
<1> SUFFICES ASSUME CacheOK, [SimulationNext]_<<vars, svars>> PROVE CacheOK'  OBVIOUS
<1>1. ASSUME NEW c \in users, NEW docs \in Queries, Request(c, docs) PROVE CacheOK'
  BY <1>1, LookupKeeps DEF Request
<1>2. ASSUME NEW c \in users, StoreEntry(c) PROVE CacheOK'
  BY <1>2, StoreKeeps DEF StoreEntry
<1>3. ASSUME UNCHANGED <<vars, kind>> PROVE CacheOK'
  BY <1>3 DEF vars, CacheOK, Keys
<1>4. ASSUME Report PROVE CacheOK'
  BY <1>3, <1>4, NextModelKeeps DEF Report
<1> QED  BY <1>1, <1>2, <1>3, <1>4, DrawnIsQuery DEF SimulationNext, svars

\* The same, as an invariant.
LEMMA CacheAlways == SimulationSpec => []CacheOK
BY CacheStarts, CacheStep, PTL DEF SimulationSpec

\* However the lookups and stores of goroutines interleave, a store makes room:
\* the Go cache never has more than MaxSize entries.
THEOREM SizeBoundedHolds == SimulationSpec => []SizeBounded
<1>1. CacheOK => SizeBounded
  BY DEF CacheOK, SizeBounded
<1> QED  BY <1>1, CacheAlways, PTL

-----------------------------------------------------------------------------
(* The savings. *)

\* What the cache has saved is the cost of its hits, since all entries cost the
\* same.
CostOK ==
  /\ model \in 1..Len(Models) /\ cacheHits =< totalRequests
  /\ entryCost = [h \in Keys |-> Cost(model)]
  /\ totalSaved = Cost(model) * cacheHits
  /\ results \in Seq([misses : Int, hits : Nat, saved : Int, savings : Int])
  /\ SavingsAgree

\* A cost is a number of operations.
LEMMA CostIsNat ==
  ASSUME NEW i \in 1..Len(Models)
  PROVE  Cost(i) \in Nat
<1>0. Models[i] \in [layers : Nat, heads : Nat]
  <2> DEFINE M == [layers : Nat, heads : Nat]
  <2>1. Models \in Seq(M)
    BY SimulationAssumption
  <2> HIDE DEF M
  <2>2. Models[i] \in M
    BY <2>1
  <2> QED  BY <2>2 DEF M
<1>1. Models[i].heads \in Nat /\ Models[i].layers \in Nat /\ SeqLen \in Nat
  BY <1>0, SimulationAssumption
<1>2. \A a, b, n \in Nat : 4 * a * 128 * n * n * b \in Nat
  <2> SUFFICES ASSUME NEW a \in Nat, NEW b \in Nat, NEW n \in Nat
               PROVE  4 * a * 128 * n * n * b \in Nat
    OBVIOUS
  <2>1. 4 * a * 128 \in Nat
    OBVIOUS
  <2> DEFINE x == 4 * a * 128
  <2>2. x \in Nat
    BY <2>1
  <2> HIDE DEF x
  <2>3. \A u, v \in Nat : u * v \in Nat
    OBVIOUS
  <2>4. x * n * n * b \in Nat
    BY <2>2, <2>3
  <2> QED  BY <2>4 DEF x
<1> QED  BY <1>1, <1>2, Zenon DEF Cost, AttentionFLOPs

\* The result of a finished run.
LEMMA ResultAgrees ==
  ASSUME CacheOK, CostOK, totalRequests = NumRequests
  PROVE  Result.savings = Result.saved /\ Result \in [misses : Int, hits : Nat, saved : Int, savings : Int]
<1>1. Cost(model) \in Nat /\ cacheHits \in Nat /\ totalRequests \in Nat /\ cacheHits =< totalRequests
  BY CostIsNat DEF CacheOK, CostOK
<1>2. \A a, m, n \in Nat : a * n - a * (n - m) = a * m /\ a * m \in Int /\ n - m \in Int
  OBVIOUS
<1>3. Cost(model) * NumRequests - Cost(model) * (totalRequests - cacheHits) = Cost(model) * cacheHits
  BY <1>1, <1>2
<1> QED  BY <1>1, <1>2, <1>3 DEF Result, withoutCache, withCache, Misses, CostOK

\* Nothing is saved at first.
LEMMA CostStarts == SimulationInit => CostOK
<1> SUFFICES ASSUME SimulationInit PROVE CostOK  OBVIOUS
<1>1. 1 \in 1..Len(Models)
  BY SimulationAssumption
<1>2. Cost(1) \in Nat
  BY <1>1, CostIsNat
<1>3. Keys = Warm(kind) /\ model = 1 /\ cacheHits = 0 /\ totalSaved = 0 /\ totalRequests = 0 /\ results = << >>
      /\ entryCost = [h \in Warm(kind) |-> Cost(1)]
  BY DEF SimulationInit, Keys
<1>4. Cost(1) * 0 = 0
  BY <1>2
<1> QED  BY <1>1, <1>3, <1>4 DEF CostOK, SavingsAgree

\* A hit saves the cost of an entry, a store writes it, a new model changes both.
LEMMA CostStep == CacheOK /\ CostOK /\ [SimulationNext]_<<vars, svars>> => CostOK'
<1> SUFFICES ASSUME CacheOK, CostOK, [SimulationNext]_<<vars, svars>> PROVE CostOK'  OBVIOUS
<1>0. Cost(model) \in Nat /\ cacheHits \in Nat /\ totalRequests \in Nat
  BY CostIsNat DEF CacheOK, CostOK
<1>1. ASSUME NEW c \in users, NEW docs \in Queries, Request(c, docs) PROVE CostOK'
  <2> DEFINE h == buildPrefixTokens(docs)
  <2>1. /\ Keys' = Keys /\ model' = model /\ entryCost' = entryCost /\ results' = results
        /\ totalRequests' = totalRequests + 1
        /\ cacheHits' = IF h \in Keys THEN cacheHits + 1 ELSE cacheHits
        /\ totalSaved' = IF h \in Keys THEN totalSaved + entryCost[h] ELSE totalSaved
    BY <1>1, LookupKeeps, Zenon DEF Request, Lookup
  <2> HIDE DEF h
  <2>2. h \in Keys => entryCost[h] = Cost(model)
    BY DEF CostOK
  <2>3. \A a, m \in Nat : a * m + a = a * (m + 1)
    OBVIOUS
  <2>4. totalSaved' = Cost(model) * cacheHits'
    BY <1>0, <2>1, <2>2, <2>3 DEF CostOK
  <2>5. cacheHits' =< totalRequests'
    BY <1>0, <2>1 DEF CostOK
  <2> QED  BY <2>1, <2>4, <2>5 DEF CostOK, SavingsAgree, Cost
<1>2. ASSUME NEW c \in users, StoreEntry(c) PROVE CostOK'
  <2>1. \A h \in Keys' : h = missed[c].prefix \/ h \in Keys
    BY <1>2, StoreKeeps DEF StoreEntry
  <2>2. /\ model' = model /\ results' = results /\ totalRequests' = totalRequests
        /\ cacheHits' = cacheHits /\ totalSaved' = totalSaved
        /\ entryCost' = [h \in Keys' |-> IF h = missed[c].prefix THEN Cost(model) ELSE entryCost[h]]
    BY <1>2 DEF StoreEntry, Store, newEntry, Keys
  <2>3. entryCost' = [h \in Keys' |-> Cost(model)]
    BY <2>1, <2>2 DEF CostOK
  <2> QED  BY <2>2, <2>3 DEF CostOK, SavingsAgree, Cost
<1>3. ASSUME Report PROVE CostOK'
  <2> DEFINE R == [misses : Int, hits : Nat, saved : Int, savings : Int]
  <2>1. results' = Append(results, Result) /\ Result.savings = Result.saved /\ Result \in R
    BY <1>3, ResultAgrees DEF Report
  <2>2. results' \in Seq(R) /\ SavingsAgree'
    <3> DEFINE r == Result
    <3>1. results \in Seq(R) /\ r \in R /\ results' = Append(results, r)
      BY <2>1 DEF CostOK
    <3> HIDE DEF R, r
    <3>2. /\ results' \in Seq(R) /\ Len(results') = Len(results) + 1
          /\ DOMAIN results' = 1..Len(results')
          /\ \A i \in DOMAIN results' :
               (i \in DOMAIN results /\ results'[i] = results[i]) \/ results'[i] = r
      BY <3>1
    <3>3. \A i \in DOMAIN results' : results'[i].savings = results'[i].saved
      BY <2>1, <3>2, Zenon DEF CostOK, SavingsAgree, r
    <3> QED  BY <3>2, <3>3 DEF SavingsAgree
  <2>3. CASE NextModel /\ model < Len(Models)
    <3>1. model' \in 1..Len(Models) /\ model' = model + 1
      BY <2>3, SimulationAssumption DEF NextModel, CostOK
    <3>2. /\ Keys' = Warm(kind) /\ entryCost' = [h \in Warm(kind) |-> Cost(model')]
          /\ totalSaved' = 0 /\ cacheHits' = 0 /\ totalRequests' = 0
      BY <2>3 DEF NextModel, Keys
    <3>3. Cost(model') * 0 = 0
      BY <3>1, CostIsNat
    <3> QED  BY <2>2, <3>1, <3>2, <3>3 DEF CostOK, Cost
  <2>4. CASE UNCHANGED <<vars, kind, model, draws, entryCost, totalSaved>>
    BY <2>2, <2>4 DEF CostOK, vars, Keys, Cost
  <2> QED  BY <1>3, <2>3, <2>4 DEF Report
<1>4. ASSUME UNCHANGED <<vars, svars>> PROVE CostOK'
  BY <1>4 DEF vars, svars, CostOK, SavingsAgree, Keys, Cost
<1> QED  BY <1>1, <1>2, <1>3, <1>4, DrawnIsQuery DEF SimulationNext

\* What a run reports as saved, worked out from its misses, is what the cache has
\* summed up hit by hit, for every model, whatever was evicted meanwhile.
THEOREM SavingsAgreeHolds == SimulationSpec => []SavingsAgree
<1>1. CostOK => SavingsAgree
  BY DEF CostOK
<1> QED  BY <1>1, CacheAlways, CostStarts, CostStep, PTL DEF SimulationSpec

-----------------------------------------------------------------------------
(* One goroutine. *)

\* c is the only goroutine.
Solo(c) == users = {c} /\ c \in Client

\* The run has one goroutine.
LEMMA OneUser ==
  ASSUME CacheOK, Cardinality(users) = 1
  PROVE  \E c : Solo(c)
<1>1. IsFiniteSet(users)
  BY PrefixAssumption, FS_Subset DEF CacheOK
<1>2. PICK c : users = {c}
  BY <1>1, FS_Singleton
<1> QED  BY <1>2 DEF CacheOK, Solo

\* What a goroutine that has missed m is about to store.
Waiting(m) == IF m = None THEN {} ELSE {m.prefix}

\* While all prefixes fit, those asked for are there or about to be stored, and
\* each has been missed once.
OnceOK ==
  /\ IsFiniteSet(asked)
  /\ \A c : Solo(c) /\ Cardinality(asked \cup Warm(kind)) =< MaxSize =>
       /\ Keys \cup Waiting(missed[c]) = asked \cup Warm(kind)
       /\ Keys \cap Waiting(missed[c]) = {}
       /\ Misses = Cardinality(asked \ Warm(kind))

\* A lookup: what fits after it has fitted before it.
LEMMA LookupOnce ==
  ASSUME CacheOK, OnceOK, NEW d \in users, NEW docs \in Queries, Lookup(d, docs), kind' = kind
  PROVE  OnceOK'
<1> DEFINE h == buildPrefixTokens(docs)
           W == Warm(kind)
<1>1. Keys' = Keys
  BY LookupKeeps
<1>2. /\ missed[d] = None /\ asked' = asked \cup {h} /\ users' = users
      /\ missed' = [missed EXCEPT ![d] = IF h \in Keys THEN None ELSE [prefix |-> h, at |-> clock]]
      /\ totalRequests' = totalRequests + 1
      /\ cacheHits' = IF h \in Keys THEN cacheHits + 1 ELSE cacheHits
  BY DEF Lookup
<1>3. h \in QueryPrefixes /\ IsFiniteSet(W) /\ W' = W /\ clock \in Nat
  BY WarmFacts DEF QueryPrefixes, Warm, CacheOK
<1> HIDE DEF h, W
<1>4. IsFiniteSet(asked')
  BY <1>2, FS_AddElement DEF OnceOK
<1>5. ASSUME NEW c, Solo(c)', Cardinality(asked' \cup W) =< MaxSize
      PROVE  /\ Keys \cup Waiting(missed'[c]) = asked' \cup W
             /\ Keys \cap Waiting(missed'[c]) = {}
             /\ Misses' = Cardinality(asked' \ W)
  <2>1. Solo(c) /\ c = d
    BY <1>2, <1>5 DEF Solo
  <2>2. Cardinality(asked \cup W) =< MaxSize
    <3>1. IsFiniteSet(asked' \cup W) /\ asked \cup W \subseteq asked' \cup W
      BY <1>2, <1>3, <1>4, FS_Union, Zenon
    <3>2. /\ Cardinality(asked \cup W) =< Cardinality(asked' \cup W)
          /\ Cardinality(asked \cup W) \in Nat /\ Cardinality(asked' \cup W) \in Nat
      BY <3>1, FS_Subset, FS_CardinalityType
    <3> QED  BY <1>5, <3>2, PrefixAssumption
  <2>3. Keys = asked \cup W /\ Misses = Cardinality(asked \ W)
    BY <1>2, <2>1, <2>2, Zenon DEF OnceOK, Waiting, W
  <2>4. totalRequests \in Nat /\ cacheHits \in Nat
    BY DEF CacheOK
  <2>5. CASE h \in Keys
    <3>1. missed'[c] = None /\ asked' \cup W = asked \cup W /\ asked' \ W = asked \ W
      BY <1>2, <2>1, <2>3, <2>5 DEF Solo, CacheOK
    <3>2. Misses' = Misses
      BY <1>2, <2>4, <2>5 DEF Misses
    <3> QED  BY <2>3, <3>1, <3>2, Zenon DEF Waiting
  <2>6. CASE h \notin Keys
    <3>1. missed'[c] = [prefix |-> h, at |-> clock]
      BY <1>2, <2>1, <2>6 DEF Solo, CacheOK
    <3>2. missed'[c] # None
      BY <1>3, <3>1, NoneAssumption
    <3>3. Waiting(missed'[c]) = {h}
      BY <3>1, <3>2 DEF Waiting
    <3>4. asked' \ W = (asked \ W) \cup {h} /\ h \notin asked \ W
      BY <1>2, <2>3, <2>6
    <3>5. Cardinality(asked' \ W) = Cardinality(asked \ W) + 1
      BY <3>4, FS_AddElement, FS_Difference, Zenon DEF OnceOK
    <3>6. Misses' = Misses + 1
      BY <1>2, <2>4, <2>6 DEF Misses
    <3> QED  BY <1>2, <2>3, <2>6, <3>3, <3>5, <3>6
  <2> QED  BY <2>5, <2>6
<1>6. ASSUME NEW c, Solo(c)', Cardinality(asked \cup Warm(kind))' =< MaxSize
      PROVE  /\ Keys' \cup Waiting(missed'[c]) = (asked \cup Warm(kind))'
             /\ Keys' \cap Waiting(missed'[c]) = {}
             /\ Misses' = Cardinality(asked \ Warm(kind))'
  BY <1>1, <1>3, <1>5, <1>6 DEF W
<1> QED  BY <1>4, <1>6, Zenon DEF OnceOK, Waiting

\* A store: there is room for a prefix when all of them fit, so nothing goes.
LEMMA StoreOnce ==
  ASSUME CacheOK, OnceOK, NEW d \in users, Store(d), kind' = kind
  PROVE  OnceOK'
<1> DEFINE h == missed[d].prefix
           W == Warm(kind)
<1>1. PICK old \in Evictable :
        Keys' = (Keys \ {old}) \cup {h} /\ (old = None <=> Cardinality(Keys) < MaxSize)
  BY StoreKeeps
<1>2. /\ missed[d] # None /\ asked' = asked /\ users' = users /\ missed' = [missed EXCEPT ![d] = None]
      /\ totalRequests' = totalRequests /\ cacheHits' = cacheHits
  BY DEF Store
<1>3. IsFiniteSet(W) /\ W' = W /\ Misses' = Misses
  BY <1>2, WarmFacts DEF Warm, Misses
<1>4. None \notin Keys
  BY NoneAssumption, SimulationAssumption DEF CacheOK, AllPrefixes
<1> HIDE DEF h, W
<1>5. ASSUME NEW c, Solo(c)', Cardinality(asked \cup W) =< MaxSize
      PROVE  /\ Keys' \cup Waiting(missed'[c]) = asked \cup W
             /\ Keys' \cap Waiting(missed'[c]) = {}
             /\ Misses' = Cardinality(asked \ W)
  <2>1. Solo(c) /\ c = d /\ missed'[c] = None
    BY <1>2, <1>5 DEF Solo, CacheOK
  <2>2. Keys \cup {h} = asked \cup W /\ h \notin Keys /\ Misses = Cardinality(asked \ W)
    BY <1>2, <1>5, <2>1, Zenon DEF OnceOK, Waiting, W, h
  <2>3. Cardinality(Keys) < MaxSize
    <3>1. Cardinality(Keys \cup {h}) = Cardinality(Keys) + 1 /\ Cardinality(Keys) \in Nat
      BY <2>2, FS_AddElement, FS_CardinalityType DEF CacheOK
    <3>2. Cardinality(Keys \cup {h}) =< MaxSize
      BY <1>5, <2>2, Zenon
    <3> QED  BY <3>1, <3>2, PrefixAssumption
  <2>4. Keys' = Keys \cup {h}
    BY <1>1, <1>4, <2>3
  <2> QED  BY <1>3, <2>1, <2>2, <2>4 DEF Waiting
<1>6. ASSUME NEW c, Solo(c)', Cardinality(asked \cup Warm(kind))' =< MaxSize
      PROVE  /\ Keys' \cup Waiting(missed'[c]) = (asked \cup Warm(kind))'
             /\ Keys' \cap Waiting(missed'[c]) = {}
             /\ Misses' = Cardinality(asked \ Warm(kind))'
  BY <1>2, <1>3, <1>5, <1>6 DEF W
<1> QED  BY <1>2, <1>6, Zenon DEF OnceOK, Waiting

\* New caches, with no goroutine waiting.
LEMMA FreshOnce ==
  ASSUME NEW a, NEW K, NEW W, a = {}, K = W, IsFiniteSet(W), NEW t, NEW m, t = 0, m = 0
  PROVE  IsFiniteSet(a) /\ K = a \cup W /\ t - m = Cardinality(a \ W)
<1>1. a \ W = {} /\ a \cup W = W
  OBVIOUS
<1> QED  BY <1>1, FS_EmptySet

\* OnceOK is kept by every step.
LEMMA OnceStep == CacheOK /\ OnceOK /\ [SimulationNext]_<<vars, svars>> => OnceOK'
<1> SUFFICES ASSUME CacheOK, OnceOK, [SimulationNext]_<<vars, svars>> PROVE OnceOK'  OBVIOUS
<1>1. ASSUME NEW c \in users, NEW docs \in Queries, Request(c, docs) PROVE OnceOK'
  BY <1>1, LookupOnce DEF Request
<1>2. ASSUME NEW c \in users, StoreEntry(c) PROVE OnceOK'
  BY <1>2, StoreOnce DEF StoreEntry
<1>3. ASSUME UNCHANGED <<vars, kind>> PROVE OnceOK'
  <2>1. /\ Keys' = Keys /\ Misses' = Misses /\ Warm(kind)' = Warm(kind) /\ missed' = missed
        /\ asked' = asked /\ \A c : Solo(c)' <=> Solo(c)
    BY <1>3 DEF vars, Keys, Misses, Warm, Solo
  <2> QED  BY <2>1 DEF OnceOK, Waiting
<1>4. ASSUME Report, NextModel PROVE OnceOK'
  <2>1. /\ asked' = {} /\ Keys' = Warm(kind) /\ kind' = kind /\ totalRequests' = 0 /\ cacheHits' = 0
        /\ users' = users /\ missed' = missed /\ Warm(kind)' = Warm(kind)
    BY <1>4 DEF NextModel, Keys, Warm
  <2>2. IsFiniteSet(asked') /\ Keys' = asked' \cup Warm(kind) /\ Misses' = Cardinality(asked' \ Warm(kind))
    BY <2>1, WarmFacts, FreshOnce DEF Misses
  <2>3. \A c : Solo(c)' => missed'[c] = None
    BY <1>4, <2>1 DEF Report, Idle, Solo
  <2> QED  BY <2>1, <2>2, <2>3, Zenon DEF OnceOK, Waiting
<1> QED  BY <1>1, <1>2, <1>3, <1>4, DrawnIsQuery DEF SimulationNext, svars, Report

\* Only the warm prefixes are there at first.
LEMMA OnceStarts == SimulationInit => OnceOK
<1> SUFFICES ASSUME SimulationInit PROVE OnceOK  OBVIOUS
<1>1. /\ asked = {} /\ Keys = Warm(kind) /\ totalRequests = 0 /\ cacheHits = 0
      /\ \A c : Solo(c) => missed[c] = None
  BY DEF SimulationInit, Keys, Solo
<1>2. IsFiniteSet(asked) /\ Keys = asked \cup Warm(kind) /\ Misses = Cardinality(asked \ Warm(kind))
  BY <1>1, WarmFacts, FreshOnce DEF Misses
<1> QED  BY <1>1, <1>2 DEF OnceOK, Waiting

\* While all prefixes asked for fit into the cache, one goroutine computes each
\* of them exactly once, and a warm one never.
THEOREM ComputedOnceHolds == SimulationSpec => []ComputedOnce
<1>1. CacheOK /\ OnceOK => ComputedOnce
  BY OneUser DEF OnceOK, ComputedOnce
<1> QED  BY <1>1, CacheAlways, OnceStarts, OnceStep, PTL DEF SimulationSpec

-----------------------------------------------------------------------------
(* The scan for the oldest timestamp keeps the order of an LRU list. *)

\* The elements of o were used one after the other, all before b.
Increasing(o, e, b) ==
  /\ o \in Seq(AllPrefixes) /\ Distinct(o)
  /\ \A i \in 1..Len(o) : e[o[i]] \in Nat /\ e[o[i]] < b
  /\ \A i, j \in 1..Len(o) : i < j => e[o[i]] < e[o[j]]

\* The list o has the entries of e, oldest first.
Ranks(o, e, b) ==
  Increasing(o, e, b) /\ Range(o) = DOMAIN e /\ e = [k \in DOMAIN e |-> e[k]]

\* What an OrderedDict does: a hit moves to the end, a store makes room at the
\* front and goes to the end.
Stored(o, h) == Append(IF Len(o) >= MaxSize THEN Tail(o) ELSE o, h)

MovedToEnd(o, h) ==
  LET i == CHOOSE i \in DOMAIN o : o[i] = h
  IN  Append(SubSeq(o, 1, i - 1) \o SubSeq(o, i + 1, Len(o)), h)

Queried(o, h) == IF h \in Range(o) THEN MovedToEnd(o, h) ELSE Stored(o, h)

\* move_to_end takes the element out where it is.
LEMMA MovedIs ==
  ASSUME NEW o \in Seq(AllPrefixes), Distinct(o), NEW p \in 1..Len(o), NEW h, o[p] = h
  PROVE  MovedToEnd(o, h) = Append(Cut(o, p), h)
<1> DEFINE i == CHOOSE i \in DOMAIN o : o[i] = h
<1>1. i = p
  BY DEF Distinct
<1>2. MovedToEnd(o, h) = Append(SubSeq(o, 1, i - 1) \o SubSeq(o, i + 1, Len(o)), h)
  BY Zenon DEF MovedToEnd
<1> HIDE DEF i
<1> QED  BY <1>1, <1>2, Zenon DEF Cut

\* The entry used last goes to the end.
LEMMA RankAppend ==
  ASSUME NEW r, NEW e, NEW a \in Nat, Increasing(r, e, a), NEW h \in AllPrefixes, h \notin Range(r),
         NEW t \in Nat, a =< t, NEW b \in Nat, t < b
  PROVE  Ranks(Append(r, h), [k \in Range(r) \cup {h} |-> IF k = h THEN t ELSE e[k]], b)
<1> DEFINE s == Append(r, h)
           f == [k \in Range(r) \cup {h} |-> IF k = h THEN t ELSE e[k]]
<1>0. r \in Seq(AllPrefixes) /\ Distinct(r) /\ \A i \in 1..Len(r) : r[i] \in Range(r)
  BY DEF Increasing, Range
<1>1. s \in Seq(AllPrefixes) /\ Distinct(s) /\ Range(s) = Range(r) \cup {h}
  BY <1>0, AppendSet
<1>2. Len(s) = Len(r) + 1 /\ \A i \in 1..Len(s) : s[i] = IF i =< Len(r) THEN r[i] ELSE h
  BY <1>0
<1>3. Len(r) \in Nat
  BY <1>0
<1>4. \A i \in 1..Len(r) : s[i] = r[i] /\ f[r[i]] = e[r[i]] /\ e[r[i]] \in Nat /\ e[r[i]] < a
  BY <1>0, <1>2, <1>3 DEF Increasing
<1>5. s[Len(s)] = h /\ f[h] = t
  BY <1>2, <1>3, SMTT(30)
<1>6. DOMAIN f = Range(s) /\ f = [k \in DOMAIN f |-> f[k]]
  BY <1>1
<1> HIDE DEF s, f
<1>7. \A i \in 1..Len(s) : f[s[i]] \in Nat /\ f[s[i]] < b
  BY <1>2, <1>3, <1>4, <1>5, SMTT(30)
<1>8. \A i, j \in 1..Len(s) : i < j => f[s[i]] < f[s[j]]
  <2> SUFFICES ASSUME NEW i \in 1..Len(s), NEW j \in 1..Len(s), i < j PROVE f[s[i]] < f[s[j]]
    BY SMTT(30)
  <2>1. i \in 1..Len(r) /\ s[i] = r[i] /\ f[s[i]] = e[r[i]] /\ e[r[i]] < t
    BY <1>2, <1>3, <1>4, SMTT(30)
  <2>2. CASE j \in 1..Len(r)
    <3>1. e[r[i]] < e[r[j]]
      BY <2>1, <2>2, SMTT(30) DEF Increasing
    <3> QED  BY <1>4, <2>1, <2>2, <3>1
  <2>3. CASE j = Len(s)
    BY <1>5, <2>1, <2>3
  <2> QED  BY <1>2, <1>3, <2>2, <2>3, SMTT(30)
<1> QED  BY <1>1, <1>6, <1>7, <1>8, Zenon DEF Ranks, Increasing, s, f

\* A hit at time b.
LEMMA RankHit ==
  ASSUME NEW o, NEW e, NEW b \in Nat, Ranks(o, e, b), NEW h \in DOMAIN e
  PROVE  Ranks(MovedToEnd(o, h), [e EXCEPT ![h] = b], b + 1)
<1>1. o \in Seq(AllPrefixes) /\ Distinct(o) /\ Range(o) = DOMAIN e /\ h \in AllPrefixes
  BY SMTT(30) DEF Ranks, Increasing, Range
<1>2. PICK p \in 1..Len(o) : o[p] = h
  BY <1>1 DEF Range
<1> DEFINE r == Cut(o, p)
<1>3. /\ r \in Seq(AllPrefixes) /\ Len(r) = Len(o) - 1
      /\ \A j \in 1..Len(r) : r[j] = IF j < p THEN o[j] ELSE o[j + 1]
  BY <1>1, <1>2, CutIs, Zenon
<1>4. Distinct(r) /\ Range(r) = DOMAIN e \ {h}
  BY <1>1, <1>2, CutSet, Zenon
<1>0. MovedToEnd(o, h) = Append(r, h)
  BY <1>1, <1>2, MovedIs
<1> HIDE DEF r
<1>5. \A j \in 1..Len(r) : \E m \in 1..Len(o) : r[j] = o[m] /\ m = IF j < p THEN j ELSE j + 1
  BY <1>1, <1>3, SMTT(30)
<1>6. \A j \in 1..Len(r) : e[r[j]] \in Nat /\ e[r[j]] < b
  BY <1>5, SMTT(30) DEF Ranks, Increasing
<1>7. ASSUME NEW i \in 1..Len(r), NEW j \in 1..Len(r), i < j PROVE e[r[i]] < e[r[j]]
  <2>1. PICK m \in 1..Len(o) : r[i] = o[m] /\ m = IF i < p THEN i ELSE i + 1
    BY <1>5
  <2>2. PICK n \in 1..Len(o) : r[j] = o[n] /\ n = IF j < p THEN j ELSE j + 1
    BY <1>5, SMTT(30)
  <2>3. m < n
    BY <1>7, <2>1, <2>2
  <2> QED  BY <2>1, <2>2, <2>3, Zenon DEF Ranks, Increasing
<1>8. Increasing(r, e, b)
  BY <1>3, <1>4, <1>6, <1>7, Zenon DEF Increasing
<1> DEFINE f == [k \in Range(r) \cup {h} |-> IF k = h THEN b ELSE e[k]]
<1>9. Ranks(Append(r, h), f, b + 1)
  <2>1. h \in AllPrefixes /\ h \notin Range(r)
    BY <1>1, <1>4, SMTT(30)
  <2>2. ASSUME NEW t \in Nat, b =< t, NEW n \in Nat, t < n
        PROVE  Ranks(Append(r, h), [k \in Range(r) \cup {h} |-> IF k = h THEN t ELSE e[k]], n)
    BY <1>8, <2>1, <2>2, RankAppend
  <2> HIDE DEF f
  <2>3. Ranks(Append(r, h), [k \in Range(r) \cup {h} |-> IF k = h THEN b ELSE e[k]], b + 1)
    <3>1. b + 1 \in Nat /\ b =< b /\ b < b + 1
      BY SMTT(30)
    <3> QED  BY <2>2, <3>1, Zenon
  <2> QED  BY <2>3, Zenon DEF f
<1>10. [e EXCEPT ![h] = b] = f
  <2>1. e = [k \in DOMAIN e |-> e[k]] /\ Range(r) \cup {h} = DOMAIN e
    BY <1>4, Zenon DEF Ranks
  <2> QED  BY <2>1
<1> QED  BY <1>0, <1>9, <1>10

\* A store of h, which is not there, by an entry made at time t.
LEMMA RankStore ==
  ASSUME NEW q, NEW e, NEW a \in Nat, Ranks(q, e, a), NEW h \in AllPrefixes, h \notin DOMAIN e,
         NEW t \in Nat, a =< t, NEW b \in Nat, t < b, NEW old,
         IF Cardinality(DOMAIN e) >= MaxSize
           THEN old \in DOMAIN e /\ \A j \in DOMAIN e : e[old] =< e[j]
           ELSE old \notin DOMAIN e
  PROVE  Ranks(Stored(q, h), [k \in (DOMAIN e \ {old}) \cup {h} |-> IF k = h THEN t ELSE e[k]], b)
<1>1. q \in Seq(AllPrefixes) /\ Distinct(q) /\ Range(q) = DOMAIN e /\ Increasing(q, e, a)
  BY DEF Ranks, Increasing
<1>2. Cardinality(DOMAIN e) = Len(q)
  BY <1>1, LenIsCardinality, SMTT(30)
<1>3. MaxSize \in Nat /\ MaxSize >= 1 /\ Len(q) \in Nat
  BY <1>1, PrefixAssumption, SMTT(30)
<1>4. CASE Len(q) >= MaxSize
  <2> DEFINE r == Tail(q)
  <2>1. q # << >> /\ 1 \in 1..Len(q)
    BY <1>1, <1>3, <1>4, SMTT(30)
  <2>2. /\ r \in Seq(AllPrefixes) /\ Len(r) = Len(q) - 1 /\ \A j \in 1..Len(r) : r[j] = q[j + 1]
        /\ Distinct(r) /\ Range(r) = DOMAIN e \ {q[1]}
    BY <1>1, <2>1, TailSet, SMTT(30)
  <2>3. old = q[1]
    <3>1. PICK m \in 1..Len(q) : old = q[m]
      BY <1>1, <1>2, <1>4, SMTT(30) DEF Range
    <3>2. q[1] \in DOMAIN e
      BY <1>1, <2>1, SMTT(30) DEF Range
    <3>3. e[q[m]] =< e[q[1]]
      BY <1>2, <1>4, <3>1, <3>2
    <3>4. e[q[m]] \in Nat /\ e[q[1]] \in Nat /\ (1 < m => e[q[1]] < e[q[m]])
      BY <1>1, <2>1, <3>1 DEF Increasing
    <3>5. m = 1
      BY <3>1, <3>3, <3>4, SMTT(30)
    <3> QED  BY <3>1, <3>5, SMTT(30)
  <2> HIDE DEF r
  <2>4. \A j \in 1..Len(r) : j + 1 \in 1..Len(q) /\ r[j] = q[j + 1]
    BY <1>3, <2>2, SMTT(30)
  <2>5. \A j \in 1..Len(r) : e[r[j]] \in Nat /\ e[r[j]] < a
    BY <1>1, <2>4, SMTT(30) DEF Increasing
  <2>6. \A i, j \in 1..Len(r) : i < j => e[r[i]] < e[r[j]]
    <3> SUFFICES ASSUME NEW i \in 1..Len(r), NEW j \in 1..Len(r), i < j PROVE e[r[i]] < e[r[j]]
      OBVIOUS
    <3>1. i + 1 < j + 1 /\ i + 1 \in 1..Len(q) /\ j + 1 \in 1..Len(q)
      BY <2>4, SMTT(30)
    <3>2. e[q[i + 1]] < e[q[j + 1]]
      BY <1>1, <3>1 DEF Increasing
    <3> QED  BY <2>4, <3>2, Zenon
  <2>7. Increasing(r, e, a)
    BY <2>2, <2>5, <2>6, Zenon DEF Increasing
  <2>8. Ranks(Append(r, h), [k \in Range(r) \cup {h} |-> IF k = h THEN t ELSE e[k]], b)
    <3>1. h \notin Range(r)
      BY <2>2, SMTT(30)
    <3> QED  BY <2>7, <3>1, RankAppend, SMTT(30)
  <2> QED  BY <1>4, <2>2, <2>3, <2>8 DEF Stored, r
<1>5. CASE ~(Len(q) >= MaxSize)
  <2>1. DOMAIN e \ {old} = Range(q)
    BY <1>1, <1>2, <1>5, Zenon
  <2>2. Ranks(Append(q, h), [k \in Range(q) \cup {h} |-> IF k = h THEN t ELSE e[k]], b)
    BY <1>1, RankAppend, SMTT(30)
  <2> QED  BY <1>5, <2>1, <2>2 DEF Stored
<1> QED  BY <1>4, <1>5, SMTT(30)

\* The list that a goroutine's queries have led to: the entries in their order,
\* or, after a miss, the order that its store will lead to.
Follows(o, e, m, b) ==
  IF m = None THEN Ranks(o, e, b)
  ELSE \E q : /\ Ranks(q, e, m.at) /\ m.prefix \notin DOMAIN e
              /\ o = Stored(q, m.prefix)

\* New caches.
LEMMA FollowsStart ==
  ASSUME NEW k
  PROVE  Ranks(Warmed(k), [h \in Warm(k) |-> 0], Cardinality(Warm(k)))
<1> DEFINE o == Warmed(k)
           e == [h \in Warm(k) |-> 0]
<1>1. CASE k = "comparison"
  <2>1. o = << <<Shared>> >> /\ Warm(k) = {<<Shared>>}
    BY <1>1 DEF Warmed, Warm, Range
  <2>2. Cardinality(Warm(k)) = 1
    BY <2>1, FS_Singleton, Zenon
  <2>3. o \in Seq(AllPrefixes) /\ Len(o) = 1 /\ o[1] = <<Shared>> /\ e[<<Shared>>] = 0
    BY <2>1, SMTT(30) DEF AllPrefixes
  <2> HIDE DEF o, e
  <2>4. Increasing(o, e, 1) /\ Range(o) = {<<Shared>>}
    BY <2>3, SMTT(30) DEF Increasing, Distinct, Range
  <2> QED  BY <2>1, <2>2, <2>4 DEF Ranks, o, e
<1>2. CASE k # "comparison"
  <2>1. o = << >> /\ Warm(k) = {} /\ Cardinality(Warm(k)) = 0
    BY <1>2, FS_EmptySet, SMTT(30) DEF Warmed, Warm, Range
  <2> HIDE DEF o
  <2>2. Increasing(o, e, 0) /\ Range(o) = {}
    BY <2>1 DEF Increasing, Distinct, Range
  <2> QED  BY <2>1, <2>2 DEF Ranks, o
<1> QED  BY <1>1, <1>2

\* A query of the only goroutine, whose prefix is found in the list exactly when
\* it is found in the cache.
LEMMA FollowsLookup ==
  ASSUME CacheOK, NEW c, Solo(c), NEW docs \in Queries, Lookup(c, docs),
         NEW o, Follows(o, entries, missed[c], clock)
  PROVE  LET h == buildPrefixTokens(docs) IN
         /\ h \in Range(o) <=> h \in Keys
         /\ Follows(Queried(o, h), entries', missed'[c], clock')
<1> DEFINE h == buildPrefixTokens(docs)
<1>1. h \in QueryPrefixes /\ clock \in Nat /\ c \in Client
  BY DEF QueryPrefixes, CacheOK, Solo
<1>2. /\ missed[c] = None /\ entries' = Touched(h) /\ clock' = clock + 1
      /\ missed' = [missed EXCEPT ![c] = IF h \in Keys THEN None ELSE [prefix |-> h, at |-> clock]]
  BY Zenon DEF Lookup
<1> HIDE DEF h
<1>3. missed'[c] = IF h \in Keys THEN None ELSE [prefix |-> h, at |-> clock]
  BY <1>1, <1>2, Zenon DEF CacheOK
<1>4. Ranks(o, entries, clock) /\ o \in Seq(AllPrefixes) /\ Range(o) = Keys
  BY <1>2, Zenon DEF Follows, Ranks, Increasing, Keys
<1>5. h \in Range(o) <=> h \in Keys
  BY <1>4
<1>6. CASE h \in Keys
  <2>1. Queried(o, h) = MovedToEnd(o, h)
    BY <1>5, <1>6 DEF Queried
  <2>2. entries' = [entries EXCEPT ![h] = clock] /\ missed'[c] = None
    BY <1>2, <1>3, <1>6, Zenon DEF Touched
  <2>3. Ranks(MovedToEnd(o, h), [entries EXCEPT ![h] = clock], clock + 1)
    BY <1>1, <1>4, <1>6, RankHit DEF Keys
  <2> QED  BY <1>2, <1>5, <2>1, <2>2, <2>3, Zenon DEF Follows, h
<1>7. CASE h \notin Keys
  <2>1. Queried(o, h) = Stored(o, h)
    BY <1>5, <1>7 DEF Queried
  <2>2. entries' = entries /\ missed'[c] = [prefix |-> h, at |-> clock]
    BY <1>2, <1>3, <1>7, Zenon DEF Touched
  <2>3. missed'[c] # None /\ missed'[c].prefix = h /\ missed'[c].at = clock
    BY <1>1, <2>2, NoneAssumption, SMTT(30)
  <2>4. Ranks(o, entries', missed'[c].at) /\ h \notin DOMAIN entries'
    BY <1>4, <1>7, <2>2, <2>3, Zenon DEF Keys
  <2> QED  BY <1>5, <2>1, <2>3, <2>4, Zenon DEF Follows, h
<1> QED  BY <1>6, <1>7, Zenon

\* The store after a miss.
LEMMA FollowsStore ==
  ASSUME CacheOK, NEW c, Solo(c), Store(c), NEW o, Follows(o, entries, missed[c], clock)
  PROVE  Follows(o, entries', missed'[c], clock')
<1> DEFINE h == missed[c].prefix
           a == missed[c].at
<1>1. c \in Client /\ missed[c] # None /\ h \in AllPrefixes /\ a \in Nat /\ clock \in Nat
  BY Zenon DEF Solo, Store, CacheOK, AllPrefixes
<1>2. PICK q : Ranks(q, entries, a) /\ h \notin DOMAIN entries /\ o = Stored(q, h)
  BY <1>1, Zenon DEF Follows
<1>3. PICK old \in Evictable, t \in a..clock : Put(h, t, old)
  BY Zenon DEF Store
<1>4. missed'[c] = None /\ clock' = clock + 1
  BY <1>1, Zenon DEF Store, CacheOK
<1> HIDE DEF h, a
<1>5. t \in Nat /\ a =< t /\ t < clock + 1 /\ clock + 1 \in Nat
  BY <1>1, <1>3, SMTT(30)
<1>6. entries' = [k \in (DOMAIN entries \ {old}) \cup {h} |-> IF k = h THEN t ELSE entries[k]]
  BY <1>3 DEF Put, Keys
<1>7. None \notin Keys
  BY NoneAssumption, SimulationAssumption, Zenon DEF CacheOK, AllPrefixes
<1>8. IF Cardinality(DOMAIN entries) >= MaxSize
        THEN old \in DOMAIN entries /\ \A j \in DOMAIN entries : entries[old] =< entries[j]
        ELSE old \notin DOMAIN entries
  BY <1>3, <1>7 DEF Evictable, Keys
<1>9. Ranks(o, entries', clock + 1)
  BY <1>1, <1>2, <1>5, <1>6, <1>8, RankStore, SMTT(30)
<1> QED  BY <1>4, <1>9, Zenon DEF Follows

-----------------------------------------------------------------------------
(* Go and Python. *)

\* Sorting, and sorting the set, give the same when nothing was drawn twice: what
\* each of them looks for is the same.
LEMMA SamePrefix ==
  ASSUME NEW docs \in Queries, IsInjective(docs)
  PROVE  build_prefix_tokens(docs) = buildPrefixTokens(docs)
<1>a. PICK n \in Nat : docs \in [1..n -> Doc]
  BY PrefixAssumption DEF Queries
<1> DEFINE R == Range(docs)
           permuted == {[i \in DOMAIN docs |-> docs[p[i]]] : p \in Bijection(DOMAIN docs, DOMAIN docs)}
<1>0. n \in Nat /\ DOMAIN docs = 1..n /\ Doc \subseteq Nat /\ \A i \in 1..n : docs[i] \in R /\ docs[i] \in Nat
  BY <1>a, PrefixAssumption, Zenon DEF Range
<1>1. \A i, j \in 1..n : docs[i] = docs[j] => i = j
  BY <1>0, Zenon DEF IsInjective
<1>2. IsFiniteSet(R) /\ Cardinality(R) = n
  <2>1. docs \in Seq(Doc) /\ Len(docs) = n
    BY <1>a, <1>0
  <2>2. Distinct(docs)
    BY <1>1, <2>1 DEF Distinct
  <2> QED  BY <2>1, <2>2, LenIsCardinality
<1>3. \A x \in R : \E j \in 1..n : docs[j] = x
  BY <1>0 DEF Range
<1> HIDE DEF R
<1>4. ASSUME NEW s \in [1..n -> R], \A i, j \in DOMAIN s : i < j => s[i] < s[j]
      PROVE  s \in permuted /\ \A i, j \in DOMAIN s : i < j => s[i] =< s[j]
  <2>1. \A i \in 1..n : s[i] \in Nat
    BY <1>0, <1>3, SMTT(30)
  <2>2. s \in Injection(1..n, R)
    BY <1>0, <1>4, <2>1 DEF Injection, IsInjective
  <2>3. IsFiniteSet(1..n) /\ Cardinality(1..n) = n
    BY <1>0, FS_Interval, SMTT(30)
  <2>4. s \in Surjection(1..n, R)
    BY <1>2, <2>2, <2>3, FS_Injection
  <2> DEFINE p == [i \in 1..n |-> CHOOSE j \in 1..n : docs[j] = s[i]]
  <2>5. \A i \in 1..n : p[i] \in 1..n /\ docs[p[i]] = s[i]
    BY <1>3, SMTT(30)
  <2>6. p \in [1..n -> 1..n]
    BY <2>5, SMTT(30)
  <2> HIDE DEF p
  <2>7. \A i, j \in 1..n : p[i] = p[j] => i = j
    BY <2>2, <2>5 DEF Injection, IsInjective
  <2>8. \A j \in 1..n : \E i \in 1..n : p[i] = j
    <3>1. ASSUME NEW j \in 1..n PROVE \E i \in 1..n : p[i] = j
      <4>1. PICK i \in 1..n : s[i] = docs[j]
        BY <1>0, <2>4 DEF Surjection
      <4>2. p[i] = j
        BY <1>1, <2>5, <4>1
      <4> QED  BY <4>2, SMTT(30)
    <3> QED  BY <3>1, SMTT(30)
  <2>9. p \in Bijection(1..n, 1..n)
    BY <2>6, <2>7, <2>8 DEF Bijection, Injection, Surjection, IsInjective
  <2>10. s = [i \in 1..n |-> docs[p[i]]]
    BY <2>5
  <2> QED  BY <1>0, <1>4, <2>1, <2>9, <2>10, SMTT(30)
<1>5. ASSUME NEW s \in permuted, \A i, j \in DOMAIN s : i < j => s[i] =< s[j]
      PROVE  s \in [1..n -> R] /\ \A i, j \in DOMAIN s : i < j => s[i] < s[j]
  <2>1. PICK p \in Bijection(1..n, 1..n) : s = [i \in 1..n |-> docs[p[i]]]
    BY <1>0, Zenon
  <2>2. p \in [1..n -> 1..n] /\ \A i, j \in 1..n : p[i] = p[j] => i = j
    BY Zenon DEF Bijection, Injection, IsInjective
  <2>3. \A i \in 1..n : s[i] = docs[p[i]] /\ p[i] \in 1..n /\ s[i] \in R /\ s[i] \in Nat
    BY <1>0, <2>1, <2>2, Zenon
  <2>4. s \in [1..n -> R]
    BY <2>1, <2>3, Zenon
  <2>5. \A i, j \in 1..n : i < j => s[i] # s[j]
    <3> SUFFICES ASSUME NEW i \in 1..n, NEW j \in 1..n, i < j, s[i] = s[j] PROVE FALSE
      BY Zenon
    <3>1. p[i] = p[j]
      BY <1>1, <2>3, SMTT(30)
    <3>2. i = j
      BY <2>2, <3>1, Zenon
    <3> QED  BY <1>0, <3>2
  <2> QED  BY <1>0, <1>5, <2>3, <2>4, <2>5, SMTT(30)
<1>6. build_prefix_tokens(docs) =
        CHOOSE s \in [1..n -> R] : \A i, j \in DOMAIN s : i < j => s[i] < s[j]
  BY <1>2, Zenon DEF build_prefix_tokens, R
<1>7. buildPrefixTokens(docs) = CHOOSE s \in permuted : \A i, j \in DOMAIN s : i < j => s[i] =< s[j]
  BY Zenon DEF buildPrefixTokens
<1> HIDE DEF permuted
<1>8. \A s : /\ s \in [1..n -> R]
             /\ \A i, j \in DOMAIN s : i < j => s[i] < s[j]
         <=> /\ s \in permuted
             /\ \A i, j \in DOMAIN s : i < j => s[i] =< s[j]
  BY <1>4, <1>5, Zenon
<1> QED  BY <1>6, <1>7, <1>8, Zenon

\* While no query has drawn a document twice, the list of the Python cache
\* follows the timestamps of the Go cache.
SameOK ==
  \A c : Solo(c) /\ ~repeated => Follows(order, entries, missed[c], clock) /\ cacheHits = pyHits

\* Both caches start with the warm prefixes, and no hits.
LEMMA SameStarts == SimulationInit => SameOK
<1> SUFFICES ASSUME SimulationInit, NEW c, Solo(c)
             PROVE  Follows(order, entries, missed[c], clock) /\ cacheHits = pyHits
  BY SMTT(30) DEF SameOK
<1>1. missed[c] = None /\ cacheHits = pyHits
  BY DEF SimulationInit, Solo
<1> QED  BY <1>1, FollowsStart, Zenon DEF SimulationInit, Follows

\* SameOK is kept by every step.
LEMMA SameStep ==
  ASSUME CacheOK, SameOK, [SimulationNext]_<<vars, svars>>
  PROVE  SameOK'
<1>1. ASSUME NEW c, Solo(c)' PROVE Solo(c)
  BY <1>1, Zenon DEF Solo, SimulationNext, Request, Lookup, StoreEntry, Store, Report, NextModel, vars, svars
<1> DEFINE G(c) == ~repeated' => Follows(order', entries', missed'[c], clock') /\ cacheHits' = pyHits'
<1>2. ASSUME NEW c, Solo(c), NEW docs \in Queries, Request(c, docs) PROVE G(c)
  <2> SUFFICES ASSUME ~repeated'
               PROVE  Follows(order', entries', missed'[c], clock') /\ cacheHits' = pyHits'
    OBVIOUS
  <2> DEFINE h == buildPrefixTokens(docs)
  <2>0. Lookup(c, docs) /\ ~repeated /\ IsInjective(docs)
    BY <1>2, Zenon DEF Request, Lookup
  <2>1. /\ h \in Range(order) <=> h \in Keys
        /\ Follows(Queried(order, h), entries', missed'[c], clock')
    BY <1>2, <2>0, FollowsLookup, Zenon DEF SameOK
  <2>2. build_prefix_tokens(docs) = h
    BY <1>2, <2>0, SamePrefix, Zenon
  <2>3. /\ order' = IF h \in Range(order) THEN lookup(h) ELSE store(h)
        /\ pyHits' = IF h \in Range(order) THEN pyHits + 1 ELSE pyHits
        /\ cacheHits' = IF h \in Keys THEN cacheHits + 1 ELSE cacheHits
    BY <2>0, <2>2, Zenon DEF Lookup
  <2> HIDE DEF h
  <2>4. order' = Queried(order, h)
    BY <2>3, Zenon DEF Queried, MovedToEnd, Stored, lookup, store
  <2>5. cacheHits = pyHits
    BY <1>2, <2>0, Zenon DEF SameOK
  <2> QED  BY <2>1, <2>3, <2>4, <2>5, Zenon
<1>3. ASSUME NEW c, Solo(c), Store(c) PROVE G(c)
  <2>1. order' = order /\ cacheHits' = cacheHits /\ pyHits' = pyHits /\ repeated' = repeated
    BY <1>3, Zenon DEF Store
  <2> QED  BY <1>3, <2>1, FollowsStore, Zenon DEF SameOK
<1>4. ASSUME NEW c, Solo(c), Idle, NextModel PROVE G(c)
  <2>1. missed'[c] = None /\ cacheHits' = pyHits'
    BY <1>4, Zenon DEF NextModel, Idle, Solo
  <2> QED  BY <1>4, <2>1, FollowsStart, Zenon DEF NextModel, Follows
<1>5. ASSUME NEW c, Solo(c), UNCHANGED vars PROVE G(c)
  BY <1>5, Zenon DEF SameOK, vars
<1> HIDE DEF G
<1>6. ASSUME NEW c, Solo(c) PROVE G(c)
  BY <1>2, <1>3, <1>4, <1>5, <1>6, DrawnIsQuery, Zenon
     DEF SimulationNext, StoreEntry, Report, Solo
<1> QED  BY <1>1, <1>6, Zenon DEF SameOK, G

\* One goroutine, and no query so far that drew a document twice: the scan for the
\* oldest timestamp in Go and the OrderedDict in Python keep the same prefixes and
\* count the same hits, for every capacity, every TopK and every sequence of queries.
THEOREM SameAsPythonHolds == SimulationSpec => []SameAsPython
<1>1. CacheOK /\ SameOK => SameAsPython
  <2> SUFFICES ASSUME CacheOK, SameOK, Cardinality(users) = 1, Idle, ~repeated
               PROVE  Keys = Range(order) /\ cacheHits = pyHits
    BY DEF SameAsPython
  <2>1. PICK c : Solo(c)
    BY OneUser
  <2>2. missed[c] = None
    BY <2>1 DEF Idle, Solo
  <2> QED  BY <2>1, <2>2 DEF SameOK, Follows, Ranks, Keys
<1>2. CacheOK /\ SameOK /\ [SimulationNext]_<<vars, svars>> => SameOK'
  BY SameStep
<1> QED  BY <1>1, <1>2, CacheAlways, SameStarts, PTL DEF SimulationSpec

-----------------------------------------------------------------------------
(* The models of a comparison. *)

\* O[i] and H[i] are the list and the hits after the first i queries.
Run(O, H, ds) ==
  /\ O[0] = Warmed("comparison") /\ H[0] = 0
  /\ \A i \in 1..Len(ds) :
       /\ O[i] = Queried(O[i - 1], buildPrefixTokens(ds[i]))
       /\ H[i] = IF buildPrefixTokens(ds[i]) \in Range(O[i - 1]) THEN H[i - 1] + 1 ELSE H[i - 1]

\* The draws determine the hits of every run: those so far, and those of the
\* finished runs.
Tallied(ds, n, hits, rs, e, m, b) ==
  \E O, H :
    /\ Run(O, H, ds) /\ Follows(O[n], e, m, b) /\ hits = H[n]
    /\ \A r \in DOMAIN rs : rs[r].hits = H[NumRequests] /\ rs[r].misses = NumRequests - H[NumRequests]

\* How far a comparison has come.
Progress ==
  /\ results \in Seq([misses : Int, hits : Nat, saved : Int, savings : Int])
  /\ Len(results) =< model /\ model \in 1..Len(Models)
  /\ kind # "comparison" => model = 1
  /\ kind = "comparison" =>
       /\ Cardinality(users) = 1 /\ draws \in Seq(Queries)
       /\ totalRequests =< Len(draws) /\ Len(draws) =< NumRequests
       /\ model = 1 => Len(draws) = totalRequests
       /\ model > 1 => Len(draws) = NumRequests

\* The run of the current model follows the draws, as the finished ones did.
FairOK ==
  /\ Progress
  /\ kind = "comparison" => \A c : Solo(c) =>
       Tallied(draws, totalRequests, cacheHits, results, entries, missed[c], clock)

\* One more query.
LEMMA RunExtends ==
  ASSUME NEW O, NEW H, NEW ds \in Seq(Queries), Run(O, H, ds), NEW d \in Queries
  PROVE  \E P, G : /\ Run(P, G, Append(ds, d))
                   /\ P[Len(ds) + 1] = Queried(O[Len(ds)], buildPrefixTokens(d))
                   /\ G[Len(ds) + 1] = IF buildPrefixTokens(d) \in Range(O[Len(ds)])
                                         THEN H[Len(ds)] + 1 ELSE H[Len(ds)]
<1> DEFINE n  == Len(ds)
           h  == buildPrefixTokens(d)
           x  == Queried(O[n], h)
           y  == IF h \in Range(O[n]) THEN H[n] + 1 ELSE H[n]
           P  == [i \in 0..(n + 1) |-> IF i = n + 1 THEN x ELSE O[i]]
           G  == [i \in 0..(n + 1) |-> IF i = n + 1 THEN y ELSE H[i]]
           es == Append(ds, d)
<1>1. n \in Nat /\ Len(es) = n + 1 /\ es[n + 1] = d /\ \A i \in 1..n : es[i] = ds[i]
  BY SMTT(30)
<1>2. x = Queried(O[n], h) /\ y = IF h \in Range(O[n]) THEN H[n] + 1 ELSE H[n]
  OBVIOUS
<1>3. h = buildPrefixTokens(d)
  OBVIOUS
<1> HIDE DEF n, h, x, y, es
<1>4. /\ P[n + 1] = x /\ G[n + 1] = y
      /\ \A i \in 0..n : P[i] = O[i] /\ G[i] = H[i]
  BY <1>1
<1> HIDE DEF P, G
<1>5. P[0] = Warmed("comparison") /\ G[0] = 0
  BY <1>1, <1>4, SMTT(30) DEF Run
<1>6. ASSUME NEW i \in 1..Len(es)
      PROVE  /\ P[i] = Queried(P[i - 1], buildPrefixTokens(es[i]))
             /\ G[i] = IF buildPrefixTokens(es[i]) \in Range(P[i - 1]) THEN G[i - 1] + 1 ELSE G[i - 1]
  <2>1. CASE i = n + 1
    <3>0. i - 1 = n /\ n \in 0..n
      BY <1>1, <2>1, SMTT(30)
    <3>1. P[i - 1] = O[n] /\ G[i - 1] = H[n] /\ es[i] = d
      BY <1>1, <1>4, <2>1, <3>0, Zenon
    <3> QED  BY <1>2, <1>3, <1>4, <2>1, <3>1, Zenon
  <2>2. CASE i \in 1..n
    <3>0. i \in 0..n /\ i - 1 \in 0..n /\ i \in 1..n
      BY <1>1, <2>2
    <3>1. /\ P[i - 1] = O[i - 1] /\ G[i - 1] = H[i - 1] /\ P[i] = O[i] /\ G[i] = H[i]
          /\ es[i] = ds[i]
      BY <1>1, <1>4, <3>0, Zenon
    <3>2. /\ O[i] = Queried(O[i - 1], buildPrefixTokens(ds[i]))
          /\ H[i] = IF buildPrefixTokens(ds[i]) \in Range(O[i - 1]) THEN H[i - 1] + 1 ELSE H[i - 1]
      BY <2>2, Zenon DEF Run, n
    <3> QED  BY <3>1, <3>2, Zenon
  <2> QED  BY <1>1, <2>1, <2>2, SMTT(30)
<1>7. Run(P, G, es)
  BY <1>5, <1>6, Zenon DEF Run
<1> QED  BY <1>2, <1>3, <1>4, <1>7 DEF n, es

\* Nothing is drawn, and all caches are new, when a comparison starts.
LEMMA FairStarts == SimulationInit => FairOK
<1> SUFFICES ASSUME SimulationInit PROVE FairOK  OBVIOUS
<1>1. Progress
  BY SimulationAssumption, SMTT(30) DEF SimulationInit, Progress
<1>2. ASSUME kind = "comparison", NEW c, Solo(c)
      PROVE  Tallied(draws, totalRequests, cacheHits, results, entries, missed[c], clock)
  <2> DEFINE O == [i \in {0} |-> Warmed("comparison")]
             H == [i \in {0} |-> 0]
  <2>1. draws = << >> /\ totalRequests = 0 /\ cacheHits = 0 /\ results = << >> /\ missed[c] = None
    BY <1>2 DEF SimulationInit, Solo
  <2>2. Run(O, H, draws)
    BY <2>1, SMTT(30) DEF Run
  <2>3. Follows(O[0], entries, missed[c], clock)
    BY <1>2, <2>1, FollowsStart, Zenon DEF SimulationInit, Follows
  <2>4. O[totalRequests] = O[0] /\ H[totalRequests] = 0
    BY <2>1, SMTT(30)
  <2> HIDE DEF O, H
  <2> QED  BY <2>1, <2>2, <2>3, <2>4, SMTT(30) DEF Tallied
<1> QED  BY <1>1, <1>2 DEF FairOK

\* How far the comparison is, step by step.
LEMMA ProgressStep == CacheOK /\ CostOK /\ Progress /\ [SimulationNext]_<<vars, svars>> => Progress'
<1> SUFFICES ASSUME CacheOK, CostOK, Progress, [SimulationNext]_<<vars, svars>> PROVE Progress'  BY SMTT(30)
<1>0. results' \in Seq([misses : Int, hits : Nat, saved : Int, savings : Int])
  BY CostStep, SMTT(30) DEF CostOK
<1>1. ASSUME NEW c \in users, NEW docs \in Queries, Request(c, docs) PROVE Progress'
  <2>1. /\ results' = results /\ model' = model /\ kind' = kind /\ users' = users
        /\ totalRequests' = totalRequests + 1 /\ totalRequests \in Nat
    BY <1>1, Zenon DEF Request, Lookup, CacheOK
  <2>2. CASE kind = "comparison"
    <3>1. totalRequests < NumRequests /\ NumRequests \in Nat
      BY <1>1, <2>2, SimulationAssumption DEF Request
    <3>2. CASE model = 1
      <4>1. draws' = Append(draws, docs) /\ Len(draws) = totalRequests /\ draws \in Seq(Queries)
        BY <1>1, <2>2, <3>2 DEF Request, Drawn, Progress
      <4>2. draws' \in Seq(Queries) /\ Len(draws') = totalRequests + 1
        BY <4>1
      <4> QED  BY <2>1, <2>2, <3>1, <3>2, <4>2 DEF Progress
    <3>3. CASE model # 1
      <4>1. draws' = draws /\ model > 1
        BY <1>1, <2>2, <3>3 DEF Request, Drawn, Progress
      <4> QED  BY <2>1, <2>2, <3>1, <3>3, <4>1 DEF Progress
    <3> QED  BY <3>2, <3>3
  <2>3. CASE kind # "comparison"
    BY <2>1, <2>3 DEF Progress
  <2> QED  BY <2>2, <2>3
<1>2. ASSUME NEW c \in users, StoreEntry(c) PROVE Progress'
  BY <1>2 DEF StoreEntry, Store, Progress
<1>3. ASSUME Report PROVE Progress'
  <2>1. /\ results' = Append(results, Result) /\ Len(results) < model /\ totalRequests = NumRequests
        /\ results \in Seq([misses : Int, hits : Nat, saved : Int, savings : Int])
    BY <1>3 DEF Report, Progress
  <2>2. Len(results') = Len(results) + 1 /\ Len(results) \in Nat
    BY <2>1
  <2>3. CASE NextModel /\ kind = "comparison" /\ model < Len(Models)
    <3>1. /\ model' = model + 1 /\ kind' = kind /\ users' = users /\ draws' = draws /\ totalRequests' = 0
      BY <2>3 DEF NextModel
    <3>2. Len(draws) = NumRequests /\ NumRequests \in Nat
      BY <2>1, <2>3, SimulationAssumption DEF Progress
    <3> QED  BY <1>0, <2>1, <2>2, <2>3, <3>1, <3>2, SimulationAssumption DEF Progress
  <2>4. CASE UNCHANGED <<vars, kind, model, draws, entryCost, totalSaved>>
    BY <1>0, <2>1, <2>2, <2>4 DEF vars, Progress
  <2> QED  BY <1>3, <2>3, <2>4 DEF Report
<1>4. ASSUME UNCHANGED <<vars, svars>> PROVE Progress'
  BY <1>4 DEF vars, svars, Progress
<1> QED  BY <1>1, <1>2, <1>3, <1>4, DrawnIsQuery DEF SimulationNext

\* What the draws determine, step by step.
LEMMA TalliedStep ==
  ASSUME CacheOK, CostOK, FairOK, [SimulationNext]_<<vars, svars>>, kind = "comparison", NEW c, Solo(c)
  PROVE  Tallied(draws', totalRequests', cacheHits', results', entries', missed'[c], clock')
<1> DEFINE T == Tallied(draws', totalRequests', cacheHits', results', entries', missed'[c], clock')
           Rest(H, rs) == \A r \in DOMAIN rs : /\ rs[r].hits = H[NumRequests]
                                               /\ rs[r].misses = NumRequests - H[NumRequests]
<1>0. PICK O, H : /\ Run(O, H, draws) /\ Follows(O[totalRequests], entries, missed[c], clock)
                  /\ cacheHits = H[totalRequests] /\ Rest(H, results)
  <2>1. Tallied(draws, totalRequests, cacheHits, results, entries, missed[c], clock)
    BY Zenon DEF FairOK
  <2> QED  BY <2>1, Zenon DEF Tallied
<1>1. /\ totalRequests \in Nat /\ NumRequests \in Nat /\ draws \in Seq(Queries)
      /\ totalRequests =< Len(draws) /\ model \in Nat
  BY SimulationAssumption DEF FairOK, Progress, CacheOK
<1>2. ASSUME NEW docs \in Queries, Request(c, docs) PROVE T
  <2> DEFINE h == buildPrefixTokens(docs)
             n == totalRequests
  <2>1. /\ results' = results /\ totalRequests' = n + 1 /\ n < NumRequests /\ Len(results) < model
        /\ cacheHits' = IF h \in Keys THEN cacheHits + 1 ELSE cacheHits
        /\ Lookup(c, docs) /\ Drawn(docs)
    BY <1>2, Zenon DEF Request, Lookup
  <2>2. /\ h \in Range(O[n]) <=> h \in Keys
        /\ Follows(Queried(O[n], h), entries', missed'[c], clock')
    BY <1>0, <2>1, FollowsLookup, Zenon
  <2>3. cacheHits' = IF h \in Range(O[n]) THEN H[n] + 1 ELSE H[n]
    BY <1>0, <2>1, <2>2, Zenon
  <2>4. CASE model = 1
    <3>1. draws' = Append(draws, docs) /\ Len(draws) = n
      BY <2>1, <2>4, Zenon DEF Drawn, FairOK, Progress
    <3>2. PICK P, G : /\ Run(P, G, draws') /\ P[n + 1] = Queried(O[n], h)
                      /\ G[n + 1] = IF h \in Range(O[n]) THEN H[n] + 1 ELSE H[n]
      <4>1. \E P, G : /\ Run(P, G, Append(draws, docs))
                      /\ P[Len(draws) + 1] = Queried(O[Len(draws)], h)
                      /\ G[Len(draws) + 1] = IF h \in Range(O[Len(draws)])
                                               THEN H[Len(draws)] + 1 ELSE H[Len(draws)]
        <5>1. Run(O, H, draws) /\ draws \in Seq(Queries)
          BY <1>0, <1>1, Zenon
        <5> QED  BY <5>1, RunExtends
      <4> QED  BY <3>1, <4>1, Zenon
    <3>3. DOMAIN results' = {}
      BY <2>1, <2>4 DEF FairOK, Progress
    <3>4. Rest(G, results')
      BY <3>3
    <3>5. Follows(P[totalRequests'], entries', missed'[c], clock') /\ cacheHits' = G[totalRequests']
      BY <2>1, <2>2, <2>3, <3>2, Zenon
    <3> QED  BY <3>2, <3>4, <3>5, Zenon DEF Tallied
  <2>5. CASE model # 1
    <3>1. docs = draws[n + 1] /\ draws' = draws
      BY <2>1, <2>5, Zenon DEF Drawn
    <3>2. Len(draws) = NumRequests
      BY <1>1, <2>5 DEF FairOK, Progress
    <3>3. n + 1 \in 1..Len(draws) /\ (n + 1) - 1 = n
      BY <1>1, <2>1, <3>2
    <3>4. /\ O[n + 1] = Queried(O[n], h)
          /\ H[n + 1] = IF h \in Range(O[n]) THEN H[n] + 1 ELSE H[n]
      <4>1. /\ O[n + 1] = Queried(O[(n + 1) - 1], buildPrefixTokens(draws[n + 1]))
            /\ H[n + 1] = IF buildPrefixTokens(draws[n + 1]) \in Range(O[(n + 1) - 1])
                            THEN H[(n + 1) - 1] + 1 ELSE H[(n + 1) - 1]
        BY <1>0, <3>3, Zenon DEF Run
      <4>2. buildPrefixTokens(draws[n + 1]) = h /\ O[(n + 1) - 1] = O[n] /\ H[(n + 1) - 1] = H[n]
        BY <3>1, <3>3, Zenon
      <4> HIDE DEF h, n
      <4> QED  BY <4>1, <4>2, Zenon
    <3>5. Follows(O[totalRequests'], entries', missed'[c], clock') /\ cacheHits' = H[totalRequests']
      BY <2>1, <2>2, <2>3, <3>4, Zenon
    <3> QED  BY <1>0, <2>1, <3>1, <3>5, Zenon DEF Tallied
  <2> QED  BY <2>4, <2>5
<1>3. ASSUME StoreEntry(c) PROVE T
  <2>1. /\ draws' = draws /\ totalRequests' = totalRequests /\ cacheHits' = cacheHits /\ results' = results
        /\ Store(c)
    BY <1>3, Zenon DEF StoreEntry, Store
  <2>2. Follows(O[totalRequests], entries', missed'[c], clock')
    BY <1>0, <2>1, FollowsStore, Zenon
  <2> QED  BY <1>0, <2>1, <2>2, Zenon DEF Tallied
<1>4. ASSUME Report PROVE T
  <2>1. /\ results' = Append(results, Result) /\ totalRequests = NumRequests /\ missed[c] = None
        /\ results \in Seq([misses : Int, hits : Nat, saved : Int, savings : Int])
    BY <1>4 DEF Report, Idle, Solo, FairOK, Progress
  <2>2. Result.hits = H[NumRequests] /\ Result.misses = NumRequests - H[NumRequests]
    BY <1>0, <2>1, Zenon DEF Result, Misses
  <2>3. Rest(H, results')
    <3> DEFINE x == Result
    <3>1. \A r \in DOMAIN results' : (r \in DOMAIN results /\ results'[r] = results[r]) \/ results'[r] = x
      <4> HIDE DEF x
      <4>1. results' = Append(results, x)
        BY <2>1 DEF x
      <4> QED  BY <2>1, <4>1, SMTT(30)
    <3> QED  BY <1>0, <2>2, <3>1, Zenon
  <2>4. CASE NextModel
    <3>1. draws' = draws /\ totalRequests' = 0 /\ cacheHits' = 0 /\ missed'[c] = None
      BY <2>1, <2>4 DEF NextModel
    <3>2. O[0] = Warmed("comparison") /\ H[0] = 0
      BY <1>0, Zenon DEF Run
    <3>3. Follows(O[0], entries', missed'[c], clock')
      BY <2>4, <3>1, <3>2, FollowsStart DEF NextModel, Follows
    <3> QED  BY <1>0, <2>3, <3>1, <3>2, <3>3, Zenon DEF Tallied
  <2>5. CASE UNCHANGED <<vars, kind, model, draws, entryCost, totalSaved>>
    <3>1. /\ draws' = draws /\ totalRequests' = totalRequests /\ cacheHits' = cacheHits
          /\ entries' = entries /\ missed' = missed /\ clock' = clock
      BY <2>5 DEF vars
    <3> QED  BY <1>0, <2>3, <3>1, Zenon DEF Tallied
  <2> QED  BY <1>4, <2>4, <2>5 DEF Report
<1>5. ASSUME UNCHANGED <<vars, svars>> PROVE T
  <2>1. /\ draws' = draws /\ totalRequests' = totalRequests /\ cacheHits' = cacheHits /\ results' = results
        /\ entries' = entries /\ missed' = missed /\ clock' = clock
    BY <1>5 DEF vars, svars
  <2> QED  BY <1>0, <2>1, Zenon DEF Tallied
<1> HIDE DEF T
<1>6. T
  BY <1>2, <1>3, <1>4, <1>5, DrawnIsQuery, SMTT(30) DEF SimulationNext, Solo
<1> QED  BY <1>6 DEF T

\* FairOK is kept by every step.
LEMMA FairStep == CacheOK /\ CostOK /\ FairOK /\ [SimulationNext]_<<vars, svars>> => FairOK'
<1> SUFFICES ASSUME CacheOK, CostOK, FairOK, [SimulationNext]_<<vars, svars>> PROVE FairOK'  OBVIOUS
<1>1. Progress'
  BY ProgressStep DEF FairOK
<1>2. kind' = kind /\ users' = users
  BY Zenon DEF SimulationNext, Request, Lookup, StoreEntry, Store, Report, NextModel, vars, svars
<1>3. ASSUME kind' = "comparison", NEW c, Solo(c)'
      PROVE  Tallied(draws', totalRequests', cacheHits', results', entries', missed'[c], clock')
  <2>1. kind = "comparison" /\ Solo(c)
    BY <1>2, <1>3 DEF Solo
  <2> QED  BY <2>1, TalliedStep
<1>4. (kind = "comparison" => \A c : Solo(c) =>
        Tallied(draws, totalRequests, cacheHits, results, entries, missed[c], clock))'
  BY <1>3, Zenon DEF Tallied, Run, Follows, Ranks, Increasing
<1> QED  BY <1>1, <1>4 DEF FairOK

\* RunAllModelsComparison compares the models on the same requests: whatever the
\* generator draws, every run has the same hits and the same misses, because the
\* draws alone determine which prefixes the LRU order keeps.
THEOREM FairComparisonHolds == SimulationSpec => []FairComparison
<1>1. CacheOK /\ FairOK => FairComparison
  <2> SUFFICES ASSUME CacheOK, FairOK, NEW i \in DOMAIN results, NEW j \in DOMAIN results
               PROVE  results[i].misses = results[j].misses /\ results[i].hits = results[j].hits
    BY SMTT(30) DEF FairComparison
  <2>1. CASE kind = "comparison"
    <3>1. PICK c : Solo(c)
      BY <2>1, OneUser DEF FairOK, Progress
    <3> QED  BY <2>1, <3>1 DEF FairOK, Tallied
  <2>2. CASE kind # "comparison"
    <3>1. i = 1 /\ j = 1
      BY <2>2 DEF FairOK, Progress
    <3> QED  BY <3>1
  <2> QED  BY <2>1, <2>2
<1> QED  BY <1>1, CacheAlways, CostStarts, CostStep, FairStarts, FairStep, PTL DEF SimulationSpec
=============================================================================
