----------------------------- MODULE Simulation -----------------------------
(***************************************************************************)
(* The cost simulations over the prefix caches, in Go (internal/llm) and in  *)
(* Python (python/src/llmsim): RunRAGSimulation, RunScenario with its warm   *)
(* cache, and RunAllModelsComparison, which runs one scenario for each model *)
(* with the same random seed.                                               *)
(*                                                                          *)
(* The random draws are arbitrary, but a run with the same seed draws the    *)
(* same again.  Costs are counted in floating-point operations, which are    *)
(* integers; CostUSD is a constant factor of them.                           *)
(***************************************************************************)
EXTENDS PrefixCache

CONSTANTS Kinds,        \* subset of {"library", "comparison", "rag"}
          Models,       \* sequence of [layers, heads]
          SeqLen,       \* tokens of a prefix
          Shared,       \* the document that stands for the shared system prompt
          NumRequests

ASSUME SimulationAssumption ==
  /\ Kinds \subseteq {"library", "comparison", "rag"} /\ Shared \in Doc
  /\ Models \in Seq([layers : Nat, heads : Nat]) /\ Models # << >>
  /\ SeqLen \in Nat /\ NumRequests \in Nat \ {0} /\ None # <<Shared>>

VARIABLES
  kind,       \* what uses the caches
  model,      \* index of the model that is simulated
  draws,      \* what the generator gave in the run for the first model
  entryCost,  \* the cost field of the entries in the Go cache
  totalSaved, \* totalSavedUSD of the Go cache
  results     \* the results so far

svars == <<kind, model, draws, entryCost, totalSaved, results>>

-----------------------------------------------------------------------------
\* ModelConfig.AttentionFLOPs: quadratic in the length (head_dim is 128 in all).
AttentionFLOPs(m, n) == 4 * m.heads * 128 * n * n * m.layers

Cost(i) == AttentionFLOPs(Models[i], SeqLen)

\* What a cache holds before the first request: RunScenario stores the shared
\* prefix, the other users start with an empty cache.
Warmed(k) == IF k = "comparison" THEN << <<Shared>> >> ELSE << >>
Warm(k)   == Range(Warmed(k))

SimulationInit ==
  /\ kind \in Kinds /\ users \in SUBSET Client \ {{}}
  /\ kind # "library" => Cardinality(users) = 1
  /\ model = 1 /\ draws = << >> /\ results = << >> /\ totalSaved = 0
  /\ clock = Cardinality(Warm(kind)) /\ totalRequests = 0 /\ cacheHits = 0 /\ pyHits = 0
  /\ entries = [h \in Warm(kind) |-> 0] /\ entryCost = [h \in Warm(kind) |-> Cost(1)]
  /\ order = Warmed(kind) /\ missed = [c \in Client |-> None]
  /\ asked = {} /\ repeated = FALSE

\* Mutant: one cache for all the models.
NextModel_KeepsCache ==
  /\ model' = model + 1 /\ totalSaved' = 0
  /\ clock' = 0 /\ totalRequests' = 0 /\ cacheHits' = 0 /\ pyHits' = 0 /\ asked' = {}
  /\ UNCHANGED <<users, kind, draws, entries, entryCost, order, missed, repeated>>

\* The next iteration of RunAllModelsComparison: new caches, warmed up again.
NextModel ==
  /\ model' = model + 1 /\ totalSaved' = 0
  /\ clock' = Cardinality(Warm(kind)) /\ totalRequests' = 0 /\ cacheHits' = 0 /\ pyHits' = 0
  /\ entries' = [h \in Warm(kind) |-> 0] /\ entryCost' = [h \in Warm(kind) |-> Cost(model')]
  /\ order' = Warmed(kind) /\ asked' = {}
  /\ UNCHANGED <<users, kind, draws, missed, repeated>>

-----------------------------------------------------------------------------
(* The loop of a run. *)

\* RunScenario draws the shared prefix or one of its own, the others documents.
Drawable == IF kind = "comparison" THEN [1..1 -> Doc] ELSE [1..TopK -> Doc]

\* The same seed gives the same draws for every model after the first.
Drawn(docs) ==
  IF kind # "comparison" THEN UNCHANGED draws
  ELSE IF model = 1 THEN draws' = Append(draws, docs)
  ELSE docs = draws[totalRequests + 1] /\ UNCHANGED draws

Request(c, docs) ==
  LET h == buildPrefixTokens(docs)
  IN  /\ kind = "library" \/ (totalRequests < NumRequests /\ Len(results) < model)
      /\ Drawn(docs)
      /\ Lookup(c, docs)
      /\ totalSaved' = IF h \in Keys THEN totalSaved + entryCost[h] ELSE totalSaved
      /\ UNCHANGED <<kind, model, entryCost, results>>

\* The cost that NewEntryForPrefix or newEntryForTokenCount writes into an entry.
newEntry == Cost(model)

StoreEntry(c) ==
  /\ Store(c)
  /\ entryCost' = [h \in DOMAIN entries' |->
                     IF h = missed[c].prefix THEN newEntry ELSE entryCost[h]]
  /\ UNCHANGED <<kind, model, draws, totalSaved, results>>

\* Every request, or only the misses, pays for the prefix.
withoutCache == Cost(model) * NumRequests
withCache    == Cost(model) * Misses

\* Mutant: the warm-up is paid for.
Result_ChargesWarmup ==
  [misses |-> Misses, hits |-> cacheHits, saved |-> totalSaved,
   savings |-> withoutCache - (withCache + Cost(model))]

\* The result of a run, with what the cache itself has summed up.
Result ==
  [misses |-> Misses, hits |-> cacheHits, saved |-> totalSaved,
   savings |-> withoutCache - withCache]

Report ==
  /\ kind # "library" /\ Idle /\ totalRequests = NumRequests /\ Len(results) < model
  /\ results' = Append(results, Result)
  /\ IF kind = "comparison" /\ model < Len(Models) THEN NextModel
     ELSE UNCHANGED <<vars, kind, model, draws, entryCost, totalSaved>>

SimulationNext ==
  \/ \E c \in users :
       \/ \E docs \in Drawable : Request(c, docs)
       \/ StoreEntry(c)
  \/ Report

SimulationSpec == SimulationInit /\ [][SimulationNext]_<<vars, svars>>

-----------------------------------------------------------------------------
\* simulator.go and rag.go print "Cost saved" and "Compute saved" side by side:
\* the first is worked out from the number of misses, the second is summed up
\* by the cache hit by hit, and they agree in every run, after evictions too.
SavingsAgree ==
  \A i \in DOMAIN results : results[i].savings = results[i].saved

\* RunAllModelsComparison "runs the same scenario across all 6 open-source
\* models": the models differ in cost only, every run has the same misses.
FairComparison ==
  \A i, j \in DOMAIN results :
    results[i].misses = results[j].misses /\ results[i].hits = results[j].hits

\* What the cost figures rest on: while all prefixes asked for fit, one
\* goroutine computes each of them exactly once, and a warm one never.
ComputedOnce ==
  (Cardinality(users) = 1 /\ Cardinality(asked \cup Warm(kind)) =< MaxSize)
    => Misses = Cardinality(asked \ Warm(kind))
=============================================================================
