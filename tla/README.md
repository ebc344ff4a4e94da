# A verification of the distributed cache in TLA+

Modules, TLC configurations and TLAPS proofs for the code in this repository.
`PROJECT.json` lists the components, the runs, the mutants, the theorems and,
for every definition, the source lines it models.

## 1. The system

| Part | Source | State | Operations | Model |
|---|---|---|---|---|
| Raft leader election (no log, ADR 0001) | `internal/raft` | role, `persistentState` (term, vote) in memory and in a file, RPCs in flight, the event loop | event loop with heartbeat and election timers, `startElection`, `sendHeartbeats`, the two RPC handlers, restart | `RaftElection` |
| Coordinator role of a cache node | `cmd/cachenode`, `cluster/coordinator.go` | `leaderCh`, the goroutine that reads it, `isLeader` | non-blocking send, receive, `SetLeader` | `CoordinatorRole` |
| Consistent hashing ring | `cluster/ring.go` | sorted tokens, token map, addresses | `Add`, `Remove`, `Get` | `Ring` |
| Routing and node health | `cluster/coordinator.go`, `cluster/node.go`, the `main` functions | rings of several processes, health map, leader flag | start-up, `Route`, `ValidateOwnership`, `UpdateNodeHealth`, `SetLeader` | `Routing` |
| In-memory cache | `internal/cache` | map of entries, a policy object | `Get` (three lock regions), `Set`, `Delete` | `InMemoryCache` |
| Eviction policies | `internal/eviction` | list, heaps, slice, each with a map | `OnAccess`, `OnInsert`, `OnEvict`, `Evict` | `Eviction`, `EvictionPolicies` |
| Cache-aside API and invalidation strategies | `internal/api`, `internal/invalidation`, `internal/db` | a row, its cache entry, requests under way, pending deletes | get, create, update of a product; `OnWrite` of three strategies | `CacheAside` |
| Product table and listing | `internal/db`, `api/handler.go` | the rows | migration, create, update, `ListProducts` page by page | `Catalogue` |
| Cluster status | `api/debug.go`, `/health` of the nodes | which nodes run, which say they coordinate | `ClusterStatus`, one node after the other | `ClusterStatus` |
| Caching reverse proxy | `internal/proxy` | response store, requests under way | `ServeHTTP`, store lookup, `parseCacheControl` | `Proxy` |
| Dashboard page | `proxy/dashboard.go` | grid, inputs, results, cluster panel, calls under way | the functions of its script | `Dashboard` |
| LLM prefix caches and cost simulations, Go and Python | `internal/llm`, `python/src/llmsim` | entries with timestamps, an `OrderedDict`, counters, results | lookup, store, the loops of the simulations | `PrefixCache`, `Simulation` |
| gRPC transport | `cluster/transport.go` | none | a stub that always fails | an RPC may always fail in `RaftElection` |
| Cache server, benchmarks, metrics, configuration, command lines, scripts | the rest | none that a request depends on | | not modelled (section 6) |

How the parts meet: an election win goes through `leaderCh` to the Coordinator;
the Coordinator routes by the ring; a cache node holds an `InMemoryCache`,
which calls its policy under its own lock; the API reads and writes that cache
around the database and leaves invalidation to a strategy; the proxy stands
before the API and keeps responses by URL; the dashboard page talks to the API
through the proxy only.

What is hard in each of them, and hardly reached by tests:

- Raft: a reply that arrives after the node has changed its term or role; a
  crash between two saves; an event loop that waits inside an election; the role
  checked under one lock and the term read under the next.
- Coordinator: a channel of capacity one and a send that gives up.
- Cache: `Get` releases the lock between finding, checking, touching and reading
  an entry, and keeps a pointer to it.
- Policies: indexes and pointers that a call leaves wrong show in a later call.
- Ring: wrap-around, and agreement of nodes that added members in other orders.
- Cache-aside: database and cache are written without a common lock; fills that
  are late; errors after a commit; deletes that are pending at a crash.
- Proxy: an entry that is replaced between two locks, slow upstream answers.
- Routing: leader flag, ring and health are read one after the other; every
  process has a ring of its own.
- Listing: two queries without a transaction, pages by offset while rows come.
- Dashboard: calls overlap at every `await`, answers come in any order or out of
  the proxy's store, and polls overtake one another.
- Prefix cache: lookup and store are separate calls; savings are counted twice,
  in two ways; a comparison must give every model the same requests.

## 2. Modules

**RaftElection.** Per node: `state`, `ps` (memory), `disk` (the file), the
place of the event loop `pc` with the results it still waits for, and the votes
`granted`. Requests and responses in flight are sets; a message may be taken
at any later time or never. Actions: `HeartbeatTick`, `startElection`,
`CollectVote` (one per result read from `resultCh`), `RequestVoteFails`,
`sendHeartbeats`, the handlers `HandleRequestVote` and `HandleAppendEntries`,
`HeartbeatRejected`, `Restart` and `CrashBetweenSaves`. A handler holds the mutex
throughout and is one action. `HeartbeatTick` and `sendHeartbeats` are two, as
the code unlocks in between. Timers are nondeterministic: they may fire at any
time. `voted` and `won` are history. `saveState` may fail on nodes of
`FailingDisk`; its callers ignore the error.

**CoordinatorRole** extends it by `leaderCh`, the id the goroutine has
`received`, and `isLeader`. The send is part of the step that makes a node
Leader.

**Eviction** has the four policies as pure operators on an abstract state.
**PolicySpec** is the abstract specification of a policy object, one action per
method of the interface. **LRUList** (pointers `next` and `prev` between two
sentinels) and **HeapPolicy** (array, `index` fields, map, with `container/heap`
written from its documented use) are the data structures. The loops `up` and `down` of
`container/heap` are functions of the number of passes, `upPass` and `downPass` one
pass; a pass after the loop's break changes nothing.
**EvictionPolicies** dispatches calls to the one that `buildEvictionPolicy`
made, and is shown to implement `PolicySpec`. `PolicyCalls` holds what they
share. `Random` keeps a slice, which `Eviction` models directly.

**InMemoryCache** uses the operators of `Eviction`. A `Get` is a goroutine with
the steps `GetStart` (read lock), `GetCheck`, `GetDropExpired` (write lock,
second check), `GetTouch` (write lock), and `GetRead`/`GetReturn`: the value is a
slice header that is read without a lock, so the read has two steps between
which `Set` may overwrite the entry. An entry that has left the map lives on for
the `Get` that points to it. `Set` and `Delete` are one action each. A tick is
half a second; `OneSecond` and `MaxTTL` scale the bounds of the code.

**Ring.** `Add`, `Remove` and `Get` are operators on a ring record, since several
processes have one. `Hash` and the placement of tokens are arbitrary.
`sortedTokens` is kept as the number of copies of each token, since its order is
restored by every `Add`.

**Routing** extends it by the process that routes and one that receives: rings
are built at start-up from `-peers` lists in any order, then `Route` goes
through its three reads (`RouteStart`, `RouteOwner`, `RouteHealth`), between
which the ring, the health map and the leader flag change, and
`ValidateOwnership` looks at the receiver's own ring. `owners`, `from` and `at`
of a request are history.

**CacheAside.** One product; a row is its version number. A reader goes through
lookup, database read and fill; a writer through the database write and
`OnWrite`; write-behind deletes are counted in `pending`. Faults: the cache call
fails, the database call fails before or after its commit, an entry does not
parse (a value torn in the cache), the process restarts with an empty cache.

**Proxy.** One URL; a request is a goroutine in the steps between the locks of
the store and the upstream call. A response is its status, its `Cache-Control`
and the time it was made. Upstream may answer, fail, or fail in the body, within
the client's timeout.

**Catalogue.** The product table with `created_at` as a small number; `Insert`,
`Update` and the migration of a restart are statements, `ListPage` is the SELECT
of one page. Rows of equal `created_at` may come in another order each time.
A client walks the pages until one is not full.

**ClusterStatus.** Nodes stop, start and win elections; the handler asks them in
any order, each at a time of its own.

**Dashboard** composes these two with a store keyed by URL, as in `Proxy`, and
with the page. A call is a function of the script between two `await`s: `Page`
steps run in the browser, `Server` steps in the proxy and the API. Three panels
that share no URL (`Panels`) are explored one per behaviour. The grid asks for one
page of the table, of `GridSize` products (50), and for no other.

**PrefixCache.** The Go cache and the Python cache side by side under the same
queries; `users` says which goroutines share the Go cache. A query is a sequence of
`TopK` documents that may repeat one, since each is drawn by itself; a comparison
draws one prefix per request (`Drawable`). `repeated` is history: whether a query so
far had a document twice. **Simulation** adds what drives the caches: a
library that is called freely, `RunRAGSimulation`, and `RunAllModelsComparison`, whose runs draw the same requests again for every model.
Costs are numbers of floating-point operations, which are integers.

The `MC*` modules give TLC its constants and symmetry sets; `CoordinatorRole` needs
none and is run as it is.

## 3. Runs

| Run | Configuration | States | What it shows |
|---|---|---|---|
| `raft_terms` | `RaftElection_terms.cfg` | 446,767 | one leader per term with late and lost RPCs; a Leader won its term; votes are counted for the right term although no term is compared; heartbeats come from winners |
| `raft_restart` | `RaftElection_restart.cfg` | 20,733 | one vote per term, none taken back, across crashes and restarts |
| `coordinator_safe` | `CoordinatorRole_safe.cfg` | 276,520 | no election win is lost on the full channel; only winners coordinate |
| `coordinator_live` | `CoordinatorRole_live.cfg` | 38,307 | elections end; superseded leaders step down; an election win activates the Coordinator |
| `cache` | `InMemoryCache.cfg` | 168,327 | capacity; the policy tracks exactly the entries; a hit was the value at some time during the Get; only expired entries are dropped |
| `policies` | `EvictionPolicies.cfg` | 7,663 | list and heaps are well formed and implement `PolicySpec` |
| `routing` | `Routing.cfg` | 158,272 | list and map agree; the owner is the nearest token clockwise, whatever the order of joins; a join or leave moves only the keys it must; a request goes only to a node that owned its key during the call; a mismatch at the receiver means different sets of nodes |
| `cache_aside` | `CacheAside.cfg` | 70,230 | no uncommitted row is cached or returned; every stale entry has one of three causes; expiry ends staleness |
| `proxy` | `Proxy.cfg` | 1,293,156 | age of served responses; what is never stored; only expired entries are dropped |
| `prefix_cache` | `Simulation.cfg` | 266,506 | size bound for two goroutines; Go and Python agree for one as long as no query draws a document twice; a prefix that fits is computed once; the two sums of savings agree; every model gets the same hits and misses |
| `dashboard` | `Dashboard.cfg` | 902,386 | one product per result; success means applied, or answered from the proxy's store; a grid that is not full has no fewer cards than the total says; a walk over the pages misses no product with a `created_at` of its own; restarts bring back no old price; the cluster panel catches up |

One run ends in a counterexample to a sentence of the code's comments
(`findings` in `PROJECT.json`): `coordinator_stepdown`, where a deposed leader
keeps an active Coordinator because `becomeFollower` sends nothing on
`leaderCh`.

### Bounds

- Raft: three nodes give a majority that is not everybody, two terms give a late
  vote or heartbeat something to be late for; restarts are explored within one
  term, where forgetting a vote shows. The composition has two nodes and
  three terms, the fewest in which one node wins twice and can find its channel
  full. Theorems cover all sizes. `MaxTerm` bounds elections; at the bound the
  system stops, so deadlock is not checked there.
- Cache: capacity two with three keys forces eviction with a choice; TTLs
  are -1, 0, exactly the maximum and one tick beyond it; two values. One `Get` at a time: another
  `Get` changes the map only as `Delete` does and the policy only as an upsert does.
- Policies: six entries in the TTL heap, the fewest for which `heap.Remove` must
  move an entry up; five in the LFU heap; four in the list. `MaxFreq` bounds
  the counter of LFU.
- Routing: all placements without collision of two tokens each of three nodes on
  six positions, so that no position is free; two keys, one of which wraps around
  for some placements. The ring may drift one node from the start-up list
  (`MaxDrift`), and a key may have two owners during a request (`MaxOwners`).
- Cache-aside: two readers, two writers, four versions: an update can overtake
  an update and a fill at the same time.
- Proxy: two overlapping requests, four ticks, TTLs equal to and above the
  timeout, and a max-age of 0 and a negative one.
- Prefix cache and simulation: three documents, two per query with or
  without repetition, two entries, seven calls (`MaxOps`), three requests per run and
  two models; a run can hit, miss and evict. The system stops at the bounds, and
  deadlock is not checked.
- Dashboard: two overlapping calls, three calls of the user in all
  (`MaxCalls`; polls are not bounded), three products of which one is a seed, one fault.
  The grid has two cards (`GridSize`), so that the table can outgrow it. A page size of 0 and
  one beyond the maximum are clamped. In the panels for products and pages, all
  nodes run, since those panels ask none of them. The user may stop, so
  deadlock is not checked.

Symmetry is used only where no liveness is checked and all constants are
symmetric in the permuted values.

### Fairness

- Raft: weak fairness of the event loop (a goroutine that is never blocked for
  good: each RPC returns or fails, and its goroutine writes to a buffered channel);
  of the step-down after a rejected heartbeat (a goroutine); and of the handling of
  a heartbeat that stays in flight, which stands for a leader that repeats it
  every 50 ms over a network that is not down for ever. Nothing is assumed of vote
  requests, and no election has to be won.
- Coordinator: weak fairness of the goroutine that ranges over `leaderCh`.
- Cache-aside: weak fairness of requests under way, of the write-behind goroutine
  and of expiry (time passes). New requests need not come.
- Dashboard: weak fairness of the poll (`setInterval`), of every call under way
  (the proxy's client gives up after 30 s, so a request is answered or fails) and of the expiry
  of stored responses (time passes).

## 4. Proofs

| Module | About | Theorems |
|---|---|---|
| `RaftProofs` | `RaftElection` | `TypeCorrect`, `ElectionSafetyHolds`, `OneVoteHolds`, `RolesHold`, `CountedVotesHold`, `HeartbeatSenderHolds`, `VoteFinalHolds` |
| `RaftProofs` | `CoordinatorRole` | `CoordinatorRunsRaft`, `LeaderAnnouncedHolds`, `CoordinatorWonHolds` |
| `RingProofs` | `Ring`, `Routing` | `ListMatchesMapHolds`, `OwnerIsNearestHolds`, `MinimalRemappingHolds`, `NeverReroutedHolds`, `MismatchMeansStaleHolds` |
| `InMemoryCacheProofs` | `InMemoryCache`, `Eviction` | `CacheTypeCorrect`, `HitWasCurrentHolds`, `CapacityHolds`, `PolicyTracksHolds`, `DropsOnlyExpiredHolds` |
| `EvictionProofs` | `EvictionPolicies`, `LRUList`, `HeapPolicy`, `PolicySpec` | `WellFormedHolds`, `PolicyImplemented` |
| `ServingProofs` | `CacheAside` | `AsideTypeCorrect`, `OnlyCommittedHolds`, `StaleExplainedHolds` |
| `ServingProofs` | `Proxy` | `AgeBoundedHolds`, `HitsMayBeCachedHolds`, `DropsOnlyExpiredHolds` |
| `DashboardProofs` | `Dashboard`, `Catalogue` | `OneProductHolds`, `AppliedOrStoredHolds`, `TotalNotAheadHolds`, `NothingSkippedHolds`, `WrittenIsKeptHolds` |
| `SimulationProofs` | `PrefixCache`, `Simulation` | `SizeBoundedHolds`, `SameAsPythonHolds`, `ComputedOnceHolds`, `SavingsAgreeHolds`, `FairComparisonHolds` |
| `SequenceLemmas` | sequences without repetitions | lemmas for the three modules about lists |

All hold for every value of the constants that the named ASSUMEs admit: any
number of nodes, clients, keys, values, tokens and documents, and any bound. Each
rests on an inductive invariant. Apart from the types, what the invariant adds to
the properties is the argument. Where it needs induction over data (the least
element of a set, the rows before a page, a list of nodes to add), the proof takes a
least counterexample, since the naturals are well founded.

### Raft

`RaftInvariant` defines the inductive invariant, `RaftProofs` proves it. There are
two. `LoopInv` is about the event loop and the calls under way. It holds whatever
saves fail, and gives `RolesHold` and `CountedVotesHold`. `IInv` adds the votes, for
which `ReliableRestart` is assumed (a node whose saves may fail is not one that
restarts: `FailingDisk` and `Crashable` are disjoint). That is needed: without it TLC
finds a node that votes twice (`RaftElection_lostsave.cfg`).

The inductive invariant `IInv`. Election safety is not inductive: it needs to know
where votes come from. `IInv` adds to the types that

1. `FreshDisk`: a node that may crash has its term and vote on disk, so
   that a restart changes neither;
2. `VotesRemembered`: the votes a node gave in its current term are the one it
   remembers, and it gave none in later terms; hence `OneVotePerTerm`;
3. `CallsMatch` and `CallsAreCurrent`: requests and granted replies in flight
   that a candidate still waits for carry its current term while it is a
   Candidate, and a granted reply stands for a vote that was given; hence
   `CountedVotesAreCurrent`, although `startElection` compares no terms;
4. `WonByMajority`: who won a term has votes of a majority in it.

Two majorities of a finite set meet (`MajoritiesMeet`, by cardinalities). The
node in both gave one vote in the term, so the winners are the same
(`OneWinner`). `LeaderWonItsTerm`, `BeaterWon` and `HeartbeatSenderWon` follow the
role to the heartbeats it sends.

### Coordinator

`CoordinatorRunsRaft` is a refinement: every behaviour of the processes is one of
`RaftElection`, so the theorems above hold for them. `CoordInv` adds what the
channel can hold (`OwnIdOnly`: the node's own id), which is why a send that gives
up on a full channel loses nothing, and that whatever is on its way to the flag
stands for a win (`WinBehind`). `ReliableRestart` is not needed here.

### Ring

The hypothesis is `OnceEach`: no two tokens at one position, and no `Add` of a
registered node. The code relies on both and checks neither; section 5 shows
what happens without them. `GoodRing` says that map and list are what the
registered nodes make of them. `ClockwiseIsNearest` proves that the search with
its wrap-around finds the token at the least clockwise distance (least elements
exist because the naturals are well founded), and `NearestIsUnique` that no
other token is as near. A token that is nearest on the larger of two rings and
lies on the smaller one is nearest there too (`SameOwner`): hence minimal
remapping, for joins and for leaves.

The theorems hold for the ring that starts empty (`Spec`) and for the one of a
process with its router (`RoutingSpec`). A process builds its ring from a list of
peers, which `AddAll` models as a recursive function; `AddsExists` shows that this
function is defined for every list, and `AddAllGood` that each `Add` of it keeps
`GoodRing`. `NeverReroutedHolds` needs no hypothesis: the owners that a request may
be sent to are noted while `Route` goes on (`RouteInv`). For
`MismatchMeansStaleHolds`, the node a request is sent to owns the key on a ring of the
nodes that `Route` saw (`Routed`), and two rings of the same nodes agree on every
owner, in whatever order the nodes were added (`SameNodesSameOwner`).

### In-memory cache

`Current` says of the pointer that a `Get` holds between its locks that the entry's
value is one the key had since the `Get` began, while the entry is in the map and
after it has left. Nothing is assumed of the eviction policy here: `TypeOK` and
`HitWasCurrent` hold whatever it answers.

`PolicyInv` brings in the policy: it tracks the keys of the map and no others, and no
key is twice in the list of LRU or the slice of Random. One lemma per method says what
it does to the tracked keys, for each of the four policies (`OnAccessTracks`,
`OnInsertTracks`, `OnEvictTracks`); `EvictNames` says that `Evict` names a tracked key
as long as there is one, for which LFU and TTL need a least element. So `Set` on a full
cache always makes room, and the capacity holds. That the policies' linked list and heaps
do what `Eviction` says is the refinement below.

### Eviction policies

`PolicyImplemented` is a refinement: every call on the linked list or on a heap is a
step of `PolicySpec`, and `Evict` names a key that the abstract policy may choose. The
abstract state is what the pointers of the list lead through, or the ranks of the heap's
entries. The invariant `Inv` has two parts apart from the types.

1. `Holds`: there is a sequence of different keys, those of the map, through which the
   pointers lead from `head` to `tail` and back. `insertAtFront` puts a key in front of
   it (`InsertLinks`) and `removeNode` takes one out (`RemoveLinks`), as the abstract LRU
   does with its sequence.
2. `HeapOK`: array and `index` fields are inverse to each other, and no entry is
   less than its parent. Hence the first entry is a least one (`TopIsLeast`, by a
   least counterexample: an entry that is less than the first has a parent that is).

A heap is in order between two calls and out of order inside `up` and `down`. `Loose`
says what is left of the order while one entry is out of place: all other pairs are in
order, and the children of that entry are not less than its parent. A pass of either
loop keeps `Loose` and moves the place (`UpPass`, `DownPass`), so it is gone after at
most as many passes as there are positions (`UpRestores`, `DownSinks`). `heap.Remove`
and `heap.Fix` try `down` first, and `up` only if the entry did not move;
`SettleRestores` shows that this is enough, since an entry that moved down was not less
than its parent. The function of a loop, and the walk along the pointers, are recursive
functions over a range of numbers; that they exist is proved by extending finite ones
(`IsUpExists`, `IsDownExists`, `WalkExists`). The proofs assume of the constants that
`None` is no key, that the sentinels are different and no keys, and that capacities are
positive and given for LRU, LFU and TTL-only alone, which are the policies that have such
a structure.

### Cache-aside

`AsideInv` adds to the two properties that the rows requests carry are committed
(`InFlightCommitted`), for any number of readers and writers, each strategy and
every fault of the model.

### Proxy

A response is old when it is served because it was long on its way or long in the
store. `OnItsWay` bounds the first by the client's timeout, for which a
request must be known to have been sent before upstream produced its response.
`Good` has the second in the entry's expiry, also for entries that requests hold
outside the lock. A negative max-age is stored without expiry, and the bound
does not speak of it.

### Dashboard and product table

`WalkOK` is the reason why a walk over pages by offset skips nothing: rows are never
deleted and keep their `created_at`, so the number of rows before a product only grows,
and a product that has not been seen lies at or behind the next offset. `PageOfTop`
counts the rows of a page, however the query orders ties. `FirstPageFills` follows
from it: the page that the grid shows is full, or has every row that the query saw.
`ListProducts` counts before it selects and rows only come, so the total is not ahead
of a grid that is not full. With more than 50 products it is: the page has no control
for the others, and `TotalNotAhead` does not speak of that case. `DashboardInv` adds what the
store and the calls hold. A response is an error or fits its call, and functions that
share a URL expect the same of a response (`StoreOK`, `SameURL`), so it does not
matter which of them had it stored.

### Prefix caches and simulations

With one goroutine, the timestamps of the Go cache increase along the list that an
`OrderedDict` keeps (`Ranks`, `Follows`), so that the scan for the oldest timestamp evicts
the head of the list. That gives `SameAsPythonHolds`, and `FairComparisonHolds`, as the
list depends on the draws alone. `SameAsPython` speaks of runs in which no query has
drawn a document twice so far (`~repeated`): then sorting the drawn documents (Go) and
sorting the set of them (Python) give the same key (`SamePrefix`). Three documents drawn
with replacement, the default, do repeat; then the keys and the counts of hits differ,
see `ExactSetMatching` and `MatchesGo` in section 5. `SavingsAgreeHolds` rests on all entries
costing the same (`CostOK`), `ComputedOnceHolds` on what the cache holds while everything fits
(`OnceOK`).

### Only model-checked

Liveness, which is outside the prover's reach: `ElectionEnds`, `OldLeaderStepsDown`,
`LeaderBecomesCoordinator`, `EventuallyFresh` and `ViewCatchesUp`. All other properties
of the passing runs are theorems.

## 5. Further counterexamples

Properties that state other sentences of the comments and that the models refute.
Each is at the end of its module and has a configuration, run with
`tlc -config <file> MC<module>`. Where a configuration is for
several, one INVARIANT is active at a time and the others are in comments.

| Configuration, property | The code says | The model shows |
|---|---|---|
| `RaftElection_lostsave.cfg`, `OneVotePerTerm` | `state.go:40` "If a node restarts, it must not vote twice in the same term." | the error of `saveState` is ignored; after a failed save and a restart the node votes again |
| `RaftElection_heartbeat.cfg`, `HeartbeatFromLeader` | `rpc.go:24` "AppendEntriesRequest is sent by the leader as a heartbeat." | a node deposed between the role check and `sendHeartbeats` sends a heartbeat of a term it did not win |
| `RaftElection_alone.cfg`, `OwnMajorityWins` | `timer.go:89` "Majority votes received  → become Leader" | without peers the loop that tests for a majority never runs |
| `InMemoryCache_docs.cfg`, `HitIsOneValue` | `cache.go:12` "InMemoryCache is a thread-safe, capacity-bounded, TTL-aware cache" | `Get` reads the slice header of the value without the lock (`cache.go:71`) while `Set` overwrites it in place (`cache.go:110`): the header may mix two values |
| `InMemoryCache_docs.cfg`, `TTLRules` | `cache.go:77` "TTL must be >= 1 second (enforced here)" | a TTL below one second is stored and served |
| `InMemoryCache_docs.cfg`, `SoonestExpiryEvicted` | `ttl.go:42` "The entry expiring soonest is always evicted first." | an upsert changes the expiry of an entry and not its place in the heap |
| `Routing_readd.cfg`, `RemovedIsGone` | `ring.go:63` "Remove deregisters a node and all its virtual tokens from the ring." | after two `Add`s a copy of the token stays |
| `Routing_collision.cfg`, `MismatchMeansStale` | `coordinator.go:19` "This indicates a stale routing table" | with two tokens at one position, processes that added the same nodes in different orders disagree on an owner for good |
| `Routing_api.cfg`, `DebugNamesTheOwner` | `debug.go:41` "which node owns this key per consistent hashing" | with the addresses of docker-compose the API hashes other names than the nodes do |
| `CacheAside_docs.cfg`, `NeverStaleAfterWrite` | `writethrough.go:17` "strong consistency (readers never see stale data after a write)" | two updates write the database in one order and the cache in the other |
| `CacheAside_docs.cfg`, `FreshAfterDelete` | `writebehind.go:30` "readers may see stale data for up to 5 seconds" | a late fill after the delete is served for the whole TTL |
| `Proxy_docs.cfg`, `UpdatesReachUpstream` | `proxy.go:46` "full URL uniquely identifies the response" | a PUT to a stored URL is answered from the store |
| `Proxy_docs.cfg`, `StaleServedOnFailure` | `proxy.go:44` "On upstream timeout — serve stale or return 503" | the lookup deletes the expired response before upstream is asked |
| `Simulation_docs.cfg`, `ExactSetMatching` | `rag.go:175` "The same set of document indices always produces the same sequence" | a document drawn twice gives another key; Python drops duplicates |
| `Simulation_docs.cfg`, `MatchesGo` | `.kiro/specs/python-llm-rag-simulation/requirements.md:13` "ports and matches the numerical behavior of the existing Go module" | documents 1, 1, 2 and then 1, 2, 2 are two misses in Go and a miss and a hit in Python |
| `Dashboard_docs.cfg`, `ReportedIsDone` | `CONTEXT.md:63` "add a product, and update a product's price" | the proxy answers a PUT from its store, and the page reports success |
| `Dashboard_docs.cfg`, `EmptyMeansNone` | `dashboard.go:303` "No products found. Add one!" | an error response has no products in it and is shown as an empty table |
| `Dashboard_docs.cfg`, `PagesCoverAll` | `handler.go:61` "1-indexed page number" | products with the same `created_at`, as the seeds, may be ordered differently on every page, and one is on none |

## 6. Not modelled

- Wire formats, SQL, flags, environment variables, metrics, markup and styles:
  input and output without state that a property is about.
- The counts of `fetchNodeStats`: the verb `%*s` of its `Fscanf` is not one that Go
  knows, so they stay 0 and nothing depends on them.
- The cache server (`cacheserver.go`, `util.go`): it forwards to the cache, its
  counters feed only `/metrics`, and nothing calls its `Set`, the only user of
  `secondsToDuration`. `Health` is in `ClusterStatus`.
- The gRPC transport is a stub that returns an error from every call.
- The benchmarks: sequential drivers of the cache with statistics in floating
  point. The same holds for percentages and projections of the LLM simulations.
- Real time: durations appear only as the order of events, or in small ticks.
- Addresses of nodes are on the ring and are dialled by nobody but the stub.

## 7. What would come next

The cache server, once the transport is more than a stub: its `Set` with the conversion
of seconds in 64 bits.
