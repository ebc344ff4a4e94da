--------------------------- MODULE InMemoryCache ---------------------------
(***************************************************************************)
(* internal/cache: a capacity-bounded, TTL-aware map under one RWMutex,    *)
(* with a pluggable eviction policy (module Eviction).                     *)
(*                                                                         *)
(* Set and Delete hold the lock throughout and are one step each.  Get     *)
(* takes the lock twice and touches the entry it found in between and      *)
(* afterwards without the lock; pc[g] says where goroutine g stands:       *)
(*   "idle"     not in Get                                                 *)
(*   "check"    has the pointer, about to call IsExpired without the lock  *)
(*   "expired"  found it expired, about to take the write lock             *)
(*   "touch"    found it fresh, about to take the write lock               *)
(*   "read"     about to evaluate entry.Value without the lock             *)
(*   "reread"   in the middle of it                                        *)
(* A slice header is several words, and Set overwrites it in place: the    *)
(* read of entry.Value races with it and may see words of two values.      *)
(* AccessedAt, AccessCount and CreatedAt are written and never read.       *)
(***************************************************************************)
EXTENDS Eviction

CONSTANTS Key, Value, Getter,
          None,      \* no entry, no result
          Capacity,  \* config: 1 to 1,000,000
          UsedPolicies,  \* the policies the configuration may name
          TTLs,      \* the durations Set is called with, in ticks
          MaxTTL,    \* 86400 seconds
          OneSecond, \* in ticks
          MaxTime,   \* bound on the clock
          MaxFreq    \* bound on the uses that LFU counts

ASSUME CacheAssumption ==
  /\ Capacity \in Nat \ {0} /\ UsedPolicies \subseteq Policies
  /\ TTLs \subseteq Int /\ MaxTTL \in Nat /\ OneSecond \in Nat
  /\ MaxTime \in Nat /\ MaxFreq \in Nat /\ None \notin Key \cup Value

VARIABLES
  now,      \* the clock
  policy,   \* which policy was configured
  st,       \* its state
  entries,  \* the map: key -> entry
  pc,       \* pc[g]: where Get stands
  ref,      \* ref[g]: the pointer Get holds
  word,     \* word[g]: the part of entry.Value read first
  out,      \* out[g]: the words of the value the last Get of g returned
  seen      \* history: values the key had since g's Get found it

getVars == <<pc, ref, word, out, seen>>
vars    == <<now, policy, st, entries, getVars>>

Keys  == DOMAIN entries
Entry == [value : Value, expiresAt : Nat, ttl : 0..MaxTTL]  \* ttl: history
Pointer == [key : Key, entry : Entry \cup {None}]

ASSUME NoneAssumption == None \notin Entry /\ None \notin Pointer

\* A pointer to the entry that the map holds for key, or, once that entry has
\* left the map, to what was in it then.
Live(k)      == [key |-> k, entry |-> None]
Gone(k)      == [key |-> k, entry |-> entries[k]]
Deref(g)     == IF ref[g].entry = None THEN entries[ref[g].key] ELSE ref[g].entry
Unmap(K)     == ref' = [g \in Getter |-> IF ref[g] # None /\ ref[g].entry = None
                                            /\ ref[g].key \in K
                                         THEN Gone(ref[g].key) ELSE ref[g]]
Show(k, v)   == seen' = [g \in Getter |-> IF ref[g] # None /\ ref[g].key = k
                                          THEN seen[g] \cup {v} ELSE seen[g]]

\* CacheEntry.IsExpired: strictly after.
IsExpired(e) == now > e.expiresAt

\* Every variable keeps its type; a live pointer of a Get under way has an
\* entry in the map to point to (Set, Delete and Get delete through Unmap).
TypeOK ==
  /\ now \in 0..MaxTime /\ policy \in UsedPolicies
  /\ Keys \subseteq Key /\ \A k \in Keys : entries[k] \in Entry
  /\ pc \in [Getter -> {"idle", "check", "expired", "touch", "read", "reread"}]
  /\ \A g \in Getter :
       /\ (ref[g] = None) <=> (pc[g] = "idle")
       /\ ref[g] # None /\ ref[g].entry = None => ref[g].key \in Keys

Init ==
  /\ now = 0 /\ policy \in UsedPolicies
  /\ st = NewPolicy /\ entries = << >>
  /\ pc = [g \in Getter |-> "idle"]
  /\ ref = [g \in Getter |-> None]
  /\ word = [g \in Getter |-> None]
  /\ out = [g \in Getter |-> None]
  /\ seen = [g \in Getter |-> {}]

Tick ==
  /\ now < MaxTime /\ now' = now + 1
  /\ UNCHANGED <<policy, st, entries, getVars>>

\* Bound: LFU frequencies are explored up to MaxFreq.
Countable(k) == policy = "lfu" /\ k \in DOMAIN st => st[k].freq < MaxFreq

-----------------------------------------------------------------------------
(* Set and Delete. *)

Upsert(k, e) ==
  /\ k \in Keys /\ Countable(k)
  /\ entries' = With(entries, k, e)
  /\ st' = OnAccess(policy, st, k, now)
  /\ Show(k, e.value)
  /\ UNCHANGED ref

\* Mutant: the comparison is strict, so room is made one entry late.
Victims_Late ==
  IF Cardinality(Keys) > Capacity /\ Evict(policy, st) # {} THEN Evict(policy, st) ELSE {None}

\* The key Set evicts first, None for none: at capacity the policy picks it.
Victims ==
  IF Cardinality(Keys) >= Capacity /\ Evict(policy, st) # {} THEN Evict(policy, st) ELSE {None}

\* Mutant: the evicted entry's memory is reused for the new one.
Insert_ReusesEntry(k, e) ==
  /\ k \notin Keys
  /\ \E victim \in Victims :
       LET st1 == IF victim = None THEN st ELSE OnEvict(policy, st, victim)
       IN  /\ entries' = With(Without(entries, victim), k, e)
           /\ st' = OnInsert(policy, st1, k, e.expiresAt, now)
           /\ ref' = [g \in Getter |-> IF ref[g] = Live(victim)
                                       THEN [key |-> victim, entry |-> e] ELSE ref[g]]
  /\ Show(k, e.value)

Insert(k, e) ==
  /\ k \notin Keys
  /\ \E victim \in Victims :
       LET st1 == IF victim = None THEN st ELSE OnEvict(policy, st, victim)
       IN  /\ entries' = With(Without(entries, victim), k, e)
           /\ st' = OnInsert(policy, st1, k, e.expiresAt, now)
           /\ Unmap({victim} \cap Keys)
  /\ Show(k, e.value)

\* Mutant: the TTL is not validated.
Set_NoBounds(k, v, ttl, t) ==
  /\ LET e == [value |-> v, expiresAt |-> t + ttl, ttl |-> ttl]
     IN  Upsert(k, e) \/ Insert(k, e)
  /\ UNCHANGED <<now, policy, pc, word, out>>

\* Set computes the expiry from a time t it read before it waited for the lock.
Set(k, v, ttl, t) ==
  /\ ttl >= 0 /\ ttl =< MaxTTL
  /\ LET e == [value |-> v, expiresAt |-> t + ttl, ttl |-> ttl]
     IN  Upsert(k, e) \/ Insert(k, e)
  /\ UNCHANGED <<now, policy, pc, word, out>>

Delete(k) ==
  /\ k \in Keys
  /\ entries' = Without(entries, k)
  /\ st' = OnEvict(policy, st, k)
  /\ Unmap({k})
  /\ UNCHANGED <<now, policy, pc, word, out, seen>>

-----------------------------------------------------------------------------
(* Get. *)

GetStart(g, k) ==
  /\ pc[g] = "idle"
  /\ out' = [out EXCEPT ![g] = None]
  /\ IF k \in Keys
       THEN /\ pc' = [pc EXCEPT ![g] = "check"]
            /\ ref' = [ref EXCEPT ![g] = Live(k)]
            /\ seen' = [seen EXCEPT ![g] = {entries[k].value}]
       ELSE seen' = [seen EXCEPT ![g] = {}] /\ UNCHANGED <<pc, ref>>
  /\ UNCHANGED <<now, policy, st, entries, word>>

GetCheck(g) ==
  /\ pc[g] = "check"
  /\ pc' = [pc EXCEPT ![g] = IF IsExpired(Deref(g)) THEN "expired" ELSE "touch"]
  /\ UNCHANGED <<now, policy, st, entries, ref, word, out, seen>>

\* Get returns a miss, or words: the call is over.
GetEnds(g, words) ==
  /\ pc' = [pc EXCEPT ![g] = "idle"]
  /\ word' = [word EXCEPT ![g] = None]
  /\ out' = [out EXCEPT ![g] = words]
  /\ UNCHANGED <<now, policy>>

\* Mutant: the second look at the map is left out.
GetDropExpired_NoRecheck(g) ==
  LET k == ref[g].key
      drop == k \in Keys
  IN  /\ pc[g] = "expired"
      /\ entries' = IF drop THEN Without(entries, k) ELSE entries
      /\ st' = IF drop THEN OnEvict(policy, st, k) ELSE st
      /\ ref' = [h \in Getter |->
                   IF h = g THEN None
                   ELSE IF drop /\ ref[h] = Live(k) THEN Gone(k) ELSE ref[h]]
      /\ seen' = [seen EXCEPT ![g] = {}]
      /\ GetEnds(g, None)

\* The write lock is taken and the map looked at again.
GetDropExpired(g) ==
  LET k == ref[g].key
      drop == k \in Keys /\ IsExpired(entries[k])
  IN  /\ pc[g] = "expired"
      /\ entries' = IF drop THEN Without(entries, k) ELSE entries
      /\ st' = IF drop THEN OnEvict(policy, st, k) ELSE st
      /\ ref' = [h \in Getter |->
                   IF h = g THEN None
                   ELSE IF drop /\ ref[h] = Live(k) THEN Gone(k) ELSE ref[h]]
      /\ seen' = [seen EXCEPT ![g] = {}]
      /\ GetEnds(g, None)

GetTouch(g) ==
  /\ pc[g] = "touch" /\ Countable(ref[g].key)
  /\ st' = OnAccess(policy, st, ref[g].key, now)
  /\ pc' = [pc EXCEPT ![g] = "read"]
  /\ UNCHANGED <<now, policy, entries, ref, word, out, seen>>

GetRead(g) ==
  /\ pc[g] = "read"
  /\ word' = [word EXCEPT ![g] = Deref(g).value]
  /\ pc' = [pc EXCEPT ![g] = "reread"]
  /\ UNCHANGED <<now, policy, st, entries, ref, out, seen>>

\* The words may be read in either order.
GetReturn(g) ==
  /\ pc[g] = "reread"
  /\ \E words \in {<<word[g], Deref(g).value>>, <<Deref(g).value, word[g]>>} : GetEnds(g, words)
  /\ ref' = [ref EXCEPT ![g] = None]
  /\ UNCHANGED <<st, entries, seen>>

-----------------------------------------------------------------------------
Get(g) ==
  \/ \E k \in Key : GetStart(g, k)
  \/ GetCheck(g) \/ GetDropExpired(g) \/ GetTouch(g) \/ GetRead(g) \/ GetReturn(g)

Next ==
  \/ Tick
  \/ \E k \in Key, v \in Value, ttl \in TTLs, t \in 0..now : Set(k, v, ttl, t)
  \/ \E k \in Key : Delete(k)
  \/ \E g \in Getter : Get(g)

Spec == Init /\ [][Next]_vars

-----------------------------------------------------------------------------
(* Properties. *)

\* Whatever Gets are under way, the map never outgrows its capacity: Set always
\* finds a victim that is in the map.
CapacityRespected == Cardinality(Keys) =< Capacity

\* The policy follows exactly the keys in the map, each once, although Get
\* calls OnAccess for keys that were deleted or evicted since it looked.
PolicyTracksEntries ==
  /\ Tracked(policy, st) = Keys
  /\ policy \in {"lru", "random"} => Len(st) = Cardinality(Keys)

\* Every word of a value that Get returns belongs to a value that the key had
\* while that Get ran, even when its entry is deleted, evicted or replaced.
HitWasCurrent ==
  \A g \in Getter : out[g] # None => {out[g][1], out[g][2]} \subseteq seen[g]

\* Lazy expiry removes only expired entries: one that Set made fresh between
\* Get's check and its write lock stays.
DropsOnlyExpired ==
  [][\A g \in Getter :
       GetDropExpired(g) => \A k \in Keys \ DOMAIN entries' : IsExpired(entries[k])]_vars

-----------------------------------------------------------------------------
(* What comments of the code say, and the code does not do. *)

\* cache.go: "InMemoryCache is a thread-safe, capacity-bounded, TTL-aware
\* cache".  A value that Get returns is one value, not parts of two.
HitIsOneValue ==
  \A g \in Getter : out[g] # None => out[g][1] = out[g][2]

\* cache.go on Set: "TTL must be >= 1 second (enforced here)", "TTL = 0 is
\* treated as immediately expired".
TTLRules ==
  \A k \in Keys : entries[k].ttl >= OneSecond \/ IsExpired(entries[k])

\* ttl.go: "The entry expiring soonest is always evicted first."
SoonestExpiryEvicted ==
  policy = "ttl" =>
    \A v \in Evict(policy, st), k \in Keys : entries[v].expiresAt =< entries[k].expiresAt
=============================================================================
