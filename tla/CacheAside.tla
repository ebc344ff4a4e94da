----------------------------- MODULE CacheAside -----------------------------
(***************************************************************************)
(* internal/api/middleware.go with the strategies of internal/invalidation: *)
(* how one product travels between the database and the API server's cache. *)
(* Products do not interfere, so one is enough.                             *)
(*                                                                         *)
(* The row is given by its version: 0 while there is no row, then one more  *)
(* for every committed INSERT or UPDATE.  A request is a goroutine; each of *)
(* its calls to the cache or the database is one step:                      *)
(*   readers  "idle" -> ("corrupt" ->) "db" -> "fill" -> "idle"             *)
(*   writers  "idle" -> "onwrite" -> "idle"                                 *)
(***************************************************************************)
EXTENDS Integers, FiniteSets

CONSTANTS Reader, Writer,
          Absent,        \* nothing cached, nothing returned
          Strategies,  \* the values of InvalidationStrategy explored
          CacheFails,  \* may calls to the cache return errors?
          DBFails,     \* may calls to the database return errors?
          Tearing,     \* may a cached value be unreadable JSON?
          MaxVersion   \* bound on committed writes

AllStrategies == {"ttl", "write-through", "write-behind"}

ASSUME CacheAsideAssumption ==
  /\ Strategies \subseteq AllStrategies /\ MaxVersion \in Nat \ {0}
  /\ Absent \notin Nat \cup {"late", "lost"}
  /\ CacheFails \in BOOLEAN /\ DBFails \in BOOLEAN /\ Tearing \in BOOLEAN

VARIABLES
  strategy,  \* configured once
  db,        \* version of the row
  cache,     \* version of the cached product
  rpc, rval, \* readers: where they are, what the database gave them
  got,       \* got[r]: version that the last GetProduct of r returned
  wpc, wval, \* writers: where they are, the row that UPDATE returned
  pending,   \* write-behind goroutines that have yet to delete
  excuse     \* history: why the cached product may be out of date

reading == <<rpc, rval, got>>
writing == <<wpc, wval>>
asideVars    == <<strategy, db, cache, reading, writing, pending, excuse>>

Version == 1..MaxVersion
Stale   == cache # Absent /\ cache # db

\* Every variable keeps its type; a request under way holds a version.
AsideTypeOK ==
  /\ strategy \in Strategies /\ db \in 0..MaxVersion /\ cache \in Version \cup {Absent}
  /\ rpc \in [Reader -> {"idle", "corrupt", "db", "fill"}]
  /\ got \in [Reader -> Version \cup {Absent}]
  /\ rval \in [Reader -> Version \cup {Absent}] /\ wval \in [Writer -> Version \cup {Absent}]
  /\ \A r \in Reader : rval[r] \in (IF rpc[r] = "fill" THEN Version ELSE {Absent})
  /\ wpc \in [Writer -> {"idle", "onwrite"}]
  /\ \A w \in Writer : wval[w] \in (IF wpc[w] = "onwrite" THEN Version ELSE {Absent})
  /\ pending \in Nat /\ excuse \in {Absent, "late", "lost"}

AsideInit ==
  /\ strategy \in Strategies /\ db \in 0..1 /\ cache = Absent
  /\ rpc = [r \in Reader |-> "idle"] /\ rval = [r \in Reader |-> Absent]
  /\ got = [r \in Reader |-> Absent]
  /\ wpc = [w \in Writer |-> "idle"] /\ wval = [w \in Writer |-> Absent]
  /\ pending = 0 /\ excuse = Absent

-----------------------------------------------------------------------------
(* What the calls do to the cache. *)

\* cache.Set: "late" if the row has changed since it was read.
CacheSet(v) == cache' = v /\ excuse' = IF v = db THEN Absent ELSE "late"

\* cache.Delete, and what expiry and eviction do to an entry.
CacheDelete == cache' = Absent /\ excuse' = Absent

\* The new row does not reach the cached product.
Missed == UNCHANGED cache /\ excuse' = IF cache = Absent THEN Absent ELSE "lost"

\* Mutant: an entry that never expires.
Expire_Never == FALSE /\ UNCHANGED asideVars

\* The entry's five minutes are over, or the cache evicts it.
Expire ==
  /\ cache # Absent /\ CacheDelete
  /\ UNCHANGED <<strategy, db, reading, writing, pending>>

-----------------------------------------------------------------------------
(* GetProduct. *)

ReaderAt(r, at, v) == rpc' = [rpc EXCEPT ![r] = at] /\ rval' = [rval EXCEPT ![r] = v]
Returns(r, v)      == got' = [got EXCEPT ![r] = v]
GetKeeps           == UNCHANGED <<strategy, db, writing, pending>>

GetHit(r) ==
  /\ rpc[r] = "idle" /\ cache # Absent
  /\ Returns(r, cache)
  /\ GetKeeps /\ UNCHANGED <<cache, excuse, rpc, rval>>

GetMiss(r) ==
  /\ rpc[r] = "idle" /\ (cache = Absent \/ CacheFails)
  /\ ReaderAt(r, "db", Absent) /\ Returns(r, Absent)
  /\ GetKeeps /\ UNCHANGED <<cache, excuse>>

GetCorrupt(r) ==
  /\ rpc[r] = "idle" /\ cache # Absent /\ Tearing
  /\ ReaderAt(r, "corrupt", Absent) /\ Returns(r, Absent)
  /\ GetKeeps /\ UNCHANGED <<cache, excuse>>

DropCorrupt(r) ==
  /\ rpc[r] = "corrupt"
  /\ ReaderAt(r, "db", Absent)
  /\ CacheDelete \/ (CacheFails /\ UNCHANGED <<cache, excuse>>)
  /\ GetKeeps /\ UNCHANGED got

\* 404 for a missing row.
ReadDB(r) ==
  /\ rpc[r] = "db"
  /\ IF db = 0 THEN ReaderAt(r, "idle", Absent) ELSE ReaderAt(r, "fill", db)
  /\ Returns(r, Absent)
  /\ GetKeeps /\ UNCHANGED <<cache, excuse>>

ReadDBFails(r) ==
  /\ rpc[r] = "db" /\ DBFails
  /\ ReaderAt(r, "idle", Absent)
  /\ GetKeeps /\ UNCHANGED <<cache, excuse, got>>

Fill(r) ==
  /\ rpc[r] = "fill"
  /\ CacheSet(rval[r]) \/ (CacheFails /\ UNCHANGED <<cache, excuse>>)
  /\ ReaderAt(r, "idle", Absent) /\ Returns(r, rval[r])
  /\ GetKeeps

-----------------------------------------------------------------------------
(* CreateProduct and UpdateProduct. *)

\* CreateProduct leaves the cache alone.
CreateProduct ==
  /\ db = 0 /\ db' = 1
  /\ UNCHANGED <<strategy, cache, reading, writing, pending, excuse>>

WriterAt(w, at, v) == wpc' = [wpc EXCEPT ![w] = at] /\ wval' = [wval EXCEPT ![w] = v]

\* UPDATE ... RETURNING; 404 ends a request for a missing row.
UpdateDB(w) ==
  /\ wpc[w] = "idle" /\ db \in 1..(MaxVersion - 1)
  /\ db' = db + 1
  /\ WriterAt(w, "onwrite", db + 1)
  /\ UNCHANGED <<strategy, cache, reading, pending, excuse>>

\* Mutant: the strategy is invoked although the database failed.
UpdateDBFails_Invalidates(w) ==
  /\ wpc[w] = "idle" /\ DBFails /\ db \in 1..(MaxVersion - 1)
  /\ WriterAt(w, "onwrite", db + 1)
  /\ UNCHANGED <<strategy, db, cache, reading, pending, excuse>>

\* The database reports an error although it committed (the answer was lost):
\* the request ends and the strategy is not invoked.  An error without a commit
\* changes nothing.
UpdateDBFails(w) ==
  /\ wpc[w] = "idle" /\ DBFails /\ db \in 1..(MaxVersion - 1)
  /\ db' = db + 1 /\ Missed
  /\ UNCHANGED <<strategy, reading, writing, pending>>

OnWriteTTL == UNCHANGED <<cache, pending, excuse>>

\* Mutant: an entry that is there is left as it is.
OnWriteThrough_IfAbsent(v) ==
  /\ IF cache = Absent THEN CacheSet(v) ELSE UNCHANGED <<cache, excuse>>
  /\ UNCHANGED pending

OnWriteThrough(v) ==
  /\ CacheSet(v) \/ (CacheFails /\ Missed)
  /\ UNCHANGED pending

OnWriteBehind == pending' = pending + 1 /\ UNCHANGED <<cache, excuse>>

OnWrite(w) ==
  /\ wpc[w] = "onwrite"
  /\ CASE strategy = "ttl"           -> OnWriteTTL
       [] strategy = "write-through" -> OnWriteThrough(wval[w])
       [] strategy = "write-behind"  -> OnWriteBehind
  /\ WriterAt(w, "idle", Absent)
  /\ UNCHANGED <<strategy, db, reading>>

\* The goroutine wakes up; a failed delete is logged and not retried.
AsyncDelete ==
  /\ pending > 0 /\ pending' = pending - 1
  /\ CacheDelete \/ (CacheFails /\ Missed)
  /\ UNCHANGED <<strategy, db, reading, writing>>

\* The process stops and starts anew: cache, requests and goroutines are gone.
Restart ==
  /\ CacheDelete /\ pending' = 0
  /\ rpc' = [r \in Reader |-> "idle"] /\ rval' = [r \in Reader |-> Absent]
  /\ got' = [r \in Reader |-> Absent]
  /\ wpc' = [w \in Writer |-> "idle"] /\ wval' = [w \in Writer |-> Absent]
  /\ UNCHANGED <<strategy, db>>

-----------------------------------------------------------------------------
GetProduct(r) ==
  \/ GetHit(r) \/ GetMiss(r) \/ GetCorrupt(r) \/ DropCorrupt(r)
  \/ ReadDB(r) \/ ReadDBFails(r) \/ Fill(r)

UpdateProduct(w) == UpdateDB(w) \/ UpdateDBFails(w) \/ OnWrite(w)

AsideNext ==
  \/ \E r \in Reader : GetProduct(r)
  \/ \E w \in Writer : UpdateProduct(w)
  \/ CreateProduct \/ AsyncDelete \/ Expire \/ Restart

AsideSpec == AsideInit /\ [][AsideNext]_asideVars

\* Requests and goroutines that have started run to their end, and an entry
\* expires when its time is over.
Fairness ==
  /\ \A r \in Reader : WF_asideVars(DropCorrupt(r) \/ ReadDB(r) \/ Fill(r))
  /\ \A w \in Writer : WF_asideVars(OnWrite(w))
  /\ WF_asideVars(AsyncDelete) /\ WF_asideVars(Expire)

FairSpec == AsideSpec /\ Fairness

-----------------------------------------------------------------------------
(* Properties. *)

\* middleware.go writes the database first and populates only from rows it
\* returned: neither the cache nor a response holds a row not committed.
OnlyCommitted ==
  /\ cache # Absent => cache =< db
  /\ \A r \in Reader : got[r] # Absent => got[r] =< db

\* With a strategy that invalidates, a stale entry is waiting for a delete or
\* for a write-through that comes, or else it has a reason: it was written by
\* a request that had read the row before the row changed ("late"), or the
\* cache or the database failed ("lost").  Restarts and reads are no reason.
StaleIsExplained ==
  (Stale /\ strategy # "ttl") =>
    \/ excuse # Absent
    \/ \E w \in Writer : wpc[w] = "onwrite"
    \/ pending > 0

\* Whatever was lost or late, expiry repairs it: once updates stop, the cache
\* ends up without a stale entry, for every strategy.
EventuallyFresh == <>[]~Stale

-----------------------------------------------------------------------------
(* What comments of the code say, and the code does not do. *)

Quiet == \A w \in Writer : wpc[w] = "idle"

\* writethrough.go: "strong consistency (readers never see stale data after a
\* write)".  With no update under way, the cached product is the row.
NeverStaleAfterWrite == (strategy = "write-through" /\ Quiet) => ~Stale

\* writebehind.go: "readers may see stale data for up to 5 seconds": not after
\* the delete that the write scheduled.
FreshAfterDelete == (strategy = "write-behind" /\ Quiet /\ pending = 0) => ~Stale
=============================================================================
