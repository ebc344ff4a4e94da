--------------------------- MODULE ServingProofs ---------------------------
(***************************************************************************)
(* Proofs about the two caches in front of a service.                        *)
(*                                                                           *)
(* Proxy, for every number of clients, every set of max-ages and every       *)
(* timeout: AgeBounded, HitsMayBeCached and DropsOnlyExpired.                *)
(* A response is old when it is served for two reasons: the time it spent    *)
(* on its way before it was stored, and the time it was stored.  InTime      *)
(* bounds the first, which is why a request under way must be known to have  *)
(* been sent before upstream produced its response (OnItsWay).  The second   *)
(* is in the entry's expiry (Good), and an entry is also held by requests    *)
(* that have read the map and are about to look at it.                       *)
(*                                                                           *)
(* CacheAside, for every number of requests, every bound on versions and     *)
(* every choice of failures: types, OnlyCommitted and StaleIsExplained.      *)
(* What the cache holds comes out of requests under way, so the invariant    *)
(* has to speak of the versions they carry (InFlightCommitted).  A row is    *)
(* created under a cache that is empty because of it, too: a cached version  *)
(* would be at least 1 and not committed.                                    *)
(***************************************************************************)
EXTENDS Proxy, CacheAside, TLAPS

-----------------------------------------------------------------------------
(* The proxy. *)

\* An entry may be cached and expires in time.
Good(e) ==
  /\ e.resp.ok /\ e.resp.header \notin {NoStore, 0}
  /\ ttlOf(e.resp.header) > 0 =>
       /\ e.expiresAt \in Int
       /\ e.expiresAt =< e.resp.at + ttlOf(e.resp.header) + Timeout

OnItsWay(c) ==
  /\ pc[c] = "sent" => sent[c] =< now
  /\ pc[c] = "handled" => sent[c] =< resp[c].at

Served(c) ==
  (answer[c] # None /\ answer[c].kind = "HIT") =>
    /\ answer[c].resp.ok /\ answer[c].resp.header \notin {NoStore, 0}
    /\ ttlOf(answer[c].resp.header) > 0 =>
         answer[c].time - answer[c].resp.at =< ttlOf(answer[c].resp.header) + Timeout

ProxyInv ==
  /\ TypeOK
  /\ store # None => Good(store)
  /\ \A c \in Client :
       /\ pc[c] \in {"check", "drop"} => Good(ref[c])
       /\ OnItsWay(c) /\ Served(c)

\* parseCacheControl gives a duration for a response that is to be cached.
LEMMA TTLType ==
  ASSUME NEW h \in CacheControl, shouldCache(h)
  PROVE  ttlOf(h) \in Int
<1>1. CASE h = NoHeader
  BY <1>1, ProxyAssumption DEF ttlOf
<1>2. CASE h # NoHeader
  <2>1. h \in MaxAges
    BY <1>2 DEF CacheControl, shouldCache
  <2> QED  BY <1>2, <2>1, ProxyAssumption DEF ttlOf
<1> QED  BY <1>1, <1>2

\* The proxy starts with an empty store.
LEMMA ProxyInitOK == Init => ProxyInv
<1> SUFFICES ASSUME Init PROVE ProxyInv  OBVIOUS
<1>1. TypeOK
  BY DEF Init, TypeOK
<1>2. \A c \in Client : pc[c] = "idle" /\ answer[c] = None
  BY DEF Init
<1> QED  BY <1>1, <1>2 DEF Init, ProxyInv, OnItsWay, Served

-----------------------------------------------------------------------------
\* Time only makes requests that are on their way older.
LEMMA TickKeeps == ProxyInv /\ Tick => ProxyInv'
<1> SUFFICES ASSUME ProxyInv, Tick PROVE ProxyInv'  OBVIOUS
<1>1. TypeOK'
  BY DEF ProxyInv, TypeOK, Tick, request
<1>2. \A c \in Client : OnItsWay(c)' /\ Served(c)'
  BY DEF ProxyInv, TypeOK, Tick, request, OnItsWay, Served, ttlOf
<1>3. (store # None => Good(store))'
  BY DEF ProxyInv, Tick, request, Good, ttlOf
<1>4. \A c \in Client : (pc[c] \in {"check", "drop"} => Good(ref[c]))'
  BY DEF ProxyInv, Tick, request, Good, ttlOf
<1> QED  BY <1>1, <1>2, <1>3, <1>4 DEF ProxyInv

\* A request begins.
LEMMA BeginKeeps ==
  ASSUME NEW c \in Client, NEW m \in Methods, ProxyInv, Begin(c, m)
  PROVE  ProxyInv'
<1> USE DEF ProxyInv, Begin
<1>1. TypeOK'
  BY DEF TypeOK
<1>2. (store # None => Good(store))'
  BY DEF Good, ttlOf
<1>3. ASSUME NEW d \in Client
      PROVE  /\ (pc[d] \in {"check", "drop"} => Good(ref[d]))'
             /\ OnItsWay(d)' /\ Served(d)'
  BY <1>3 DEF TypeOK, Good, ttlOf, OnItsWay, Served
<1> QED  BY <1>1, <1>2, <1>3

\* A request that finds nothing is forwarded, or given up the second time.
LEMMA MissKeeps ==
  ASSUME NEW c \in Client, ProxyInv, Miss(c), UNCHANGED <<now, resp>>,
         store' = store \/ store' = None
  PROVE  ProxyInv'
<1> USE DEF ProxyInv, Miss, Ends
<1>1. [kind |-> "503", resp |-> None, time |-> now] \in Answer
  BY DEF TypeOK, Answer
<1>2. TypeOK'
  BY <1>1 DEF TypeOK
<1>3. (store # None => Good(store))'
  BY DEF Good, ttlOf
<1>4. ASSUME NEW d \in Client
      PROVE  /\ (pc[d] \in {"check", "drop"} => Good(ref[d]))'
             /\ OnItsWay(d)' /\ Served(d)'
  <2>1. CASE d # c
    BY <2>1 DEF TypeOK, Good, ttlOf, OnItsWay, Served
  <2>2. CASE d = c /\ attempt[c] = 1
    <3>1. pc'[c] = "sent" /\ sent'[c] = now /\ answer'[c] = answer[c]
      BY <2>2 DEF TypeOK
    <3> QED  BY <2>2, <3>1 DEF TypeOK, OnItsWay, Served, ttlOf
  <2>3. CASE d = c /\ attempt[c] # 1
    <3>1. pc'[c] = "idle" /\ answer'[c].kind = "503"
      BY <2>3 DEF TypeOK
    <3> QED  BY <2>3, <3>1 DEF OnItsWay, Served
  <2> QED  BY <2>1, <2>2, <2>3
<1> QED  BY <1>2, <1>3, <1>4

\* ResponseStore.Get, the read of the map.
LEMMA LookupKeeps ==
  ASSUME NEW c \in Client, ProxyInv, Lookup(c)
  PROVE  ProxyInv'
<1>1. CASE store = None
  BY <1>1, MissKeeps DEF Lookup
<1>2. CASE store # None
  <2> USE <1>2 DEF ProxyInv, Lookup
  <2>1. TypeOK'
    BY DEF TypeOK
  <2>2. (store # None => Good(store))'
    BY DEF Good, ttlOf
  <2>3. ASSUME NEW d \in Client
        PROVE  /\ (pc[d] \in {"check", "drop"} => Good(ref[d]))'
               /\ OnItsWay(d)' /\ Served(d)'
    BY <2>3 DEF TypeOK, Good, ttlOf, OnItsWay, Served
  <2> QED  BY <2>1, <2>2, <2>3
<1> QED  BY <1>1, <1>2

\* IsExpired decides: an entry that is served has not expired yet.
LEMMA CheckKeeps ==
  ASSUME NEW c \in Client, ProxyInv, Check(c)
  PROVE  ProxyInv'
<1> USE DEF ProxyInv, Check
<1>0. ref[c] \in Entry /\ Good(ref[c]) /\ now \in Nat
  BY DEF TypeOK
<1>1. CASE IsExpired(ref[c])
  <2>1. TypeOK'
    BY <1>1 DEF TypeOK
  <2>2. (store # None => Good(store))'
    BY DEF Good, ttlOf
  <2>3. ASSUME NEW d \in Client
        PROVE  /\ (pc[d] \in {"check", "drop"} => Good(ref[d]))'
               /\ OnItsWay(d)' /\ Served(d)'
    BY <1>1, <2>3 DEF TypeOK, Good, ttlOf, OnItsWay, Served
  <2> QED  BY <2>1, <2>2, <2>3
<1>2. CASE ~IsExpired(ref[c])
  <2>1. [kind |-> "HIT", resp |-> ref[c].resp, time |-> now] \in Answer
    BY <1>0, SMTT(30) DEF Entry, Answer
  <2>2. TypeOK'
    BY <1>2, <2>1, SMTT(30) DEF TypeOK, Ends
  <2>3. (store # None => Good(store))'
    BY DEF Good, ttlOf
  <2>4. Served(c)'
    <3>1. answer'[c] = [kind |-> "HIT", resp |-> ref[c].resp, time |-> now]
      BY <1>2 DEF Ends, TypeOK
    <3>2. /\ ref[c].resp.header \in CacheControl /\ shouldCache(ref[c].resp.header)
          /\ ref[c].resp.at \in Nat
      BY <1>0 DEF Entry, Response, Good, shouldCache
    <3>3. ttlOf(ref[c].resp.header) \in Int
      BY <3>2, TTLType
    <3>4. ttlOf(ref[c].resp.header) > 0 =>
            now - ref[c].resp.at =< ttlOf(ref[c].resp.header) + Timeout
      BY <1>0, <1>2, <3>2, <3>3, NoneAssumption, ProxyAssumption DEF Good, IsExpired
    <3>5. ref[c].resp.ok /\ ref[c].resp.header \notin {NoStore, 0}
      BY <1>0 DEF Good
    <3>6. answer'[c].resp = ref[c].resp /\ answer'[c].time = now
      BY <3>1
    <3> HIDE DEF ProxyInv, Check
    <3> QED  BY <3>4, <3>5, <3>6, Zenon DEF Served
  <2>5. ASSUME NEW d \in Client
        PROVE  (pc[d] \in {"check", "drop"} => Good(ref[d]))' /\ OnItsWay(d)'
    BY <1>2, <2>5 DEF TypeOK, Ends, Good, ttlOf, OnItsWay
  <2>6. ASSUME NEW d \in Client, d # c PROVE Served(d)'
    BY <1>2, <2>6 DEF TypeOK, Ends, Served, ttlOf
  <2> QED  BY <2>2, <2>3, <2>4, <2>5, <2>6, SMTT(30)
<1> QED  BY <1>1, <1>2

\* The write lock and the second look: the entry goes only when it has expired.
LEMMA DropKeeps ==
  ASSUME NEW c \in Client, ProxyInv, Drop(c)
  PROVE  ProxyInv'
BY MissKeeps DEF Drop

\* Upstream answers after the request was sent.
LEMMA UpstreamKeeps ==
  ASSUME NEW c \in Client, ProxyInv, Upstream(c)
  PROVE  ProxyInv'
<1> PICK ok \in BOOLEAN, h \in CacheControl :
       resp' = [resp EXCEPT ![c] = [ok |-> ok, at |-> now, header |-> h]]
  BY Zenon DEF Upstream
<1> USE DEF ProxyInv, Upstream
<1>1. [ok |-> ok, at |-> now, header |-> h] \in Response
  BY DEF TypeOK, Response
<1>2. resp'[c].at = now
  BY DEF TypeOK
<1>3. TypeOK'
  BY <1>1 DEF TypeOK
<1>4. (store # None => Good(store))'
  BY DEF Good, ttlOf
<1>5. OnItsWay(c)'
  BY <1>2 DEF TypeOK, OnItsWay
<1>6. ASSUME NEW d \in Client
      PROVE  (pc[d] \in {"check", "drop"} => Good(ref[d]))' /\ Served(d)'
  BY <1>6 DEF TypeOK, Good, ttlOf, Served
<1>7. ASSUME NEW d \in Client, d # c PROVE OnItsWay(d)'
  BY <1>7 DEF TypeOK, OnItsWay
<1> QED  BY <1>3, <1>4, <1>5, <1>6, <1>7

\* A failed request looks again, and forgets the response it may have had.
LEMMA FailureKeeps ==
  ASSUME NEW c \in Client, ProxyInv, ForwardFails(c) \/ BodyFails(c)
  PROVE  ProxyInv'
<1> USE DEF ProxyInv, ForwardFails, BodyFails, Ends
<1>1. [kind |-> "502", resp |-> None, time |-> now] \in Answer
  BY DEF TypeOK, Answer
<1>2. TypeOK'
  BY <1>1 DEF TypeOK
<1>3. (store # None => Good(store))'
  BY DEF Good, ttlOf
<1>4. ASSUME NEW d \in Client
      PROVE  (pc[d] \in {"check", "drop"} => Good(ref[d]))' /\ OnItsWay(d)'
  BY <1>4, SMTT(30) DEF TypeOK, Good, ttlOf, OnItsWay
<1> HIDE DEF ProxyInv, ForwardFails, BodyFails, Ends
<1>5. ASSUME NEW d \in Client PROVE Served(d)'
  <2>0. answer \in [Client -> Answer \cup {None}] /\ Served(d)
    BY <1>5, Zenon DEF ProxyInv, TypeOK
  <2>1. CASE ForwardFails(c)
    <3>1. answer' = answer
      BY <2>1 DEF ForwardFails
    <3> QED  BY <2>0, <3>1, Zenon DEF Served
  <2>2. CASE BodyFails(c)
    <3>1. answer' = [answer EXCEPT ![c] = [kind |-> "502", resp |-> None, time |-> now]]
      BY <2>2, Zenon DEF BodyFails, Ends
    <3>2. CASE d = c
      <4>1. answer'[d].kind = "502"
        BY <2>0, <3>1, <3>2
      <4> QED  BY <4>1 DEF Served
    <3>3. CASE d # c
      <4>1. answer'[d] = answer[d]
        BY <2>0, <3>1, <3>3, Zenon
      <4> QED  BY <2>0, <4>1, Zenon DEF Served
    <3> QED  BY <3>2, <3>3, Zenon
  <2> QED  BY <2>1, <2>2, Zenon
<1> QED  BY <1>2, <1>3, <1>4, <1>5, Zenon DEF ProxyInv

\* What Receive stores may be cached and expires in time: it arrived at most
\* Timeout after it was sent, so at most Timeout after upstream produced it.
LEMMA StoredGood ==
  ASSUME NEW c \in Client, ProxyInv, InTime(c)
  PROVE  /\ Stored(resp[c]) = None \/ Stored(resp[c]) \in Entry
         /\ Stored(resp[c]) # None => Good(Stored(resp[c]))
         /\ store # None => Stored(resp[c]) # None
<1> DEFINE r == resp[c]
<1>1. /\ r \in Response /\ now \in Nat /\ sent[c] \in Nat /\ Timeout \in Nat
      /\ sent[c] =< r.at /\ now =< sent[c] + Timeout
  BY ProxyAssumption DEF ProxyInv, TypeOK, OnItsWay, InTime
<1>2. CASE shouldCache(r.header) /\ r.ok
  <2>1. ttlOf(r.header) \in Int /\ r.at \in Nat
    BY <1>1, <1>2, TTLType DEF Response
  <2>2. Stored(r) = [resp |-> r, ttl |-> ttlOf(r.header),
                     expiresAt |-> IF ttlOf(r.header) > 0 THEN now + ttlOf(r.header) ELSE None]
    BY <1>2 DEF Stored
  <2>3. Stored(r) \in Entry
    BY <1>1, <2>1, <2>2 DEF Entry
  <2>4. ttlOf(r.header) > 0 => Stored(r).expiresAt = now + ttlOf(r.header)
    BY <2>2
  <2>5. Stored(r).resp = r
    BY <2>2
  <2>6. Good(Stored(r))
    <3> HIDE DEF r
    <3> QED  BY <1>1, <1>2, <2>1, <2>4, <2>5, SMTT(30) DEF Good, shouldCache
  <2> QED  BY <2>3, <2>6, NoneAssumption
<1>3. CASE ~(shouldCache(r.header) /\ r.ok)
  BY <1>3 DEF Stored, ProxyInv, TypeOK
<1> QED  BY <1>2, <1>3

\* A response that arrives is stored and served.
LEMMA ReceiveKeeps ==
  ASSUME NEW c \in Client, ProxyInv, Receive(c)
  PROVE  ProxyInv'
<1>1. /\ store' = None \/ store' \in Entry
      /\ (store # None => Good(store))'
  BY StoredGood, SMTT(30) DEF Receive, Good, ttlOf
<1> USE DEF ProxyInv, Receive, InTime, Ends
<1>2. [kind |-> "MISS", resp |-> resp[c], time |-> now] \in Answer
  BY DEF TypeOK, Answer
<1>3. TypeOK'
  BY <1>1, <1>2 DEF TypeOK
<1>4. ASSUME NEW d \in Client
      PROVE  (pc[d] \in {"check", "drop"} => Good(ref[d]))' /\ OnItsWay(d)'
  BY <1>4, SMTT(30) DEF TypeOK, Good, ttlOf, OnItsWay
<1>5. ASSUME NEW d \in Client PROVE Served(d)'
  BY <1>5 DEF TypeOK, Served, ttlOf
<1> QED  BY <1>1, <1>3, <1>4, <1>5

-----------------------------------------------------------------------------
\* Every step of the proxy keeps ProxyInv.
LEMMA ProxyStep == ProxyInv /\ [Next]_vars => ProxyInv'
<1> SUFFICES ASSUME ProxyInv, [Next]_vars PROVE ProxyInv'  OBVIOUS
<1>1. CASE Tick
  BY <1>1, TickKeeps
<1>2. ASSUME NEW c \in Client, ServeHTTP(c) PROVE ProxyInv'
  BY SMTT(30), <1>2, BeginKeeps, LookupKeeps, CheckKeeps, DropKeeps, UpstreamKeeps,
     FailureKeeps, ReceiveKeeps DEF ServeHTTP
<1>3. CASE UNCHANGED vars
  BY <1>3 DEF vars, request, ProxyInv, TypeOK, Good, OnItsWay, Served, ttlOf
<1> QED  BY <1>1, <1>2, <1>3 DEF Next

\* ProxyInv is an invariant of the proxy.
THEOREM ProxyInvariant == Spec => []ProxyInv
BY ProxyInitOK, ProxyStep, PTL DEF Spec

\* Whatever requests overlap, a response is served from the store at most its
\* max-age plus one upstream timeout after upstream produced it.
THEOREM AgeBoundedHolds == Spec => []AgeBounded
<1>1. ProxyInv => AgeBounded
  BY DEF ProxyInv, Served, AgeBounded
<1> QED  BY <1>1, ProxyInvariant, PTL

\* Errors, and responses that upstream forbids to cache, are never served from
\* the store.
THEOREM HitsMayBeCachedHolds == Spec => []HitsMayBeCached
<1>1. ProxyInv => HitsMayBeCached
  BY DEF ProxyInv, Served, HitsMayBeCached
<1> QED  BY <1>1, ProxyInvariant, PTL

\* ResponseStore.Get deletes only expired entries, and storing a response
\* never empties the store.
THEOREM DropsOnlyExpiredHolds == Spec => DropsOnlyExpired
<1>1. ProxyInv /\ [Next]_vars =>
        [(store # None /\ store' = None) => IsExpired(store)]_vars
  <2> SUFFICES ASSUME ProxyInv, Next, store # None, store' = None
               PROVE  IsExpired(store)
    OBVIOUS
  <2>1. CASE Tick
    BY <2>1 DEF Tick
  <2>2. ASSUME NEW c \in Client, ServeHTTP(c) PROVE IsExpired(store)
    <3>1. CASE Receive(c)
      BY <3>1, StoredGood DEF Receive
    <3>2. CASE Drop(c)
      BY <3>2 DEF Drop
    <3>3. CASE ~Receive(c) /\ ~Drop(c)
      BY <2>2, <3>3, Zenon DEF ServeHTTP, Begin, Lookup, Check, Upstream, ForwardFails, BodyFails
    <3> QED  BY <3>1, <3>2, <3>3
  <2> QED  BY <2>1, <2>2 DEF Next
<1> QED  BY <1>1, ProxyInvariant, PTL DEF Spec, DropsOnlyExpired

-----------------------------------------------------------------------------
(* The cache-aside API. *)

\* The versions that requests under way hold are committed.
InFlightCommitted ==
  /\ \A r \in Reader : rpc[r] = "fill" => rval[r] =< db
  /\ \A w \in Writer : wpc[w] = "onwrite" => wval[w] =< db

AsideInv == AsideTypeOK /\ InFlightCommitted /\ OnlyCommitted /\ StaleIsExplained

\* The process starts with an empty cache and no requests.
LEMMA AsideStarts == AsideInit => AsideInv
<1> SUFFICES ASSUME AsideInit PROVE AsideInv  OBVIOUS
<1>1. AsideTypeOK
  BY CacheAsideAssumption DEF AsideInit, AsideTypeOK, Version, AllStrategies
<1>2. InFlightCommitted /\ OnlyCommitted /\ StaleIsExplained
  BY DEF AsideInit, InFlightCommitted, OnlyCommitted, StaleIsExplained, Stale
<1> QED  BY <1>1, <1>2 DEF AsideInv

-----------------------------------------------------------------------------
(* GetProduct. *)

\* The first step of GetProduct: a hit, a miss, or an unreadable entry.
LEMMA CacheLookupKeeps ==
  ASSUME NEW r \in Reader, AsideInv, GetHit(r) \/ GetMiss(r) \/ GetCorrupt(r)
  PROVE  AsideInv'
<1> USE DEF AsideInv
<1>1. AsideTypeOK'
  <2>1. CASE GetHit(r)
    BY <2>1 DEF GetHit, Returns, GetKeeps, AsideTypeOK, writing
  <2>2. CASE GetMiss(r)
    BY <2>2 DEF GetMiss, Returns, ReaderAt, GetKeeps, AsideTypeOK, writing
  <2>3. CASE GetCorrupt(r)
    BY <2>3 DEF GetCorrupt, Returns, ReaderAt, GetKeeps, AsideTypeOK, writing
  <2> QED  BY <2>1, <2>2, <2>3
<1>2. InFlightCommitted'
  BY DEF GetHit, GetMiss, GetCorrupt, Returns, ReaderAt, GetKeeps, InFlightCommitted, AsideTypeOK, writing
<1>3. OnlyCommitted'
  BY DEF GetHit, GetMiss, GetCorrupt, Returns, ReaderAt, GetKeeps, OnlyCommitted, AsideTypeOK, writing
<1>4. StaleIsExplained'
  BY DEF GetHit, GetMiss, GetCorrupt, GetKeeps, StaleIsExplained, Stale, writing
<1> QED  BY <1>1, <1>2, <1>3, <1>4

\* An unreadable entry is deleted, unless the delete fails.
LEMMA DropCorruptKeeps ==
  ASSUME NEW r \in Reader, AsideInv, DropCorrupt(r)
  PROVE  AsideInv'
<1> USE DEF AsideInv, DropCorrupt
<1>1. AsideTypeOK'
  BY DEF CacheDelete, ReaderAt, GetKeeps, AsideTypeOK, writing
<1>2. InFlightCommitted'
  BY DEF ReaderAt, GetKeeps, InFlightCommitted, AsideTypeOK, writing
<1>3. OnlyCommitted' /\ StaleIsExplained'
  BY DEF CacheDelete, GetKeeps, OnlyCommitted, StaleIsExplained, Stale, writing
<1> QED  BY <1>1, <1>2, <1>3

\* A reader moves on, with a version that is committed if it is going to fill.
LEMMA ReaderMoves ==
  ASSUME NEW r \in Reader, AsideInv, NEW at, NEW v, ReaderAt(r, at, v), GetKeeps,
         at = "fill" => v =< db
  PROVE  InFlightCommitted'
<1>1. rpc \in [Reader -> {"idle", "corrupt", "db", "fill"}] /\ rval \in [Reader -> Version \cup {Absent}]
  BY DEF AsideInv, AsideTypeOK
<1>2. /\ rpc'[r] = at /\ rval'[r] = v
      /\ \A q \in Reader : q # r => rpc'[q] = rpc[q] /\ rval'[q] = rval[q]
  BY <1>1, Zenon DEF ReaderAt
<1>3. db' = db /\ wpc' = wpc /\ wval' = wval
  BY DEF GetKeeps, writing
<1> QED  BY <1>2, <1>3, Zenon DEF AsideInv, InFlightCommitted

\* The database read gives the reader the row as it is, or no row.
LEMMA ReadKeeps ==
  ASSUME NEW r \in Reader, AsideInv, ReadDB(r) \/ ReadDBFails(r)
  PROVE  AsideInv'
<1> USE DEF AsideInv
<1>1. AsideTypeOK'
  <2>1. CASE ReadDB(r)
    <3>1. db \in 0..MaxVersion /\ MaxVersion \in Nat
      BY CacheAsideAssumption, SMTT(30) DEF AsideTypeOK
    <3>2. CASE db = 0
      BY <2>1, <3>1, <3>2 DEF ReadDB, ReaderAt, Returns, GetKeeps, AsideTypeOK, writing
    <3>3. CASE db # 0
      <4>1. db \in Version
        BY <3>1, <3>3 DEF Version
      <4> QED  BY <2>1, <3>3, <4>1 DEF ReadDB, ReaderAt, Returns, GetKeeps, AsideTypeOK, writing
    <3> QED  BY <3>2, <3>3
  <2>2. CASE ReadDBFails(r)
    BY <2>2, SMTT(30) DEF ReadDBFails, ReaderAt, GetKeeps, AsideTypeOK, writing
  <2> QED  BY <2>1, <2>2
<1>2. InFlightCommitted'
  <2>1. db =< db /\ "idle" # "fill"
    BY CacheAsideAssumption DEF AsideTypeOK
  <2> QED  BY <2>1, ReaderMoves, Zenon DEF ReadDB, ReadDBFails
<1>3. OnlyCommitted' /\ StaleIsExplained'
  BY SMTT(30) DEF ReadDB, ReadDBFails, Returns, GetKeeps, OnlyCommitted, StaleIsExplained,
        Stale, AsideTypeOK, writing
<1> QED  BY <1>1, <1>2, <1>3

\* The fill writes what the reader holds; if the row has changed, it is "late".
LEMMA FillKeeps ==
  ASSUME NEW r \in Reader, AsideInv, Fill(r)
  PROVE  AsideInv'
<1> USE DEF AsideInv, Fill
<1>1. rval[r] \in Version /\ rval[r] =< db
  BY SMTT(30) DEF AsideTypeOK, InFlightCommitted
<1>2. AsideTypeOK'
  BY <1>1, SMTT(30) DEF CacheSet, ReaderAt, Returns, GetKeeps, AsideTypeOK, writing
<1>3. InFlightCommitted'
  BY ReaderMoves
<1>4. OnlyCommitted'
  BY <1>1 DEF CacheSet, Returns, GetKeeps, OnlyCommitted, AsideTypeOK, writing
<1>5. StaleIsExplained'
  <2> QED  BY CacheAsideAssumption DEF CacheSet, GetKeeps, StaleIsExplained, Stale, writing
<1> QED  BY <1>2, <1>3, <1>4, <1>5

-----------------------------------------------------------------------------
(* CreateProduct and UpdateProduct. *)

\* The row is created under an empty cache: a cached version would be above 0.
LEMMA CreateKeeps ==
  ASSUME AsideInv, CreateProduct
  PROVE  AsideInv'
<1> USE CacheAsideAssumption DEF AsideInv, CreateProduct
<1>1. cache = Absent
  BY DEF AsideTypeOK, OnlyCommitted, Version
<1>2. AsideTypeOK'
  <2>1. 1 \in 0..MaxVersion
    BY DEF AsideTypeOK
  <2> QED  BY <2>1 DEF AsideTypeOK, reading, writing
<1>3. InFlightCommitted' /\ OnlyCommitted' /\ StaleIsExplained'
  BY <1>1 DEF AsideTypeOK, InFlightCommitted, OnlyCommitted, StaleIsExplained, Stale, Version,
        reading, writing
<1> QED  BY <1>2, <1>3

\* A committed UPDATE makes the cached version old; the writer has yet to act.
LEMMA UpdateDBKeeps ==
  ASSUME NEW w \in Writer, AsideInv, UpdateDB(w)
  PROVE  AsideInv'
<1> USE CacheAsideAssumption DEF AsideInv, UpdateDB
<1>1. db \in Nat /\ db + 1 \in Version /\ db' = db + 1
  BY DEF Version
<1>2. AsideTypeOK'
  BY <1>1 DEF AsideTypeOK, WriterAt, Version, reading
<1>3. InFlightCommitted'
  BY <1>1 DEF AsideTypeOK, InFlightCommitted, WriterAt, Version, reading
<1>4. OnlyCommitted'
  BY <1>1 DEF AsideTypeOK, OnlyCommitted, Version, reading
<1>5. wpc'[w] = "onwrite"
  BY DEF AsideTypeOK, WriterAt
<1>6. StaleIsExplained'
  BY <1>5 DEF StaleIsExplained
<1> QED  BY <1>2, <1>3, <1>4, <1>6

\* A commit whose answer is lost: the cached product has missed it for good.
LEMMA UpdateFailsKeeps ==
  ASSUME NEW w \in Writer, AsideInv, UpdateDBFails(w)
  PROVE  AsideInv'
<1> USE CacheAsideAssumption DEF AsideInv, UpdateDBFails, Missed
<1>1. db \in Nat /\ db + 1 \in Version /\ db' = db + 1
  BY DEF Version
<1>2. AsideTypeOK'
  BY <1>1, SMTT(30) DEF AsideTypeOK, Version, reading, writing
<1>3. InFlightCommitted' /\ OnlyCommitted'
  BY <1>1 DEF AsideTypeOK, InFlightCommitted, OnlyCommitted, Version, reading, writing
<1>4. StaleIsExplained'
  BY DEF StaleIsExplained, Stale, writing
<1> QED  BY <1>2, <1>3, <1>4

\* The strategy's turn: nothing for TTL; the cache gets the row, or misses it,
\* for write-through; a delete is scheduled for write-behind.
LEMMA OnWriteKeeps ==
  ASSUME NEW w \in Writer, AsideInv, OnWrite(w)
  PROVE  AsideInv'
<1> USE CacheAsideAssumption DEF AsideInv, OnWrite
<1>1. wval[w] \in Version /\ wval[w] =< db /\ db \in Nat /\ pending \in Nat
  BY DEF AsideTypeOK, InFlightCommitted
<1>2. \/ strategy = "ttl" /\ OnWriteTTL
      \/ strategy = "write-through" /\ OnWriteThrough(wval[w])
      \/ strategy = "write-behind" /\ OnWriteBehind
  BY Zenon DEF AsideTypeOK, AllStrategies
<1>3. AsideTypeOK'
  <2>1. /\ cache' \in Version \cup {Absent} /\ pending' \in Nat
        /\ excuse' \in {Absent, "late", "lost"}
    BY <1>1, <1>2 DEF OnWriteTTL, OnWriteThrough, OnWriteBehind, CacheSet, Missed, AsideTypeOK
  <2> QED  BY <2>1 DEF AsideTypeOK, WriterAt, reading
<1>4. InFlightCommitted'
  BY DEF AsideTypeOK, InFlightCommitted, WriterAt, reading
<1>5. OnlyCommitted'
  BY <1>1, <1>2 DEF OnWriteTTL, OnWriteThrough, OnWriteBehind, CacheSet, Missed, OnlyCommitted, reading
<1>6. StaleIsExplained'
  BY <1>1, <1>2 DEF OnWriteTTL, OnWriteThrough, OnWriteBehind, CacheSet, Missed, StaleIsExplained, Stale
<1> QED  BY <1>3, <1>4, <1>5, <1>6

-----------------------------------------------------------------------------
\* The delayed delete, expiry and a restart only ever take an entry away, or
\* leave a trace of why it is old.
LEMMA BackgroundKeeps ==
  ASSUME AsideInv, AsyncDelete \/ Expire \/ Restart
  PROVE  AsideInv'
<1> USE CacheAsideAssumption DEF AsideInv
<1>1. CASE AsyncDelete
  <2>1. AsideTypeOK'
    BY <1>1, SMTT(30) DEF AsyncDelete, CacheDelete, Missed, AsideTypeOK, reading, writing
  <2>2. InFlightCommitted' /\ OnlyCommitted'
    BY <1>1 DEF AsyncDelete, CacheDelete, Missed, InFlightCommitted, OnlyCommitted, reading, writing
  <2>3. StaleIsExplained'
    BY <1>1 DEF AsyncDelete, CacheDelete, Missed, StaleIsExplained, Stale
  <2> QED  BY <2>1, <2>2, <2>3, SMTT(30)
<1>2. CASE Expire
  BY <1>2, Zenon DEF Expire, CacheDelete, AsideTypeOK, InFlightCommitted, OnlyCommitted,
        StaleIsExplained, Stale, reading, writing
<1>3. CASE Restart
  BY <1>3, Zenon DEF Restart, CacheDelete, AsideTypeOK, InFlightCommitted, OnlyCommitted,
        StaleIsExplained, Stale
<1> QED  BY <1>1, <1>2, <1>3

\* Every step of the API process keeps the invariant.
LEMMA AsideStep == AsideInv /\ [AsideNext]_asideVars => AsideInv'
<1> SUFFICES ASSUME AsideInv, [AsideNext]_asideVars PROVE AsideInv'  OBVIOUS
<1>1. ASSUME NEW r \in Reader, GetProduct(r) PROVE AsideInv'
  BY <1>1, CacheLookupKeeps, DropCorruptKeeps, ReadKeeps, FillKeeps DEF GetProduct
<1>2. ASSUME NEW w \in Writer, UpdateProduct(w) PROVE AsideInv'
  BY <1>2, UpdateDBKeeps, UpdateFailsKeeps, OnWriteKeeps, SMTT(30) DEF UpdateProduct
<1>3. CASE UNCHANGED asideVars
  BY <1>3, Zenon DEF asideVars, reading, writing, AsideInv, AsideTypeOK, InFlightCommitted, OnlyCommitted,
              StaleIsExplained, Stale
<1> QED  BY <1>1, <1>2, <1>3, CreateKeeps, BackgroundKeeps DEF AsideNext

\* The invariant holds in every reachable state.
THEOREM AsideInvariant == AsideSpec => []AsideInv
<1>1. QED  BY AsideStarts, AsideStep, PTL DEF AsideSpec

\* Every variable of the API process keeps its type, whatever fails.
THEOREM AsideTypeCorrect == AsideSpec => []AsideTypeOK
<1>1. AsideInv => AsideTypeOK  BY DEF AsideInv
<1> QED  BY <1>1, AsideInvariant, PTL

\* middleware.go: no response and no cached product is ahead of the database.
THEOREM OnlyCommittedHolds == AsideSpec => []OnlyCommitted
<1>1. AsideInv => OnlyCommitted  BY DEF AsideInv
<1> QED  BY <1>1, AsideInvariant, PTL

\* A stale entry under write-through or write-behind always has a reason.
THEOREM StaleExplainedHolds == AsideSpec => []StaleIsExplained
<1>1. AsideInv => StaleIsExplained  BY DEF AsideInv
<1> QED  BY <1>1, AsideInvariant, PTL
=============================================================================
