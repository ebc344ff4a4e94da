-------------------------------- MODULE Proxy --------------------------------
(***************************************************************************)
(* internal/proxy: the caching reverse proxy.  Requests for different URLs  *)
(* do not interfere, so there is one URL.  A response is known by when      *)
(* upstream produced it, whether it is a 2xx, and its Cache-Control.        *)
(*                                                                         *)
(* A request is a goroutine of the HTTP server.  pc[c]:                     *)
(*   "idle"      no request                                                 *)
(*   "lookup"    about to read the map (for the attempt-th time)            *)
(*   "check"     has the pointer to an entry, about to call IsExpired       *)
(*   "drop"      found it expired, about to take the write lock             *)
(*   "sent"      forwarded to upstream                                      *)
(*   "handled"   upstream has handled it, the response is on its way        *)
(* Stored responses are never changed, only replaced.                       *)
(***************************************************************************)
EXTENDS Integers, FiniteSets

CONSTANTS Client,
          Methods,     \* of the requests: "GET" reads, "PUT" updates
          None,
          NoHeader,    \* a response without Cache-Control
          NoStore,     \* with no-store, no-cache or private
          MaxAges,     \* with max-age=n for one of these n
          DefaultTTL,  \* 5 minutes
          Timeout,     \* 30 seconds, of the HTTP client
          MaxTime      \* bound on the clock

ASSUME ProxyAssumption ==
  /\ MaxAges \subseteq Int /\ NoHeader \notin Int /\ NoStore \notin Int
  /\ DefaultTTL \in Nat \ {0} /\ Timeout \in Nat /\ MaxTime \in Nat
  /\ Methods \subseteq {"GET", "PUT"}

VARIABLES
  now,      \* the clock
  store,    \* the entry of the URL, or None
  pc, method, attempt, ref,
  sent,     \* sent[c]: when the request was forwarded
  resp,     \* resp[c]: what upstream answered
  answer,   \* answer[c]: what the last request of c was answered
  stored    \* history: was there an entry, expired or not, at c's first lookup?

request == <<pc, method, attempt, ref, sent, resp, answer, stored>>
vars    == <<now, store, request>>

CacheControl == {NoHeader, NoStore} \cup MaxAges
Response == [ok : BOOLEAN, at : Nat, header : CacheControl]
Entry    == [resp : Response, expiresAt : Int \cup {None}, ttl : Int]
Answer   == [kind : {"HIT", "MISS", "502", "503"}, resp : Response \cup {None}, time : Nat]

ASSUME NoneAssumption == None \notin Int /\ None \notin Entry

\* Every variable keeps its type; a request that looks at an entry, or has been
\* handled by upstream, has the entry or the response.
TypeOK ==
  /\ now \in Nat /\ (store = None \/ store \in Entry)
  /\ pc \in [Client -> {"idle", "lookup", "check", "drop", "sent", "handled"}]
  /\ ref \in [Client -> Entry \cup {None}] /\ resp \in [Client -> Response \cup {None}]
  /\ sent \in [Client -> Nat] /\ answer \in [Client -> Answer \cup {None}]
  /\ \A c \in Client : /\ pc[c] \in {"check", "drop"} => ref[c] \in Entry
                       /\ pc[c] = "handled" => resp[c] \in Response

Init ==
  /\ now = 0 /\ store = None
  /\ pc = [c \in Client |-> "idle"] /\ method = [c \in Client |-> None]
  /\ attempt = [c \in Client |-> 0] /\ ref = [c \in Client |-> None]
  /\ sent = [c \in Client |-> 0] /\ resp = [c \in Client |-> None]
  /\ answer = [c \in Client |-> None] /\ stored = [c \in Client |-> FALSE]

Tick == now < MaxTime /\ now' = now + 1 /\ UNCHANGED <<store, request>>

-----------------------------------------------------------------------------
\* CachedHTTPResponse.IsExpired
IsExpired(e) == e.expiresAt # None /\ now > e.expiresAt

\* parseCacheControl, the first result and the second.
shouldCache(h) == h # NoStore /\ h # 0
ttlOf(h)       == IF h = NoHeader THEN DefaultTTL ELSE h

-----------------------------------------------------------------------------
(* ServeHTTP. *)

Begin(c, m) ==
  /\ pc[c] = "idle"
  /\ pc' = [pc EXCEPT ![c] = "lookup"] /\ method' = [method EXCEPT ![c] = m]
  /\ attempt' = [attempt EXCEPT ![c] = 1] /\ answer' = [answer EXCEPT ![c] = None]
  /\ stored' = [stored EXCEPT ![c] = FALSE]
  /\ UNCHANGED <<now, store, ref, sent, resp>>

Ends(c, kind, r) ==
  /\ pc' = [pc EXCEPT ![c] = "idle"]
  /\ answer' = [answer EXCEPT ![c] = [kind |-> kind, resp |-> r, time |-> now]]

\* Nothing in the store: forward the first time, give up the second time.
Miss(c) ==
  /\ IF attempt[c] = 1
       THEN pc' = [pc EXCEPT ![c] = "sent"] /\ sent' = [sent EXCEPT ![c] = now] /\ UNCHANGED answer
       ELSE Ends(c, "503", None) /\ UNCHANGED sent
  /\ ref' = [ref EXCEPT ![c] = None]

\* The key is the URL, whatever the method.
Lookup(c) ==
  /\ pc[c] = "lookup"
  /\ IF store = None THEN Miss(c)
                     ELSE /\ pc' = [pc EXCEPT ![c] = "check"] /\ ref' = [ref EXCEPT ![c] = store]
                          /\ UNCHANGED <<sent, answer>>
  /\ stored' = [stored EXCEPT ![c] = IF attempt[c] = 1 THEN store # None ELSE @]
  /\ UNCHANGED <<now, store, method, attempt, resp>>

Check(c) ==
  /\ pc[c] = "check"
  /\ IF IsExpired(ref[c])
       THEN pc' = [pc EXCEPT ![c] = "drop"] /\ UNCHANGED <<ref, answer>>
       ELSE Ends(c, "HIT", ref[c].resp) /\ ref' = [ref EXCEPT ![c] = None]
  /\ UNCHANGED <<now, store, method, attempt, sent, resp, stored>>

\* Mutant: the map is not looked at again under the write lock.
Drop_NoRecheck(c) ==
  /\ pc[c] = "drop" /\ store' = None /\ Miss(c)
  /\ UNCHANGED <<now, method, attempt, resp, stored>>

Drop(c) ==
  /\ pc[c] = "drop"
  /\ store' = IF store # None /\ IsExpired(store) THEN None ELSE store
  /\ Miss(c)
  /\ UNCHANGED <<now, method, attempt, resp, stored>>

\* Upstream (external) reads or updates the resource, or refuses.
Upstream(c) ==
  /\ pc[c] = "sent"
  /\ \E ok \in BOOLEAN, h \in CacheControl :
       resp' = [resp EXCEPT ![c] = [ok |-> ok, at |-> now, header |-> h]]
  /\ pc' = [pc EXCEPT ![c] = "handled"]
  /\ UNCHANGED <<now, store, method, attempt, ref, sent, answer, stored>>

\* Upstream is unreachable or too slow: look for a stored response again.
ForwardFails(c) ==
  /\ pc[c] \in {"sent", "handled"}
  /\ pc' = [pc EXCEPT ![c] = "lookup"] /\ attempt' = [attempt EXCEPT ![c] = 2]
  /\ resp' = [resp EXCEPT ![c] = None]
  /\ UNCHANGED <<now, store, method, ref, sent, answer, stored>>

\* The body cannot be read.
BodyFails(c) ==
  /\ pc[c] = "handled"
  /\ Ends(c, "502", None) /\ resp' = [resp EXCEPT ![c] = None]
  /\ UNCHANGED <<now, store, method, attempt, ref, sent, stored>>

\* Mutant: the HTTP client has no timeout.
InTime_NoTimeout(c) == pc[c] = "handled"

\* The client's timeout covers the reading of the body.
InTime(c) == pc[c] = "handled" /\ now =< sent[c] + Timeout

\* Mutant: responses are stored whatever their status.
Stored_AnyStatus(r) ==
  IF shouldCache(r.header)
    THEN [resp |-> r, ttl |-> ttlOf(r.header),
          expiresAt |-> IF ttlOf(r.header) > 0 THEN now + ttlOf(r.header) ELSE None]
    ELSE store

\* The entry after response r: only a 2xx that may be cached is stored.
Stored(r) ==
  IF shouldCache(r.header) /\ r.ok
    THEN [resp |-> r, ttl |-> ttlOf(r.header),
          expiresAt |-> IF ttlOf(r.header) > 0 THEN now + ttlOf(r.header) ELSE None]
    ELSE store

Receive(c) ==
  /\ InTime(c)
  /\ store' = Stored(resp[c])
  /\ Ends(c, "MISS", resp[c]) /\ resp' = [resp EXCEPT ![c] = None]
  /\ UNCHANGED <<now, method, attempt, ref, sent, stored>>

ServeHTTP(c) ==
  \/ \E m \in Methods : Begin(c, m)
  \/ Lookup(c) \/ Check(c) \/ Drop(c) \/ Upstream(c) \/ ForwardFails(c)
  \/ BodyFails(c) \/ Receive(c)

Next == Tick \/ \E c \in Client : ServeHTTP(c)

Spec == Init /\ [][Next]_vars

-----------------------------------------------------------------------------
(* Properties. *)

\* A response is served from the store at most its max-age plus one upstream
\* timeout after upstream produced it, even when a slow request stores an old
\* response over a newer one.  A negative max-age is stored without expiry.
AgeBounded ==
  \A c \in Client :
    (answer[c] # None /\ answer[c].kind = "HIT" /\ ttlOf(answer[c].resp.header) > 0) =>
      answer[c].time - answer[c].resp.at =< ttlOf(answer[c].resp.header) + Timeout

\* Whatever requests overlap, errors and responses that upstream forbids to
\* cache (no-store, no-cache, private, max-age=0) are never served from the store.
HitsMayBeCached ==
  \A c \in Client :
    (answer[c] # None /\ answer[c].kind = "HIT") =>
      answer[c].resp.ok /\ answer[c].resp.header \notin {NoStore, 0}

\* ResponseStore.Get deletes only expired entries: one that another request
\* stored between the check and the write lock stays.
DropsOnlyExpired ==
  [][(store # None /\ store' = None) => IsExpired(store)]_vars

-----------------------------------------------------------------------------
(* What comments of the code say, and the code does not do. *)

\* proxy.go: "full URL uniquely identifies the response".  An update that is
\* answered with success has been handled by upstream.
UpdatesReachUpstream ==
  \A c \in Client :
    (answer[c] # None /\ method[c] = "PUT") => answer[c].kind # "HIT"

\* proxy.go: "On upstream timeout - serve stale or return 503".  503 is for a
\* URL of which nothing was stored when the request came.
StaleServedOnFailure ==
  \A c \in Client :
    (answer[c] # None /\ answer[c].kind = "503") => ~stored[c]
=============================================================================
