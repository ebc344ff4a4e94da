------------------------- MODULE InMemoryCacheProofs -------------------------
(****************************************************************************)
(* Proofs about InMemoryCache, for every capacity, every number of keys,    *)
(* values and concurrent Gets, and each of the four eviction policies.      *)
(*                                                                          *)
(* The first part is about Get's reads without the lock, and holds whatever *)
(* the eviction policy answers: they never leave the map with a pointer to  *)
(* nothing (TypeOK) and never return a part of a value that the key did not *)
(* have during the call (HitWasCurrent). The invariant is about the pointer *)
(* that a Get holds between its locked regions: its entry's value is one    *)
(* the key had since the Get began (Current), while the entry is in the map *)
(* and after it has left it. Set can therefore reuse the entry of its own   *)
(* key, and no other.                                                       *)
(*                                                                          *)
(* The second part is about the policy: it tracks exactly the keys of the   *)
(* map (PolicyTracksEntries), so that Evict of a full cache names an entry, *)
(* and the capacity is never exceeded (CapacityRespected). PolicyGood adds  *)
(* what the policies' own structures need: no key is twice in the list of   *)
(* LRU or in the slice of Random, and counters and times are numbers.       *)
(****************************************************************************)
EXTENDS InMemoryCache, SequenceLemmas

\* The types of what a Get keeps between its locked regions.
GetTypes ==
  /\ ref \in [Getter -> Pointer \cup {None}] /\ seen \in [Getter -> SUBSET Value]
  /\ word \in [Getter -> Value \cup {None}]
  /\ out \in [Getter -> (Value \X Value) \cup {None}]

\* The entry a Get points to has a value that its key had since the Get began.
Current(g) == ref[g] # None => Deref(g).value \in seen[g]

\* So has the half of the value that was read first.
HalfRead(g) == pc[g] = "reread" => word[g] \in seen[g]

\* And so have both halves of what Get returned.
Returned(g) == out[g] # None => out[g][1] \in seen[g] /\ out[g][2] \in seen[g]

\* The inductive invariant of the map and the Gets.
CacheInv ==
  /\ TypeOK /\ GetTypes
  /\ \A g \in Getter : Current(g) /\ HalfRead(g) /\ Returned(g)

\* A pointer to an entry in the map, and to one that has left it.
LEMMA PointerTypes ==
  ASSUME TypeOK
  PROVE  /\ \A k \in Key : Live(k) \in Pointer /\ Live(k) # None
         /\ \A k \in Keys : Gone(k) \in Pointer /\ Gone(k) # None /\ Gone(k).entry # None
BY NoneAssumption DEF TypeOK, Live, Gone, Pointer

\* The cache starts empty and no Get is under way.
LEMMA CacheInitOK == Init => CacheInv
<1> SUFFICES ASSUME Init PROVE CacheInv  OBVIOUS
<1>1. TypeOK
  BY CacheAssumption DEF Init, TypeOK, Keys
<1>2. GetTypes
  BY DEF Init, GetTypes
<1>3. \A g \in Getter : Current(g) /\ HalfRead(g) /\ Returned(g)
  BY DEF Init, Current, HalfRead, Returned
<1> QED  BY <1>1, <1>2, <1>3 DEF CacheInv

\* The clock.
LEMMA TickKeeps == CacheInv /\ Tick => CacheInv'
<1> SUFFICES ASSUME CacheInv, Tick PROVE CacheInv'  OBVIOUS
<1>1. UNCHANGED <<policy, entries, pc, ref, word, out, seen>> /\ now' \in 0..MaxTime
  BY CacheAssumption DEF CacheInv, TypeOK, Tick, getVars
<1> QED  BY <1>1 DEF CacheInv, TypeOK, GetTypes, Current, HalfRead, Returned, Keys, Deref

-----------------------------------------------------------------------------
(* Set and Delete. *)

\* What a step of the map must do to the pointers and the histories: the
\* entries that stay are the same but for that of k, whose new value is shown
\* to the Gets that hold a pointer for k; the pointers to entries that leave
\* keep what was in them.
LEMMA MapStepKeeps ==
  ASSUME CacheInv, NEW K, NEW k \in Key, NEW e \in Entry,
         K \subseteq Keys,
         Unmap(K), UNCHANGED <<now, policy, pc, word, out>>,
         \/ Keys' = Keys \ K /\ seen' = seen
            /\ \A j \in Keys' : entries'[j] = entries[j]
         \/ Keys' = (Keys \ K) \cup {k} /\ Show(k, e.value) /\ k \notin K
            /\ entries'[k] = e /\ \A j \in Keys' \ {k} : entries'[j] = entries[j]
  PROVE  CacheInv'
<1> USE DEF CacheInv
<1>1. e.value \in Value
  BY DEF Entry
<1>2. ASSUME NEW g \in Getter
      PROVE  /\ ref'[g] = IF ref[g] # None /\ ref[g].entry = None /\ ref[g].key \in K
                            THEN Gone(ref[g].key) ELSE ref[g]
             /\ seen'[g] = seen[g] \/ seen'[g] = seen[g] \cup {e.value}
             /\ (ref[g] # None /\ ref[g].key = k /\ seen' # seen) => e.value \in seen'[g]
  BY <1>2 DEF Unmap, Show
<1>3. ref' \in [Getter -> Pointer \cup {None}] /\ \A g \in Getter : ref'[g] = None <=> ref[g] = None
  BY <1>2, PointerTypes DEF Unmap, GetTypes
<1>4. seen' \in [Getter -> SUBSET Value]
  BY <1>1 DEF GetTypes, Show
<1>5. TypeOK'
  <2>1. Keys' \subseteq Key /\ \A j \in Keys' : entries'[j] \in Entry
    BY DEF TypeOK
  <2>2. ASSUME NEW g \in Getter, ref'[g] # None, ref'[g].entry = None PROVE ref'[g].key \in Keys'
    <3>1. ref'[g] = ref[g] /\ ref[g].key \in Keys /\ ref[g].key \notin K
      BY <1>2, <1>3, <2>2, PointerTypes DEF TypeOK
    <3> QED  BY <3>1
  <2> QED  BY <1>3, <2>1, <2>2 DEF TypeOK, Keys
<1>6. GetTypes'
  BY <1>3, <1>4 DEF GetTypes
<1>7. ASSUME NEW g \in Getter PROVE HalfRead(g)' /\ Returned(g)'
  BY <1>2, <1>7 DEF HalfRead, Returned
<1>8. ASSUME NEW g \in Getter, ref'[g] # None PROVE Deref(g)'.value \in seen'[g]
  <2>0. ref[g] # None /\ Deref(g).value \in seen[g] /\ seen[g] \subseteq seen'[g]
    BY <1>2, <1>3, <1>8 DEF Current
  <2>1. CASE ref[g].entry = None /\ ref[g].key \in K
    <3>1. ref'[g] = Gone(ref[g].key)
      BY <1>2, <2>0, <2>1
    <3>2. Deref(g)' = entries[ref[g].key] /\ Deref(g) = entries[ref[g].key]
      BY <2>1, <3>1, PointerTypes DEF Deref, Gone
    <3> QED  BY <2>0, <3>2
  <2>2. CASE ref[g].entry # None
    <3>1. Deref(g)' = Deref(g)
      BY <1>2, <2>2 DEF Deref
    <3> QED  BY <2>0, <3>1
  <2>3. CASE ref[g].entry = None /\ ref[g].key \notin K
    <3>1. ref'[g] = ref[g] /\ ref[g].key \in Keys /\ ref[g].key \in Keys'
      BY <1>2, <2>0, <2>3 DEF TypeOK
    <3>2. Deref(g)' = entries'[ref[g].key] /\ Deref(g) = entries[ref[g].key]
      BY <2>3, <3>1 DEF Deref
    <3>3. CASE entries'[ref[g].key] = entries[ref[g].key]
      BY <2>0, <3>2, <3>3
    <3>4. CASE entries'[ref[g].key] # entries[ref[g].key]
      <4>1. ref[g].key = k /\ entries'[k] = e /\ Show(k, e.value)
        BY <3>1, <3>4
      <4>2. e.value \in seen'[g]
        BY <2>0, <4>1 DEF Show
      <4> QED  BY <3>2, <4>1, <4>2
    <3> QED  BY <3>3, <3>4
  <2> QED  BY <2>1, <2>2, <2>3
<1> QED  BY <1>5, <1>6, <1>7, <1>8 DEF Current

\* Set, which overwrites the entry of its key in place or inserts a new one,
\* after evicting what the policy names.
LEMMA SetKeeps ==
  ASSUME CacheInv, NEW k \in Key, NEW v \in Value, NEW ttl \in TTLs, NEW t \in 0..now,
         Set(k, v, ttl, t)
  PROVE  CacheInv'
<1> DEFINE e == [value |-> v, expiresAt |-> t + ttl, ttl |-> ttl]
<1>1. e \in Entry
  BY CacheAssumption DEF CacheInv, TypeOK, Set, Entry
<1>2. (Upsert(k, e) \/ Insert(k, e)) /\ UNCHANGED <<now, policy, pc, word, out>>
  BY DEF Set
<1> HIDE DEF e
<1>3. CASE Upsert(k, e)
  <2>1. Unmap({})
    BY <1>3 DEF Upsert, Unmap, CacheInv, GetTypes
  <2>2. Keys' = (Keys \ {}) \cup {k} /\ entries'[k] = e
        /\ \A j \in Keys' \ {k} : entries'[j] = entries[j]
    BY <1>3 DEF Upsert, With, Keys
  <2>3. Show(k, e.value) /\ {} \subseteq Keys /\ k \notin {}
    BY <1>3 DEF Upsert
  <2> QED  BY <1>1, <1>2, <2>1, <2>2, <2>3, MapStepKeeps
<1>4. CASE Insert(k, e)
  <2>1. PICK victim : /\ entries' = With(Without(entries, victim), k, e)
                      /\ Unmap({victim} \cap Keys)
    BY <1>4 DEF Insert
  <2> DEFINE K == {victim} \cap Keys
  <2>2. Keys' = (Keys \ K) \cup {k} /\ entries'[k] = e
        /\ \A j \in Keys' \ {k} : entries'[j] = entries[j]
    BY <2>1 DEF With, Without, Keys
  <2>3. Show(k, e.value) /\ K \subseteq Keys /\ k \notin K
    BY <1>4 DEF Insert
  <2> HIDE DEF K
  <2>4. Unmap(K)
    BY <2>1 DEF K
  <2> QED  BY <1>1, <1>2, <2>2, <2>3, <2>4, MapStepKeeps
<1> QED  BY <1>2, <1>3, <1>4

\* Delete.
LEMMA DeleteKeeps ==
  ASSUME CacheInv, NEW k \in Key, Delete(k)
  PROVE  CacheInv'
<1>1. Keys' = Keys \ {k} /\ \A j \in Keys' : entries'[j] = entries[j]
  BY DEF Delete, Without, Keys
<1>2. {k} \subseteq Keys /\ Unmap({k}) /\ seen' = seen /\ UNCHANGED <<now, policy, pc, word, out>>
  BY DEF Delete
<1>3. entries[k] \in Entry
  BY <1>2 DEF CacheInv, TypeOK
<1> QED  BY <1>1, <1>2, <1>3, MapStepKeeps

-----------------------------------------------------------------------------
(* Get. *)

\* A Get finds the key, or misses.
LEMMA GetStartKeeps ==
  ASSUME CacheInv, NEW g \in Getter, NEW k \in Key, GetStart(g, k)
  PROVE  CacheInv'
<1> USE DEF CacheInv, GetStart
<1>1. Keys' = Keys /\ entries' = entries /\ now' = now /\ policy' = policy /\ word' = word
  BY DEF Keys
<1>2. CASE k \in Keys
  <2>1. Live(k) \in Pointer /\ Live(k) # None /\ entries[k].value \in Value
    BY <1>2, PointerTypes DEF TypeOK, Entry
  <2>2. TypeOK'
    BY <1>1, <1>2, <2>1 DEF TypeOK, GetTypes, Live
  <2>3. GetTypes'
    BY <1>1, <1>2, <2>1 DEF GetTypes
  <2>4. Current(g)' /\ HalfRead(g)' /\ Returned(g)'
    BY <1>1, <1>2, <2>1 DEF Current, HalfRead, Returned, Deref, Live, GetTypes, TypeOK
  <2>5. ASSUME NEW h \in Getter, h # g PROVE Current(h)' /\ HalfRead(h)' /\ Returned(h)'
    BY <1>1, <1>2, <2>5 DEF Current, HalfRead, Returned, Deref, GetTypes, TypeOK
  <2> QED  BY <2>2, <2>3, <2>4, <2>5
<1>3. CASE k \notin Keys
  <2>1. ref' = ref /\ pc' = pc
    BY <1>3
  <2>2. TypeOK' /\ GetTypes'
    BY <1>1, <1>3, <2>1 DEF TypeOK, GetTypes
  <2>3. Current(g)' /\ HalfRead(g)' /\ Returned(g)'
    BY <1>1, <1>3, <2>1 DEF Current, HalfRead, Returned, GetTypes, TypeOK
  <2>4. ASSUME NEW h \in Getter, h # g PROVE Current(h)' /\ HalfRead(h)' /\ Returned(h)'
    BY <1>1, <1>3, <2>1, <2>4 DEF Current, HalfRead, Returned, Deref, GetTypes, TypeOK
  <2> QED  BY <2>2, <2>3, <2>4
<1> QED  BY <1>2, <1>3

\* The check of the expiry, the call of OnAccess and the read of the first
\* part: the pointer stays.
LEMMA GetMiddleKeeps ==
  ASSUME CacheInv, NEW g \in Getter, GetCheck(g) \/ GetTouch(g) \/ GetRead(g)
  PROVE  CacheInv'
<1> USE DEF CacheInv, GetCheck, GetTouch, GetRead
<1>1. UNCHANGED <<now, policy, entries, ref, out, seen>> /\ Keys' = Keys
  BY DEF Keys
<1>2. Deref(g).value \in seen[g] /\ seen[g] \subseteq Value
  BY DEF TypeOK, Current, GetTypes
<1>3. /\ pc' \in [Getter -> {"idle", "check", "expired", "touch", "read", "reread"}]
      /\ \A h \in Getter : (pc'[h] = "idle" <=> pc[h] = "idle") /\ (h # g => pc'[h] = pc[h])
  BY DEF TypeOK
<1>4. /\ word' \in [Getter -> Value \cup {None}]
      /\ \A h \in Getter : h # g => word'[h] = word[h]
      /\ pc'[g] = "reread" => word'[g] \in seen[g]
  BY <1>2 DEF TypeOK, GetTypes
<1>5. TypeOK' /\ GetTypes'
  BY <1>1, <1>3, <1>4, SMTT(30) DEF TypeOK, GetTypes
<1>6. ASSUME NEW h \in Getter PROVE Current(h)' /\ HalfRead(h)' /\ Returned(h)'
  BY <1>1, <1>3, <1>4 DEF Current, HalfRead, Returned, Deref
<1> QED  BY <1>5, <1>6

\* Lazy expiry: the pointers of other Gets to the entry keep what was in it.
LEMMA GetDropKeeps ==
  ASSUME CacheInv, NEW g \in Getter, GetDropExpired(g)
  PROVE  CacheInv'
<1> DEFINE k    == ref[g].key
           K    == IF k \in Keys /\ IsExpired(entries[k]) THEN {k} ELSE {}
<1> USE DEF CacheInv, GetDropExpired, GetEnds
<1>1. /\ Keys' = Keys \ K /\ K \subseteq Keys
      /\ \A j \in Keys' : entries'[j] = entries[j]
      /\ UNCHANGED <<now, policy>>
  BY SMTT(30) DEF Without, Keys
<1>2. \A h \in Getter :
        ref'[h] = IF h = g THEN None
                  ELSE IF ref[h] = Live(k) /\ k \in K THEN Gone(k) ELSE ref[h]
  BY SMTT(30)
<1>3. /\ ref'[g] = None /\ pc'[g] = "idle" /\ out'[g] = None /\ word'[g] = None /\ seen'[g] = {}
      /\ \A h \in Getter : h # g =>
           pc'[h] = pc[h] /\ word'[h] = word[h] /\ out'[h] = out[h] /\ seen'[h] = seen[h]
  BY SMTT(30) DEF TypeOK, GetTypes
<1>4. \A j \in K : Gone(j) \in Pointer /\ Gone(j) # None /\ Live(j) # None /\ Gone(j).entry # None
  BY <1>1, PointerTypes, SMTT(30) DEF TypeOK
<1>5. GetTypes'
  BY <1>2, <1>4, SMTT(30) DEF GetTypes
<1>6. \A h \in Getter : h # g /\ ref[h] # None /\ ref[h].entry = None =>
        ref[h] = Live(ref[h].key) /\ ref[h].key \in Keys
  BY SMTT(30) DEF GetTypes, TypeOK, Pointer, Live
<1>a. pc' \in [Getter -> {"idle", "check", "expired", "touch", "read", "reread"}]
  BY DEF TypeOK
<1>b. TypeOK /\ GetTypes /\ \A h \in Getter : Current(h) /\ HalfRead(h) /\ Returned(h)
  OBVIOUS
<1> HIDE DEF K, k, CacheInv, GetDropExpired, GetEnds
<1>7. TypeOK'
  <2>2. \A h \in Getter : ref'[h] = None <=> pc'[h] = "idle"
    BY <1>b, <1>2, <1>3, <1>4, PointerTypes DEF TypeOK
  <2>3. ASSUME NEW h \in Getter, ref'[h] # None, ref'[h].entry = None PROVE ref'[h].key \in Keys'
    <3>1. h # g /\ ref'[h] = ref[h] /\ ~(ref[h] = Live(k) /\ k \in K)
      BY <1>2, <1>4, <2>3
    <3>2. ref[h] = Live(ref[h].key) /\ ref[h].key \in Keys
      BY <1>6, <2>3, <3>1
    <3>3. ref[h].key \notin K
      BY <3>1, <3>2 DEF K
    <3> QED  BY <1>1, <3>1, <3>2, <3>3
  <2> QED  BY <1>a, <1>b, <1>1, <2>2, <2>3, SMTT(30) DEF TypeOK, Keys
<1>8. ASSUME NEW h \in Getter PROVE HalfRead(h)' /\ Returned(h)'
  BY <1>b, <1>3 DEF HalfRead, Returned
<1>9. ASSUME NEW h \in Getter, ref'[h] # None PROVE Deref(h)'.value \in seen'[h]
  <2>0. h # g /\ seen'[h] = seen[h] /\ ref[h] # None /\ Deref(h).value \in seen[h]
    BY <1>b, <1>2, <1>3, <1>4, <1>9 DEF Current
  <2>1. CASE ref[h] = Live(k) /\ k \in K
    <3>1. Deref(h)' = entries[k] /\ Deref(h) = entries[k]
      BY <1>2, <1>4, <2>0, <2>1 DEF Deref, Gone, Live
    <3> QED  BY <2>0, <3>1
  <2>2. CASE ~(ref[h] = Live(k) /\ k \in K)
    <3>1. ref'[h] = ref[h]
      BY <1>2, <2>0, <2>2
    <3>2. ref[h].entry = None => ref[h].key \in Keys'
      BY <1>7, <1>9, <3>1 DEF TypeOK, Keys
    <3>3. Deref(h)' = Deref(h)
      BY <1>1, <3>1, <3>2 DEF Deref
    <3> QED  BY <2>0, <3>3
  <2> QED  BY <2>1, <2>2
<1> QED  BY <1>5, <1>7, <1>8, <1>9 DEF Current, CacheInv

\* The second part is read and the value returned.
LEMMA GetReturnKeeps ==
  ASSUME CacheInv, NEW g \in Getter, GetReturn(g)
  PROVE  CacheInv'
<1> USE DEF CacheInv, GetReturn, GetEnds
<1>1. /\ Deref(g).value \in seen[g] /\ word[g] \in seen[g] /\ seen[g] \subseteq Value
  BY DEF TypeOK, Current, HalfRead, GetTypes
<1>2. PICK words \in {<<word[g], Deref(g).value>>, <<Deref(g).value, word[g]>>} : GetEnds(g, words)
  BY Zenon DEF GetReturn
<1>3. words \in Value \X Value /\ words[1] \in seen[g] /\ words[2] \in seen[g]
  BY <1>1
<1>4. UNCHANGED <<now, policy, entries, seen>> /\ Keys' = Keys
  BY DEF Keys
<1>5. /\ pc' = [pc EXCEPT ![g] = "idle"] /\ word' = [word EXCEPT ![g] = None]
      /\ out' = [out EXCEPT ![g] = words] /\ ref' = [ref EXCEPT ![g] = None]
  BY <1>2, Zenon
<1>6. TypeOK'
  BY <1>4, <1>5, SMTT(30) DEF TypeOK, GetTypes
<1>7. GetTypes'
  BY <1>3, <1>4, <1>5 DEF GetTypes
<1>8. Current(g)' /\ HalfRead(g)' /\ Returned(g)'
  BY <1>3, <1>4, <1>5, SMTT(30) DEF Current, HalfRead, Returned, GetTypes, TypeOK
<1>9. ASSUME NEW h \in Getter, h # g PROVE Current(h)' /\ HalfRead(h)' /\ Returned(h)'
  BY <1>4, <1>5, <1>9 DEF Current, HalfRead, Returned, Deref, GetTypes, TypeOK
<1> QED  BY <1>6, <1>7, <1>8, <1>9

-----------------------------------------------------------------------------
\* Every step of the cache keeps CacheInv.
LEMMA CacheStep == CacheInv /\ [Next]_vars => CacheInv'
<1> SUFFICES ASSUME CacheInv, [Next]_vars PROVE CacheInv'  OBVIOUS
<1>1. CASE Tick
  BY <1>1, TickKeeps
<1>2. ASSUME NEW k \in Key, NEW v \in Value, NEW ttl \in TTLs, NEW t \in 0..now, Set(k, v, ttl, t)
      PROVE  CacheInv'
  BY <1>2, SetKeeps
<1>3. ASSUME NEW k \in Key, Delete(k) PROVE CacheInv'
  BY <1>3, DeleteKeeps
<1>4. ASSUME NEW g \in Getter, Get(g) PROVE CacheInv'
  BY <1>4, GetStartKeeps, GetMiddleKeeps, GetDropKeeps, GetReturnKeeps, SMTT(30) DEF Get
<1>5. CASE UNCHANGED vars
  BY <1>5 DEF vars, getVars, CacheInv, TypeOK, GetTypes, Current, HalfRead, Returned, Keys, Deref
<1> QED  BY <1>1, <1>2, <1>3, <1>4, <1>5 DEF Next

\* CacheInv holds in every reachable state.
LEMMA CacheAlways == Spec => []CacheInv
BY CacheInitOK, CacheStep, PTL DEF Spec

\* Every variable keeps its type, and a pointer that a Get holds to an entry
\* of the map always has that entry to point to.
THEOREM CacheTypeCorrect == Spec => []TypeOK
<1>1. CacheInv => TypeOK
  BY DEF CacheInv
<1> QED  BY <1>1, CacheAlways, PTL

\* Every part of a value that Get returns belongs to a value that the key had
\* while that Get ran, although Get reads the entry without the lock.
THEOREM HitWasCurrentHolds == Spec => []HitWasCurrent
<1>1. CacheInv => HitWasCurrent
  BY DEF CacheInv, Returned, HitWasCurrent
<1> QED  BY <1>1, CacheAlways, PTL
-----------------------------------------------------------------------------
(* The eviction policies. *)

\* LRU takes the node of a key out of its list.
LEMMA NodeRemoved ==
  ASSUME NEW S, NEW s \in Seq(S), Distinct(s), NEW k \in Range(s)
  PROVE  LET t == removeNode(s, place(s, k)) IN
         t \in Seq(S) /\ Distinct(t) /\ Range(t) = Range(s) \ {k}
<1>1. PICK i \in 1..Len(s) : s[i] = k
  BY DEF Range
<1>2. place(s, k) = i
  BY <1>1 DEF place, Distinct
<1>3. removeNode(s, place(s, k)) = Cut(s, i)
  BY <1>2 DEF removeNode, Cut
<1> QED  BY <1>1, <1>3, CutSet

\* Random.OnEvict: the last key takes the place of the evicted one.
LEMMA RandomSet ==
  ASSUME NEW S, NEW s \in Seq(S), Distinct(s), NEW k \in Range(s)
  PROVE  LET t == randomOnEvict(s, k) IN
         t \in Seq(S) /\ Distinct(t) /\ Range(t) = Range(s) \ {k}
<1> DEFINE t == randomOnEvict(s, k)
<1>1. PICK i \in 1..Len(s) : s[i] = k
  BY DEF Range
<1> DEFINE r == [s EXCEPT ![i] = s[Len(s)]]
<1>0. place(s, k) = i
  BY <1>1 DEF place, Distinct
<1>2. t = SubSeq(r, 1, Len(s) - 1)
  BY <1>0 DEF randomOnEvict
<1>3. Len(s) \in Nat \ {0} /\ r \in Seq(S) /\ Len(r) = Len(s)
      /\ \A j \in 1..Len(s) : r[j] = IF j = i THEN s[Len(s)] ELSE s[j]
  OBVIOUS
<1> HIDE DEF r
<1>4. /\ t \in Seq(S) /\ Len(t) = Len(s) - 1
      /\ \A j \in 1..Len(t) : t[j] = IF j = i THEN s[Len(s)] ELSE s[j]
  BY <1>2, <1>3, SMTT(30)
<1> HIDE DEF t
<1>5. Distinct(t)
  <2> SUFFICES ASSUME NEW a \in 1..Len(t), NEW b \in 1..Len(t), t[a] = t[b] PROVE a = b
    BY DEF Distinct
  <2>1. a \in 1..Len(s) /\ b \in 1..Len(s) /\ a # Len(s) /\ b # Len(s) /\ Len(s) \in 1..Len(s)
    BY <1>3, <1>4
  <2> QED  BY <1>4, <2>1 DEF Distinct
<1>6. ASSUME NEW x \in Range(t) PROVE x \in Range(s) \ {k}
  <2>1. PICK j \in 1..Len(t) : x = t[j]
    BY <1>4 DEF Range
  <2>2. PICK m \in 1..Len(s) : m # i /\ x = s[m]
    <3>1. j \in 1..Len(s) /\ j # Len(s) /\ Len(s) \in 1..Len(s)
      BY <1>3, <1>4
    <3>2. CASE j = i
      BY <1>4, <2>1, <3>1, <3>2
    <3>3. CASE j # i
      BY <1>4, <2>1, <3>1, <3>3
    <3> QED  BY <3>2, <3>3
  <2> QED  BY <1>1, <2>2 DEF Range, Distinct
<1>7. ASSUME NEW x \in Range(s) \ {k} PROVE x \in Range(t)
  <2>1. PICK m \in 1..Len(s) : x = s[m] /\ m # i
    BY <1>1 DEF Range
  <2>2. \E j \in 1..Len(t) : x = t[j]
    <3>1. CASE m < Len(s)
      <4>1. m \in 1..Len(t) /\ t[m] = s[m]
        BY <1>4, <2>1, <3>1
      <4> QED  BY <2>1, <4>1
    <3>2. CASE m = Len(s)
      <4>1. i \in 1..Len(t) /\ t[i] = s[m]
        BY <1>3, <1>4, <2>1, <3>2
      <4> QED  BY <2>1, <4>1
    <3> QED  BY <2>1, <3>1, <3>2
  <2> QED  BY <1>4, <2>2 DEF Range
<1> QED  BY <1>4, <1>5, <1>6, <1>7 DEF t

-----------------------------------------------------------------------------
(* The policies. *)

\* No key is twice in a list or slice; counters and times are numbers.
PolicyGood(p, s) ==
  /\ p \in {"lru", "random"} => s \in Seq(Key) /\ Distinct(s)
  /\ p = "lfu" => \A k \in DOMAIN s : s[k].freq \in Nat /\ s[k].accessedAt \in Nat
  /\ p = "ttl" => \A k \in DOMAIN s : s[k] \in Nat

\* An access reorders what is tracked and nothing else.
LEMMA OnAccessTracks ==
  ASSUME NEW p \in Policies, NEW s, PolicyGood(p, s), NEW k \in Key, NEW t \in Nat
  PROVE  /\ PolicyGood(p, OnAccess(p, s, k, t))
         /\ Tracked(p, OnAccess(p, s, k, t)) = Tracked(p, s)
<1>1. CASE p = "lru"
  <2>0. s \in Seq(Key) /\ Distinct(s) /\ OnAccess(p, s, k, t) = lruOnAccess(s, k)
    BY <1>1 DEF PolicyGood, OnAccess
  <2>1. CASE k \in Range(s)
    <3> DEFINE r == removeNode(s, place(s, k))
    <3>2. r \in Seq(Key) /\ Distinct(r) /\ Range(r) = Range(s) \ {k}
      BY <2>0, <2>1, NodeRemoved
    <3> HIDE DEF r
    <3>3. <<k>> \o r \in Seq(Key) /\ Distinct(<<k>> \o r) /\ Range(<<k>> \o r) = Range(r) \cup {k}
      BY <3>2, ConsSet
    <3>4. OnAccess(p, s, k, t) = <<k>> \o r
      BY <2>0, <2>1 DEF lruOnAccess, r
    <3> QED  BY <1>1, <2>1, <3>2, <3>3, <3>4, Zenon DEF PolicyGood, Tracked
  <2>2. CASE k \notin Range(s)
    BY <2>0, <2>2 DEF lruOnAccess
  <2> QED  BY <2>1, <2>2
<1>2. CASE p = "lfu"
  <2>0. OnAccess(p, s, k, t) = lfuOnAccess(s, k, t) /\ Tracked(p, s) = DOMAIN s
        /\ \A j \in DOMAIN s : s[j].freq \in Nat /\ s[j].accessedAt \in Nat
    BY <1>2 DEF PolicyGood, OnAccess, Tracked
  <2>1. CASE k \in DOMAIN s
    <3> DEFINE r == [freq |-> s[k].freq + 1, accessedAt |-> t]
               f == [j \in DOMAIN s \cup {k} |-> IF j = k THEN r ELSE s[j]]
    <3>1. OnAccess(p, s, k, t) = f
      BY <2>0, <2>1 DEF lfuOnAccess, With
    <3>2. r.freq \in Nat /\ r.accessedAt \in Nat
      BY <2>0, <2>1
    <3> HIDE DEF r
    <3>3. DOMAIN f = DOMAIN s /\ \A j \in DOMAIN s : f[j].freq \in Nat /\ f[j].accessedAt \in Nat
      BY <2>0, <2>1, <3>2
    <3> HIDE DEF f
    <3> QED  BY <1>2, <2>0, <3>1, <3>3 DEF PolicyGood, Tracked
  <2>2. CASE k \notin DOMAIN s
    BY <2>0, <2>2 DEF lfuOnAccess
  <2> QED  BY <2>1, <2>2
<1>3. CASE p \in {"ttl", "random"}
  BY <1>3 DEF OnAccess
<1> QED  BY <1>1, <1>2, <1>3 DEF Policies

\* An insertion tracks one key more.
LEMMA OnInsertTracks ==
  ASSUME NEW p \in Policies, NEW s, PolicyGood(p, s), NEW k \in Key, k \notin Tracked(p, s),
         NEW x \in Nat, NEW t \in Nat
  PROVE  /\ PolicyGood(p, OnInsert(p, s, k, x, t))
         /\ Tracked(p, OnInsert(p, s, k, x, t)) = Tracked(p, s) \cup {k}
<1>1. CASE p = "lru"
  BY <1>1, ConsSet DEF PolicyGood, OnInsert, lruOnInsert, Tracked
<1>2. CASE p = "random"
  BY <1>2, AppendSet DEF PolicyGood, OnInsert, Tracked
<1>3. CASE p = "lfu"
  BY <1>3 DEF PolicyGood, OnInsert, lfuOnInsert, With, Tracked
<1>4. CASE p = "ttl"
  BY <1>4 DEF PolicyGood, OnInsert, ttlOnInsert, With, Tracked
<1> QED  BY <1>1, <1>2, <1>3, <1>4 DEF Policies

\* OnEvict forgets the key, and no other.
LEMMA OnEvictTracks ==
  ASSUME NEW p \in Policies, NEW s, PolicyGood(p, s), NEW k \in Tracked(p, s)
  PROVE  /\ PolicyGood(p, OnEvict(p, s, k))
         /\ Tracked(p, OnEvict(p, s, k)) = Tracked(p, s) \ {k}
<1>1. CASE p = "lru"
  BY <1>1, NodeRemoved DEF PolicyGood, OnEvict, lruOnEvict, Tracked
<1>2. CASE p = "random"
  BY <1>2, RandomSet DEF PolicyGood, OnEvict, Tracked
<1>3. CASE p \in {"lfu", "ttl"}
  BY <1>3 DEF PolicyGood, OnEvict, Without, Tracked
<1> QED  BY <1>1, <1>2, <1>3 DEF Policies

\* The policy names a key that it tracks, and finds one when there is one.
LEMMA EvictNames ==
  ASSUME NEW p \in Policies, NEW s, PolicyGood(p, s)
  PROVE  /\ Evict(p, s) \subseteq Tracked(p, s)
         /\ Tracked(p, s) # {} => Evict(p, s) # {}
<1>1. CASE p = "lru"
  <2>0. s \in Seq(Key) /\ Evict(p, s) = IF s = << >> THEN {} ELSE {s[Len(s)]}
    BY <1>1 DEF PolicyGood, Evict, lruEvict
  <2>1. CASE s = << >>
    BY <1>1, <2>0, <2>1 DEF Tracked, Range
  <2>2. CASE s # << >>
    <3>1. Len(s) \in 1..Len(s)
      BY <2>0, <2>2
    <3>2. s[Len(s)] \in Range(s)
      BY <2>0, <3>1 DEF Range
    <3>3. Tracked(p, s) = Range(s) /\ Evict(p, s) = {s[Len(s)]}
      BY <1>1, <2>0, <2>2 DEF Tracked
    <3> QED  BY <3>2, <3>3
  <2> QED  BY <2>1, <2>2
<1>2. CASE p = "random"
  BY <1>2 DEF Evict, Tracked
<1>3. CASE p = "ttl"
  <2>1. Evict(p, s) = {k \in DOMAIN s : \A j \in DOMAIN s : ~(s[j] < s[k])} /\ Tracked(p, s) = DOMAIN s
    BY <1>3 DEF Evict, ttlEvict, Tracked
  <2>2. ASSUME DOMAIN s # {} PROVE Evict(p, s) # {}
    <3>1. {s[k] : k \in DOMAIN s} \in SUBSET Nat /\ {s[k] : k \in DOMAIN s} # {}
      BY <1>3, <2>2 DEF PolicyGood
    <3>2. PICK x \in {s[k] : k \in DOMAIN s} : \A y \in {s[k] : k \in DOMAIN s} : x =< y
      BY <3>1, LeastExists, Zenon
    <3>3. PICK k \in DOMAIN s : x = s[k]
      OBVIOUS
    <3>4. \A j \in DOMAIN s : ~(s[j] < s[k])
      BY <1>3, <3>2, <3>3 DEF PolicyGood
    <3> QED  BY <2>1, <3>4
  <2> QED  BY <2>1, <2>2
<1>4. CASE p = "lfu"
  <2>1. Evict(p, s) = {k \in DOMAIN s : \A j \in DOMAIN s : ~lfuLess(s[j], s[k])} /\ Tracked(p, s) = DOMAIN s
    BY <1>4 DEF Evict, lfuEvict, Tracked
  <2>2. ASSUME DOMAIN s # {} PROVE Evict(p, s) # {}
    <3> DEFINE F == {s[k].freq : k \in DOMAIN s}
    <3>1. F \in SUBSET Nat /\ F # {}
      BY <1>4, <2>2 DEF PolicyGood
    <3>2. PICK x \in F : \A y \in F : x =< y
      BY <3>1, LeastExists, Zenon
    <3> DEFINE A == {s[k].accessedAt : k \in {j \in DOMAIN s : s[j].freq = x}}
    <3>3. A \in SUBSET Nat /\ A # {}
      BY <1>4 DEF PolicyGood
    <3>4. PICK a \in A : \A y \in A : a =< y
      BY <3>3, LeastExists, Zenon
    <3>5. PICK k \in DOMAIN s : s[k].freq = x /\ s[k].accessedAt = a
      OBVIOUS
    <3>6. ASSUME NEW j \in DOMAIN s PROVE ~lfuLess(s[j], s[k])
      <4>1. x \in Nat /\ a \in Nat /\ s[j].freq \in Nat /\ s[j].accessedAt \in Nat /\ x =< s[j].freq
        BY <1>4, <3>1, <3>2, <3>3 DEF PolicyGood
      <4>2. s[j].freq = x => a =< s[j].accessedAt
        BY <3>4
      <4> QED  BY <3>5, <4>1, <4>2 DEF lfuLess
    <3> QED  BY <2>1, <3>6
  <2> QED  BY <2>1, <2>2
<1> QED  BY <1>1, <1>2, <1>3, <1>4 DEF Policies
-----------------------------------------------------------------------------
(* The map and the policy. *)

\* The inductive invariant of the map with its policy.
PolicyInv ==
  /\ CacheInv
  /\ PolicyGood(policy, st) /\ Tracked(policy, st) = Keys
  /\ IsFiniteSet(Keys) /\ Cardinality(Keys) =< Capacity

\* Both start empty.
LEMMA PolicyInitOK == Init => PolicyInv
<1> SUFFICES ASSUME Init PROVE PolicyInv  OBVIOUS
<1>1. Keys = {} /\ st = << >> /\ policy \in Policies
  BY CacheAssumption DEF Init, Keys, NewPolicy
<1>2. PolicyGood(policy, st)
  BY <1>1 DEF PolicyGood, Distinct
<1>3. Tracked(policy, st) = {}
  BY <1>1 DEF Tracked, Range
<1>4. IsFiniteSet(Keys) /\ Cardinality(Keys) =< Capacity
  BY <1>1, FS_EmptySet, CacheAssumption
<1> QED  BY <1>1, <1>2, <1>3, <1>4, CacheInitOK DEF PolicyInv

\* A key leaves the map and the policy at once, by Delete or by lazy expiry.
LEMMA RemovalTracks ==
  ASSUME PolicyInv, NEW k \in Keys, policy' = policy,
         entries' = Without(entries, k), st' = OnEvict(policy, st, k)
  PROVE  /\ PolicyGood(policy, st)' /\ Tracked(policy, st)' = Keys'
         /\ IsFiniteSet(Keys') /\ Cardinality(Keys') =< Capacity
<1>1. Keys' = Keys \ {k}
  BY DEF Keys, Without
<1>2. policy \in Policies
  BY CacheAssumption DEF PolicyInv, CacheInv, TypeOK
<1>3. PolicyGood(policy, st)' /\ Tracked(policy, st)' = Keys \ {k}
  BY <1>2, OnEvictTracks DEF PolicyInv
<1>4. IsFiniteSet(Keys') /\ Cardinality(Keys') = Cardinality(Keys) - 1
  BY <1>1, FS_RemoveElement DEF PolicyInv
<1>5. Cardinality(Keys) \in Nat
  BY FS_CardinalityType DEF PolicyInv
<1> QED  BY <1>1, <1>3, <1>4, <1>5, CacheAssumption DEF PolicyInv

\* OnAccess is called for any key, in the map or no longer there.
LEMMA AccessTracks ==
  ASSUME PolicyInv, NEW k \in Key, policy' = policy, Keys' = Keys,
         st' = OnAccess(policy, st, k, now)
  PROVE  /\ PolicyGood(policy, st)' /\ Tracked(policy, st)' = Keys'
         /\ IsFiniteSet(Keys') /\ Cardinality(Keys') =< Capacity
<1>1. policy \in Policies /\ now \in Nat
  BY CacheAssumption DEF PolicyInv, CacheInv, TypeOK
<1> QED  BY <1>1, OnAccessTracks DEF PolicyInv

\* Set makes room before it inserts: at capacity the map is not empty, so the
\* policy names a victim, and the victim is a key of the map.
LEMMA InsertTracks ==
  ASSUME PolicyInv, NEW k \in Key, NEW e \in Entry, Insert(k, e), policy' = policy
  PROVE  /\ PolicyGood(policy, st)' /\ Tracked(policy, st)' = Keys'
         /\ IsFiniteSet(Keys') /\ Cardinality(Keys') =< Capacity
<1>0. /\ policy \in Policies /\ now \in Nat /\ Keys \subseteq Key /\ e.expiresAt \in Nat
      /\ Cardinality(Keys) \in Nat /\ Capacity \in Nat \ {0} /\ None \notin Key /\ k \notin Keys
  <2>1. policy \in Policies /\ now \in Nat /\ Keys \subseteq Key
    BY CacheAssumption DEF PolicyInv, CacheInv, TypeOK
  <2>2. e.expiresAt \in Nat /\ k \notin Keys
    BY DEF Entry, Insert
  <2>3. Cardinality(Keys) \in Nat
    BY FS_CardinalityType DEF PolicyInv
  <2>4. Capacity \in Nat \ {0} /\ None \notin Key
    BY CacheAssumption
  <2> QED  BY <2>1, <2>2, <2>3, <2>4
<1>1. PICK victim \in Victims :
        /\ entries' = With(Without(entries, victim), k, e)
        /\ st' = OnInsert(policy, IF victim = None THEN st ELSE OnEvict(policy, st, victim),
                          k, e.expiresAt, now)
  BY DEF Insert
<1> DEFINE st1 == IF victim = None THEN st ELSE OnEvict(policy, st, victim)
           K   == Keys \ {victim}
<1>2. /\ PolicyGood(policy, st1) /\ Tracked(policy, st1) = K
      /\ IsFiniteSet(K) /\ Cardinality(K) \in Nat /\ Cardinality(K) < Capacity
  <2>1. CASE Cardinality(Keys) >= Capacity
    <3>1. Keys # {}
      BY <1>0, <2>1, FS_EmptySet
    <3>2. Evict(policy, st) # {} /\ Evict(policy, st) \subseteq Keys
      BY <1>0, <3>1, EvictNames DEF PolicyInv
    <3>3. victim \in Keys /\ victim # None
      BY <1>0, <2>1, <3>2 DEF Victims
    <3>4. PolicyGood(policy, st1) /\ Tracked(policy, st1) = K
      BY <1>0, <3>3, OnEvictTracks DEF PolicyInv
    <3>5. IsFiniteSet(K) /\ Cardinality(K) = Cardinality(Keys) - 1
      BY <3>3, FS_RemoveElement, Zenon DEF PolicyInv
    <3>6. Cardinality(K) \in Nat
      BY <3>5, FS_CardinalityType
    <3> QED  BY <1>0, <3>4, <3>5, <3>6 DEF PolicyInv
  <2>2. CASE ~(Cardinality(Keys) >= Capacity)
    <3>1. victim = None
      BY <2>2 DEF Victims
    <3>2. K = Keys
      BY <1>0, <3>1
    <3> QED  BY <1>0, <2>2, <3>1, <3>2 DEF PolicyInv
  <2> QED  BY <2>1, <2>2
<1>3. Keys' = K \cup {k}
  BY <1>1 DEF Keys, With, Without
<1>4. st' = OnInsert(policy, st1, k, e.expiresAt, now) /\ k \notin K
  BY <1>0, <1>1
<1> HIDE DEF st1, K
<1>5. PolicyGood(policy, st)' /\ Tracked(policy, st)' = K \cup {k}
  BY <1>0, <1>2, <1>4, OnInsertTracks
<1>6. IsFiniteSet(Keys') /\ Cardinality(Keys') = Cardinality(K) + 1
  BY <1>2, <1>3, <1>4, FS_AddElement
<1> QED  BY <1>0, <1>2, <1>3, <1>5, <1>6

\* Every step keeps the map and the policy in agreement, and within capacity.
LEMMA PolicyStep == PolicyInv /\ [Next]_vars => PolicyInv'
<1> SUFFICES ASSUME PolicyInv, [Next]_vars PROVE PolicyInv'  OBVIOUS
<1> DEFINE Agree == /\ PolicyGood(policy, st)' /\ Tracked(policy, st)' = Keys'
                    /\ IsFiniteSet(Keys') /\ Cardinality(Keys') =< Capacity
<1>0. CacheInv'
  BY CacheStep DEF PolicyInv
<1>1. ASSUME UNCHANGED <<policy, st, entries>> PROVE Agree
  BY <1>1 DEF PolicyInv, Keys
<1>2. ASSUME NEW k \in Key, NEW v \in Value, NEW ttl \in TTLs, NEW t \in 0..now, Set(k, v, ttl, t)
      PROVE  Agree
  <2> DEFINE e == [value |-> v, expiresAt |-> t + ttl, ttl |-> ttl]
  <2>1. e \in Entry
    <3>1. now \in Nat /\ ttl \in 0..MaxTTL
      BY <1>2, CacheAssumption DEF PolicyInv, CacheInv, TypeOK, Set
    <3>2. t + ttl \in Nat
      BY <3>1
    <3> QED  BY <3>1, <3>2, SMTT(30) DEF Entry
  <2>2. (Upsert(k, e) \/ Insert(k, e)) /\ policy' = policy
    BY <1>2 DEF Set
  <2> HIDE DEF e
  <2>3. CASE Upsert(k, e)
    <3>1. Keys' = Keys /\ st' = OnAccess(policy, st, k, now)
      BY <2>3 DEF Upsert, With, Keys
    <3> QED  BY <2>2, <3>1, AccessTracks
  <2>4. CASE Insert(k, e)
    BY <2>1, <2>2, <2>4, InsertTracks
  <2> QED  BY <2>2, <2>3, <2>4
<1>3. ASSUME NEW k \in Key, Delete(k) PROVE Agree
  BY <1>3, RemovalTracks, SMTT(30) DEF Delete
<1>4. ASSUME NEW g \in Getter, GetDropExpired(g) PROVE Agree
  <2>1. CASE ref[g].key \in Keys /\ IsExpired(entries[ref[g].key])
    BY <1>4, <2>1, RemovalTracks, Zenon DEF GetDropExpired, GetEnds
  <2>2. CASE ~(ref[g].key \in Keys /\ IsExpired(entries[ref[g].key]))
    BY <1>1, <1>4, <2>2, Zenon DEF GetDropExpired, GetEnds
  <2> QED  BY <2>1, <2>2
<1>5. ASSUME NEW g \in Getter, GetTouch(g) PROVE Agree
  <2>1. ref[g].key \in Key
    BY <1>5, Zenon DEF GetTouch, PolicyInv, CacheInv, TypeOK, GetTypes, Pointer
  <2>2. policy' = policy /\ Keys' = Keys /\ st' = OnAccess(policy, st, ref[g].key, now)
    BY <1>5 DEF GetTouch, Keys
  <2> QED  BY <2>1, <2>2, AccessTracks
<1>6. ASSUME NEW g \in Getter,
             (\E k \in Key : GetStart(g, k)) \/ GetCheck(g) \/ GetRead(g) \/ GetReturn(g)
      PROVE  Agree
  <2>1. UNCHANGED <<policy, st, entries>>
    BY <1>6, Zenon DEF GetStart, GetCheck, GetRead, GetReturn, GetEnds
  <2> QED  BY <1>1, <2>1
<1>7. ASSUME Tick \/ UNCHANGED vars PROVE Agree
  <2>1. UNCHANGED <<policy, st, entries>>
    BY <1>7 DEF Tick, vars
  <2> QED  BY <1>1, <2>1
<1> HIDE DEF Agree
<1>8. ASSUME NEW g \in Getter, Get(g) PROVE Agree
  BY <1>4, <1>5, <1>6, <1>8 DEF Get
<1>9. Agree
  BY <1>2, <1>3, <1>7, <1>8 DEF Next
<1> QED  BY <1>0, <1>9 DEF PolicyInv, Agree

\* The map and the policy agree in every reachable state.
LEMMA PolicyAlways == Spec => []PolicyInv
BY PolicyInitOK, PolicyStep, PTL DEF Spec

\* The map never outgrows its capacity, whatever Gets are under way.
THEOREM CapacityHolds == Spec => []CapacityRespected
<1>1. PolicyInv => CapacityRespected
  BY DEF PolicyInv, CapacityRespected
<1> QED  BY <1>1, PolicyAlways, PTL

\* The policy follows exactly the keys in the map, each once, although Get
\* calls OnAccess for keys that have left it.
THEOREM PolicyTracksHolds == Spec => []PolicyTracksEntries
<1>1. PolicyInv => PolicyTracksEntries
  <2> SUFFICES ASSUME PolicyInv PROVE PolicyTracksEntries  OBVIOUS
  <2>1. Tracked(policy, st) = Keys
    BY DEF PolicyInv
  <2>2. ASSUME policy \in {"lru", "random"} PROVE Len(st) = Cardinality(Keys)
    <3>1. st \in Seq(Key) /\ Distinct(st) /\ Range(st) = Keys
      BY <2>1, <2>2 DEF PolicyInv, PolicyGood, Tracked
    <3> QED  BY <3>1, LenIsCardinality
  <2> QED  BY <2>1, <2>2 DEF PolicyTracksEntries
<1> QED  BY <1>1, PolicyAlways, PTL

\* Lazy expiry removes only expired entries: GetDropExpired looks at the map
\* again under the write lock.
THEOREM DropsOnlyExpiredHolds == Spec => DropsOnlyExpired
<1>1. ASSUME NEW g \in Getter, GetDropExpired(g)
      PROVE  \A k \in Keys \ DOMAIN entries' : IsExpired(entries[k])
  BY <1>1 DEF GetDropExpired, Without, Keys
<1>2. [Next]_vars => [\A g \in Getter : GetDropExpired(g)
                        => \A k \in Keys \ DOMAIN entries' : IsExpired(entries[k])]_vars
  BY <1>1
<1> QED  BY <1>2, PTL DEF Spec, DropsOnlyExpired
====
