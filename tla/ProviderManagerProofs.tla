----------------------- MODULE ProviderManagerProofs -----------------------
(***************************************************************************)
(* Theorems about ProviderManager, for any keys, providers, validity,      *)
(* cache size and combination of failing datastore operations.  GCInv is   *)
(* the invariant that relates the snapshot a round walks to the disk.      *)
(***************************************************************************)
EXTENDS ProviderManager, TLAPS

\* A time, or none.
MaybeTime == Times \cup {NoTime}

\* The providers cacheAdd leaves in the cache were there or are the ones added.
LEMMA CacheAddFacts ==
    ASSUME cache \in [Keys -> [Provs -> MaybeTime]],
           NEW k \in Keys, NEW pst \in [Provs -> MaybeTime],
           NEW c \in cacheAdd(k, pst)
    PROVE  /\ c \in [Keys -> [Provs -> MaybeTime]]
           /\ \A j \in Keys : c[j] = NoProvs \/ c[j] = cache[j] \/ (j = k /\ c[j] = pst)
           /\ c[k] = pst \/ c = cache
<1>0. NoProvs \in [Provs -> MaybeTime]
    BY DEF NoProvs, MaybeTime
<1>1. CASE pst = NoProvs
    BY <1>1 DEF cacheAdd
<1>2. CASE pst # NoProvs
  <2>1. PICK out : c = [j \in Keys |-> IF j = k THEN pst ELSE IF j = out THEN NoProvs ELSE cache[j]]
    BY <1>2 DEF cacheAdd
  <2> QED
    BY <1>0, <2>1
<1> QED
    BY <1>1, <1>2

\* A loaded set has types, and only records that are on the disk and unexpired.
LEMMA LoadedFacts ==
    ASSUME TypeOK, NEW k \in Keys, NEW unread
    PROVE  /\ loaded(k, unread) \in [Provs -> MaybeTime]
           /\ \A p \in Provs : ~Expired(loaded(k, unread)[p], now)
           /\ \A p \in Provs : p \notin unread /\ ~Expired(dstore[k][p], now)
                                  => loaded(k, unread)[p] = dstore[k][p]
           /\ \A p \in Provs : loaded(k, unread)[p] \in {NoTime, dstore[k][p]}
    BY DEF loaded, TypeOK, MaybeTime, Expired

\* How GetProviders changes the disk: some expired records go.
LEMMA GetFacts ==
    ASSUME TypeOK, NEW k \in Keys, GetProviders(k)
    PROVE  /\ dstore' \in [Keys -> [Provs -> MaybeTime]]
           /\ \A j \in Keys, p \in Provs :
                 \/ dstore'[j][p] = dstore[j][p]
                 \/ j = k /\ Expired(dstore[j][p], now) /\ dstore'[j][p] = NoTime
           /\ \E unread : /\ "read" \notin Failures => unread = {}
                          /\ cache' \in cacheAdd(k, loaded(k, unread))
<1>1. PICK unread \in (IF "read" \in Failures THEN SUBSET Provs ELSE {{}}),
           kept \in (IF "delete" \in Failures THEN SUBSET Provs ELSE {{}}) :
         /\ cache' \in cacheAdd(k, loaded(k, unread))
         /\ dstore' = [dstore EXCEPT ![k] =
                [p \in Provs |-> IF p \notin unread \cup kept /\ Expired(@[p], now)
                                 THEN NoTime ELSE @[p]]]
    BY DEF GetProviders
<1>2. "read" \notin Failures => unread = {}
    BY <1>1
<1> QED
    BY <1>1, <1>2 DEF TypeOK, MaybeTime
-----------------------------------------------------------------------------
\* The initial state has the types and satisfies GCInv.
LEMMA InitOK == Init => TypeOK /\ GCInv
<1> SUFFICES ASSUME Init PROVE TypeOK /\ GCInv
    OBVIOUS
<1> USE ProviderAssumption DEF ProviderAssumption
<1>1. NoProvs \in [Provs -> Times \cup {NoTime}] /\ 0 \in Times
    BY DEF NoProvs, Times
<1>2. TypeOK
    BY <1>1 DEF Init, TypeOK
<1>3. \A k \in Keys, p \in Provs : dstore[k][p] = NoTime
    BY DEF Init, NoProvs
<1>4. GCInv
    BY <1>3 DEF Init, GCInv
<1> QED
    BY <1>2, <1>4

\* Every step keeps the types.
LEMMA TypeNext == TypeOK /\ GCInv /\ [Next]_vars => TypeOK'
<1> SUFFICES ASSUME TypeOK, GCInv, [Next]_vars PROVE TypeOK'
    OBVIOUS
<1> USE ProviderAssumption DEF ProviderAssumption
<1>0. now \in Times /\ NoProvs \in [Provs -> Times \cup {NoTime}]
    BY DEF TypeOK, NoProvs
<1>1. ASSUME NEW k \in Keys, NEW p \in Provs, AddProvider(k, p) PROVE TypeOK'
    BY <1>0, <1>1 DEF AddProvider, setVal, TypeOK
<1>2. ASSUME NEW k \in Keys, NEW p \in Provs, AddProviderFails(k, p) PROVE TypeOK'
    BY <1>0, <1>2 DEF AddProviderFails, setVal, TypeOK, gcVars
<1>3. ASSUME NEW k \in Keys, NEW p \in Provs, CollectExpired(k, p) PROVE TypeOK'
    BY <1>3 DEF CollectExpired, TypeOK
<1>4. ASSUME NEW k \in Keys, NEW p \in Provs, PassOver(k, p) PROVE TypeOK'
    BY <1>4 DEF PassOver, TypeOK
<1>5. ASSUME NEW k \in Keys, GetProviders(k) PROVE TypeOK'
  <2>1. cache \in [Keys -> [Provs -> MaybeTime]]
    BY DEF TypeOK, MaybeTime
  <2>2. cache' \in [Keys -> [Provs -> MaybeTime]]
    BY <1>5, <2>1, GetFacts, LoadedFacts, CacheAddFacts
  <2>3. dstore' \in [Keys -> [Provs -> MaybeTime]]
    BY <1>5, GetFacts
  <2> QED
    BY <1>5, <2>2, <2>3 DEF GetProviders, TypeOK, MaybeTime, gcVars
<1>6. CASE StartGC
  <2>1. gcQuery' \subseteq Keys \X Provs \X Times
    BY <1>6 DEF StartGC, TypeOK
  <2> QED
    BY <1>0, <1>6, <2>1 DEF StartGC, TypeOK
<1>7. CASE StartGCFails
    BY <1>0, <1>7 DEF StartGCFails, TypeOK
<1>8. CASE EndGC
    BY <1>8 DEF EndGC, TypeOK
<1>9. CASE Tick
    BY <1>9 DEF Tick, TypeOK, Times, gcVars
<1>10. CASE UNCHANGED vars
    BY <1>10 DEF vars, gcVars, TypeOK
<1> QED
    BY <1>1, <1>2, <1>3, <1>4, <1>5, <1>6, <1>7, <1>8, <1>9, <1>10 DEF Next

\* Every step keeps GCInv.
LEMMA GCNext == TypeOK /\ GCInv /\ [Next]_vars => GCInv'
<1> SUFFICES ASSUME TypeOK, GCInv, [Next]_vars PROVE GCInv'
    OBVIOUS
<1> USE ProviderAssumption DEF ProviderAssumption
<1>0. /\ now \in Nat /\ gcTime \in Nat
      /\ \A k \in Keys, p \in Provs : dstore[k][p] \in Nat \cup {NoTime}
      /\ \A r \in gcQuery : r[1] \in Keys /\ r[2] \in Provs /\ r[3] \in Nat
      /\ dstore \in [Keys -> [Provs -> Times \cup {NoTime}]]
    BY DEF TypeOK, Times
<1>1. ASSUME NEW k \in Keys, NEW p \in Provs, AddProvider(k, p) PROVE GCInv'
    BY <1>0, <1>1 DEF AddProvider, GCInv
<1>2. ASSUME NEW k \in Keys, NEW p \in Provs, AddProviderFails(k, p) PROVE GCInv'
    BY <1>2 DEF AddProviderFails, GCInv, gcVars
<1>3. ASSUME NEW k \in Keys, NEW p \in Provs, CollectExpired(k, p) PROVE GCInv'
    BY <1>0, <1>3 DEF CollectExpired, GCInv
<1>4. ASSUME NEW k \in Keys, NEW p \in Provs, PassOver(k, p) PROVE GCInv'
    BY <1>4 DEF PassOver, GCInv
<1>5. ASSUME NEW k \in Keys, GetProviders(k) PROVE GCInv'
  <2>1. UNCHANGED <<now, gcTime, gcQuery, gcSkip, inGC>>
    BY <1>5 DEF GetProviders, gcVars
  <2>2. \A j \in Keys, p \in Provs : dstore'[j][p] \in {dstore[j][p], NoTime}
    BY <1>5, GetFacts
  <2> QED
    BY <1>0, <2>1, <2>2 DEF GCInv
<1>6. CASE StartGC
  <2>1. \A r \in gcQuery' : r[3] = dstore[r[1]][r[2]]
    BY <1>6 DEF StartGC
  <2> QED
    BY <1>0, <1>6, <2>1 DEF StartGC, GCInv
<1>7. CASE StartGCFails
    BY <1>0, <1>7 DEF StartGCFails, GCInv
<1>8. CASE EndGC
    BY <1>8 DEF EndGC, GCInv
<1>9. CASE Tick
    BY <1>0, <1>9 DEF Tick, GCInv, gcVars
<1>10. CASE UNCHANGED vars
    BY <1>10 DEF vars, gcVars, GCInv
<1> QED
    BY <1>1, <1>2, <1>3, <1>4, <1>5, <1>6, <1>7, <1>8, <1>9, <1>10 DEF Next

\* The provider manager keeps its types.
THEOREM TypeCorrect == Spec => []TypeOK
BY InitOK, TypeNext, GCNext, PTL DEF Spec

\* The snapshot a round walks differs from the disk only where the round knows it.
THEOREM GCCorrect == Spec => []GCInv
BY InitOK, TypeNext, GCNext, PTL DEF Spec
-----------------------------------------------------------------------------
\* Only expired records are removed, by the collection or by a load.
THEOREM FreshRecordsStay == Spec => OnlyExpiredGo
<1>1. TypeOK /\ GCInv /\ [Next]_vars =>
        [\A k \in Keys, p \in Provs :
            dstore[k][p] # NoTime /\ dstore'[k][p] = NoTime => Expired(dstore[k][p], now)]_vars
  <2> SUFFICES ASSUME TypeOK, GCInv, Next, NEW k \in Keys, NEW p \in Provs,
                      dstore[k][p] # NoTime, dstore'[k][p] = NoTime
               PROVE  Expired(dstore[k][p], now)
    OBVIOUS
  <2> USE ProviderAssumption DEF ProviderAssumption
  <2>0. /\ now \in Nat /\ gcTime \in Nat /\ now # NoTime
        /\ \A j \in Keys, q \in Provs : dstore[j][q] \in Nat \cup {NoTime}
        /\ dstore \in [Keys -> [Provs -> Times \cup {NoTime}]]
    BY DEF TypeOK, Times
  <2>1. ASSUME NEW j \in Keys, NEW q \in Provs, AddProvider(j, q) PROVE FALSE
    BY <2>0, <2>1 DEF AddProvider
  <2>2. ASSUME NEW j \in Keys, NEW q \in Provs, CollectExpired(j, q) PROVE Expired(dstore[k][p], now)
    <3>1. PICK r \in gcQuery : r[1] = j /\ r[2] = q /\ Collectable(r)
      BY <2>2 DEF CollectExpired
    <3>2. j = k /\ q = p
      BY <2>0, <2>2 DEF CollectExpired
    <3>3. dstore[k][p] = r[3]
      BY <3>1, <3>2 DEF Collectable, GCInv
    <3> QED
      BY <2>0, <3>1, <3>3 DEF Collectable, Expired, GCInv
  <2>3. ASSUME NEW j \in Keys, GetProviders(j) PROVE Expired(dstore[k][p], now)
    BY <2>3, GetFacts
  <2>4. ASSUME NEW j \in Keys, NEW q \in Provs, AddProviderFails(j, q) \/ PassOver(j, q)
        PROVE  FALSE
    BY <2>4 DEF AddProviderFails, PassOver
  <2>5. ASSUME StartGC \/ StartGCFails \/ EndGC \/ Tick PROVE FALSE
    BY <2>5 DEF StartGC, StartGCFails, EndGC, Tick
  <2> QED
    BY <2>1, <2>2, <2>3, <2>4, <2>5 DEF Next
<1> QED
    BY <1>1, TypeCorrect, GCCorrect, PTL DEF Spec, OnlyExpiredGo
-----------------------------------------------------------------------------
\* CacheCovers for one step of the manager.
LEMMA CoversNext == TypeOK /\ GCInv /\ CacheCovers /\ [Next]_vars => CacheCovers'
<1> SUFFICES ASSUME TypeOK, GCInv, CacheCovers, [Next]_vars, "read" \notin Failures,
                    NEW k \in Keys, NEW p \in Provs, cache'[k] # NoProvs,
                    dstore'[k][p] # NoTime, ~Expired(dstore'[k][p], now')
             PROVE  cache'[k][p] # NoTime /\ cache'[k][p] >= dstore'[k][p]
    BY DEF CacheCovers, Cached
<1> USE ProviderAssumption DEF ProviderAssumption
<1>0. /\ now \in Nat /\ now # NoTime
      /\ \A j \in Keys, q \in Provs : dstore[j][q] \in Nat \cup {NoTime}
      /\ dstore \in [Keys -> [Provs -> Times \cup {NoTime}]]
      /\ cache \in [Keys -> [Provs -> MaybeTime]]
      /\ \A j \in Keys, q \in Provs : dstore[j][q] # NoTime => dstore[j][q] <= now
    BY DEF TypeOK, Times, MaybeTime, GCInv
<1> DEFINE Covered == cache[k][p] # NoTime /\ cache[k][p] >= dstore[k][p]
<1>1. Cached(k) /\ dstore[k][p] # NoTime /\ ~Expired(dstore[k][p], now) => Covered
    BY DEF CacheCovers
<1>2. ASSUME NEW j \in Keys, NEW q \in Provs, AddProvider(j, q)
      PROVE  cache'[k][p] # NoTime /\ cache'[k][p] >= dstore'[k][p]
  <2>1. CASE j = k /\ q = p
    BY <1>0, <1>2, <2>1 DEF AddProvider, setVal, Cached
  <2>2. CASE ~(j = k /\ q = p)
    <3>1. dstore'[k][p] = dstore[k][p] /\ now' = now
      BY <1>0, <1>2, <2>2 DEF AddProvider
    <3>2. Cached(k) /\ cache'[k][p] = cache[k][p]
      BY <1>0, <1>2, <2>2 DEF AddProvider, setVal, Cached
    <3> QED
      BY <1>1, <3>1, <3>2
  <2> QED
    BY <2>1, <2>2
<1>3. ASSUME NEW j \in Keys, NEW q \in Provs, AddProviderFails(j, q)
      PROVE  cache'[k][p] # NoTime /\ cache'[k][p] >= dstore'[k][p]
  <2>0. dstore' = dstore /\ now' = now
    BY <1>3 DEF AddProviderFails
  <2>1. Cached(k) /\ cache'[k][p] \in {now, cache[k][p]}
    BY <1>0, <1>3 DEF AddProviderFails, setVal, Cached
  <2> QED
    BY <1>0, <1>1, <2>0, <2>1
<1>4. ASSUME NEW j \in Keys, GetProviders(j)
      PROVE  cache'[k][p] # NoTime /\ cache'[k][p] >= dstore'[k][p]
  <2>1. dstore'[k][p] = dstore[k][p] /\ now' = now
    BY <1>4, GetFacts DEF GetProviders
  <2>2. cache' \in cacheAdd(j, loaded(j, {}))
    BY <1>4, GetFacts
  <2>3. cache'[k] = cache[k] \/ (j = k /\ cache'[k] = loaded(k, {}))
    BY <1>0, <2>2, LoadedFacts, CacheAddFacts
  <2>4. CASE cache'[k] = cache[k]
    BY <1>1, <2>1, <2>4 DEF Cached
  <2>5. CASE cache'[k] = loaded(k, {})
    <3>1. cache'[k][p] = dstore[k][p]
      BY <2>1, <2>5, LoadedFacts
    <3> QED
      BY <1>0, <2>1, <3>1
  <2> QED
    BY <2>3, <2>4, <2>5
<1>5. ASSUME NEW j \in Keys, NEW q \in Provs, CollectExpired(j, q) \/ PassOver(j, q)
      PROVE  cache'[k][p] # NoTime /\ cache'[k][p] >= dstore'[k][p]
  <2>1. cache' = cache /\ now' = now /\ dstore'[k][p] = dstore[k][p]
    BY <1>0, <1>5 DEF CollectExpired, PassOver
  <2> QED
    BY <1>1, <2>1 DEF Cached
<1>6. ASSUME StartGC \/ StartGCFails PROVE FALSE
    BY <1>6 DEF StartGC, StartGCFails
<1>7. CASE EndGC
    BY <1>1, <1>7 DEF EndGC, Cached
<1>8. CASE Tick
  <2>1. ~Expired(dstore[k][p], now)
    BY <1>0, <1>8 DEF Tick, Expired
  <2> QED
    BY <1>1, <1>8, <2>1 DEF Tick, Cached
<1>9. CASE UNCHANGED vars
    BY <1>1, <1>9 DEF vars, Cached
<1> QED
    BY <1>2, <1>3, <1>4, <1>5, <1>6, <1>7, <1>8, <1>9 DEF Next

\* A cached set answers for every unexpired record on the disk.
THEOREM CachedSetsCover == Spec => []CacheCovers
<1>1. Init => CacheCovers
    BY DEF Init, CacheCovers, Cached
<1> QED
    BY <1>1, CoversNext, TypeCorrect, GCCorrect, PTL DEF Spec

\* No answer is staler than the latest round of the collection.
THEOREM AnswersFreshAtGC == Spec => []StaleSinceGCOnly
<1>1. Init => StaleSinceGCOnly
    BY DEF Init, StaleSinceGCOnly, NoProvs, Expired
<1>2. TypeOK /\ GCInv /\ StaleSinceGCOnly /\ [Next]_vars => StaleSinceGCOnly'
  <2> SUFFICES ASSUME TypeOK, GCInv, StaleSinceGCOnly, [Next]_vars, NEW k \in Keys, NEW p \in Provs
               PROVE  ~Expired(cache'[k][p], gcTime')
    BY DEF StaleSinceGCOnly
  <2> USE ProviderAssumption DEF ProviderAssumption
  <2>0. /\ now \in Nat /\ gcTime \in Nat /\ gcTime <= now
        /\ cache \in [Keys -> [Provs -> MaybeTime]]
        /\ NoProvs[p] = NoTime
    BY DEF TypeOK, Times, MaybeTime, GCInv, NoProvs
  <2>1. ~Expired(cache[k][p], gcTime) /\ ~Expired(now, gcTime) /\ ~Expired(NoTime, gcTime')
    BY <2>0 DEF StaleSinceGCOnly, Expired
  <2>2. ASSUME NEW j \in Keys, NEW q \in Provs, AddProvider(j, q) \/ AddProviderFails(j, q)
        PROVE  ~Expired(cache'[k][p], gcTime')
    <3>1. gcTime' = gcTime /\ cache'[k][p] \in {now, cache[k][p]}
      BY <2>0, <2>2 DEF AddProvider, AddProviderFails, setVal, gcVars
    <3> QED
      BY <2>1, <3>1
  <2>3. ASSUME NEW j \in Keys, GetProviders(j) PROVE ~Expired(cache'[k][p], gcTime')
    <3>1. gcTime' = gcTime
      BY <2>3 DEF GetProviders, gcVars
    <3>2. PICK unread : cache' \in cacheAdd(j, loaded(j, unread))
      BY <2>3, GetFacts
    <3>3. cache'[k] = NoProvs \/ cache'[k] = cache[k] \/ (j = k /\ cache'[k] = loaded(k, unread))
      BY <2>0, <3>2, LoadedFacts, CacheAddFacts
    <3>4. ~Expired(loaded(k, unread)[p], now) /\ loaded(k, unread)[p] \in MaybeTime
      BY LoadedFacts
    <3>5. ~Expired(loaded(k, unread)[p], gcTime)
      BY <2>0, <3>4 DEF Expired, MaybeTime, Times
    <3> QED
      BY <2>0, <2>1, <3>1, <3>3, <3>5
  <2>4. CASE StartGC \/ StartGCFails
    BY <2>0, <2>1, <2>4 DEF StartGC, StartGCFails
  <2>5. ASSUME NEW j \in Keys, NEW q \in Provs, CollectExpired(j, q) \/ PassOver(j, q)
        PROVE  ~Expired(cache'[k][p], gcTime')
    BY <2>1, <2>5 DEF CollectExpired, PassOver
  <2>6. CASE EndGC \/ Tick \/ UNCHANGED vars
    BY <2>1, <2>6 DEF EndGC, Tick, vars, gcVars
  <2> QED
    BY <2>2, <2>3, <2>4, <2>5, <2>6 DEF Next
<1> QED
    BY <1>1, <1>2, TypeCorrect, GCCorrect, PTL DEF Spec
=============================================================================
