-------------------------- MODULE ProviderManager --------------------------
(***************************************************************************)
(* The provider records of a node (providers/providers_manager.go and      *)
(* provider_set.go): an LRU cache of provider sets in front of a           *)
(* datastore, and a garbage collection that walks a datastore query while  *)
(* requests go on.  One goroutine, run, serves everything, so each case of *)
(* its select is one step; the collection is one step per result.          *)
(*                                                                         *)
(* The query of a collection is a snapshot: its results are as old as the  *)
(* round.  Which operations of the datastore may fail is a constant.  The  *)
(* cache may give up any of its keys for a new one (the least recently     *)
(* used one is among them).                                                *)
(***************************************************************************)
EXTENDS Integers, FiniteSets

CONSTANTS
    Keys, Provs,
    Provides,           \* which peers announce themselves for which keys
    ProvideValidity,    \* how long a record lasts
    lruCacheSize,
    Failures,           \* which of "put", "delete", "read", "query" may fail
    MaxTime,            \* bound: the clock stops here
    NoTime

ASSUME ProviderAssumption ==
    /\ NoTime \notin Nat
    /\ Provides \subseteq Keys \X Provs
    /\ ProvideValidity \in Nat
    /\ lruCacheSize \in Nat \ {0}
    /\ MaxTime \in Nat
    /\ Failures \subseteq {"put", "delete", "read", "query"}

VARIABLES
    now,        \* the clock
    cache,      \* cache[k][p]: the time in k's cached providerSet, NoTime if p is not in it
    dstore,     \* dstore[k][p]: the time of the record, NoTime if there is none
    gcTimer,    \* the timer is running
    gcTime,     \* when the latest round began
    gcQuery,    \* the results the round has still to receive
    gcSkip,     \* the records written during the round
    inGC        \* gcQueryRes is not nil

gcVars == <<gcTimer, gcTime, gcQuery, gcSkip, inGC>>
vars == <<now, cache, dstore, gcVars>>

Times == 0..MaxTime
NoProvs == [p \in Provs |-> NoTime]

\* A record of time t has expired at time when.
Expired(t, when) == t # NoTime /\ when - t > ProvideValidity

\* A key is cached if its set is not empty: empty ones are never added.
Cached(k) == cache[k] # NoProvs
-----------------------------------------------------------------------------
Init ==
    /\ now = 0
    /\ cache = [k \in Keys |-> NoProvs]
    /\ dstore = [k \in Keys |-> NoProvs]
    /\ gcTimer = TRUE
    /\ gcTime = 0
    /\ gcQuery = {}
    /\ gcSkip = {}
    /\ inGC = FALSE

\* Mutant: the cached set does not learn of the new provider.
setValUncached(k, p) == UNCHANGED cache

\* addProv's first half: a cached set is updated, whether or not the write succeeds.
setVal(k, p) ==
    cache' = IF Cached(k) THEN [cache EXCEPT ![k][p] = now] ELSE cache

\* Mutant: the round is not told of the new record.
AddProviderUnskipped(k, p) ==
    /\ <<k, p>> \in Provides
    /\ setVal(k, p)
    /\ dstore' = [dstore EXCEPT ![k][p] = now]
    /\ UNCHANGED <<now, gcVars>>

AddProvider(k, p) ==
    /\ <<k, p>> \in Provides
    /\ setVal(k, p)
    /\ dstore' = [dstore EXCEPT ![k][p] = now]
    /\ gcSkip' = IF inGC THEN gcSkip \cup {<<k, p>>} ELSE gcSkip
    /\ UNCHANGED <<now, gcTimer, gcTime, gcQuery, inGC>>

AddProviderFails(k, p) ==
    /\ "put" \in Failures
    /\ <<k, p>> \in Provides
    /\ setVal(k, p)
    /\ UNCHANGED <<now, dstore, gcVars>>

\* loadProviderSet: the records that are read and have not expired.
loaded(k, unread) ==
    [p \in Provs |-> IF p \in unread \/ Expired(dstore[k][p], now) THEN NoTime
                     ELSE dstore[k][p]]

\* Adding k's set pst to the cache may drop the set of another key.
cacheAdd(k, pst) ==
    IF pst = NoProvs THEN {cache}
    ELSE LET others == {j \in Keys \ {k} : Cached(j)} IN
         {[j \in Keys |-> IF j = k THEN pst ELSE IF j = out THEN NoProvs ELSE cache[j]] :
            out \in IF Cardinality(others) < lruCacheSize THEN {k} ELSE others}

\* getProviderSetForKey of a key that is not cached.  Expired records are deleted
\* on the way; reading and deleting may fail for some of them.
GetProviders(k) ==
    /\ ~Cached(k)
    /\ \E unread \in IF "read" \in Failures THEN SUBSET Provs ELSE {{}} :
        /\ cache' \in cacheAdd(k, loaded(k, unread))
        /\ \E kept \in IF "delete" \in Failures THEN SUBSET Provs ELSE {{}} :
              dstore' = [dstore EXCEPT ![k] =
                  [p \in Provs |-> IF p \notin unread \cup kept /\ Expired(@[p], now)
                                   THEN NoTime ELSE @[p]]]
    /\ UNCHANGED <<now, gcVars>>
-----------------------------------------------------------------------------
(* The collection of garbage.                                               *)

\* The timer fires: the cache is dropped and the datastore queried.
StartGC ==
    /\ gcTimer
    /\ gcTimer' = FALSE
    /\ gcTime' = now
    /\ cache' = [k \in Keys |-> NoProvs]
    /\ inGC' = TRUE
    /\ gcSkip' = {}
    /\ gcQuery' = {<<k, p, dstore[k][p]>> : k \in Keys, p \in Provs}
                    \ (Keys \X Provs \X {NoTime})
    /\ UNCHANGED <<now, dstore>>

\* The query fails: the loop goes on, and the timer is not set again.
StartGCFails ==
    /\ "query" \in Failures
    /\ gcTimer
    /\ gcTimer' = FALSE
    /\ gcTime' = now
    /\ cache' = [k \in Keys |-> NoProvs]
    /\ UNCHANGED <<now, dstore, gcQuery, gcSkip, inGC>>

\* Mutant: a record is given one unit of time more.
CollectableLate(r) == <<r[1], r[2]>> \notin gcSkip /\ Expired(r[3] + 1, gcTime)

\* What the switch in run deletes: expired when the round began, not written since.
Collectable(r) == <<r[1], r[2]>> \notin gcSkip /\ Expired(r[3], gcTime)

\* A result that has expired and was not written since the round began is deleted.
CollectExpired(k, p) ==
    /\ \E r \in gcQuery :
        /\ r[1] = k /\ r[2] = p
        /\ Collectable(r)
        /\ gcQuery' = gcQuery \ {r}
    /\ dstore' = [dstore EXCEPT ![k][p] = NoTime]
    /\ UNCHANGED <<now, cache, gcTimer, gcTime, gcSkip, inGC>>

\* Any other result is passed over; so is one that cannot be read or deleted.
PassOver(k, p) ==
    /\ \E r \in gcQuery :
        /\ r[1] = k /\ r[2] = p
        /\ ~Collectable(r) \/ "delete" \in Failures \/ "read" \in Failures
        /\ gcQuery' = gcQuery \ {r}
    /\ UNCHANGED <<now, cache, dstore, gcTimer, gcTime, gcSkip, inGC>>

\* All results are in: the round is over and the timer set again.
EndGC ==
    /\ inGC /\ gcQuery = {}
    /\ inGC' = FALSE
    /\ gcSkip' = {}
    /\ gcTimer' = TRUE
    /\ UNCHANGED <<now, cache, dstore, gcTime, gcQuery>>

Tick ==
    /\ now < MaxTime
    /\ now' = now + 1
    /\ UNCHANGED <<cache, dstore, gcVars>>

Next ==
    \/ \E k \in Keys, p \in Provs :
          \/ AddProvider(k, p) \/ AddProviderFails(k, p)
          \/ CollectExpired(k, p) \/ PassOver(k, p)
    \/ \E k \in Keys : GetProviders(k)
    \/ StartGC \/ StartGCFails \/ EndGC
    \/ Tick

Spec == Init /\ [][Next]_vars

\* The timer fires, run serves the results of the query (Go's select is fair to
\* its cases), and no record is always one that cannot be deleted.
Fairness ==
    /\ WF_vars(StartGC) /\ WF_vars(EndGC)
    /\ \A k \in Keys, p \in Provs :
          WF_vars(PassOver(k, p)) /\ SF_vars(CollectExpired(k, p))

FairSpec == Spec /\ Fairness
-----------------------------------------------------------------------------
(* Every variable holds a value of the type the code gives it.              *)
TypeOK ==
    /\ now \in Times /\ gcTime \in Times
    /\ cache \in [Keys -> [Provs -> Times \cup {NoTime}]]
    /\ dstore \in [Keys -> [Provs -> Times \cup {NoTime}]]
    /\ gcTimer \in BOOLEAN /\ inGC \in BOOLEAN
    /\ gcQuery \subseteq Keys \X Provs \X Times
    /\ gcSkip \subseteq Keys \X Provs

(* What makes the rest inductive.  No time is in the future; every result   *)
(* the round has still to see is of a record that is unchanged, gone, or    *)
(* told to the round.                                                       *)
GCInv ==
    /\ gcTime <= now
    /\ \A k \in Keys, p \in Provs : dstore[k][p] # NoTime => dstore[k][p] <= now
    /\ \A r \in gcQuery :
        \/ dstore[r[1]][r[2]] \in {NoTime, r[3]}
        \/ <<r[1], r[2]>> \in gcSkip
    /\ gcQuery # {} => inGC

(* The collection, and the clean-up while a set is loaded, remove only       *)
(* records that have expired: one that is announced again while a round is  *)
(* under way, or between the snapshot and its result, survives.             *)
OnlyExpiredGo ==
    [][\A k \in Keys, p \in Provs :
            dstore[k][p] # NoTime /\ dstore'[k][p] = NoTime
                => Expired(dstore[k][p], now)]_vars

(* A cached set answers for the disk: it has every provider whose record    *)
(* has not expired, with a time that is no older, although writes fail      *)
(* after the cache was updated.                                             *)
CacheCovers ==
    "read" \notin Failures =>
        \A k \in Keys, p \in Provs :
            Cached(k) /\ dstore[k][p] # NoTime /\ ~Expired(dstore[k][p], now)
                => cache[k][p] # NoTime /\ cache[k][p] >= dstore[k][p]

(* Cached sets are never checked for expiry again, but no provider is       *)
(* answered for that had expired when the latest round began.               *)
StaleSinceGCOnly ==
    \A k \in Keys, p \in Provs : ~Expired(cache[k][p], gcTime)

(* CleanupInterval's comment: it is the time between runs of the garbage    *)
(* collection, so there is always a next one to come.                       *)
AnotherGCComes == gcTimer \/ inGC

(* A record that has expired does not stay on the disk for ever, unless the *)
(* collection has come to an end.                                            *)
ExpiredCollected ==
    \A k \in Keys, p \in Provs :
        Expired(dstore[k][p], now) ~> ~Expired(dstore[k][p], now) \/ ~AnotherGCComes
=============================================================================
