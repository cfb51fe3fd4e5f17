---------------------------- MODULE RoutingTable ----------------------------
(***************************************************************************)
(* The Kademlia routing table (go-libp2p-kbucket/table.go, bucket.go).     *)
(* Every operation runs under tabLock, so each is one action.  Buckets are *)
(* counted from 1: bucket i holds the peers that share i - 1 bits with the *)
(* local ID, and the last one those that share i - 1 or more.              *)
(*                                                                         *)
(* The three variants of TryAddPeer share their steps; Adder says which of *)
(* them the caller uses (rtPeerLoop: addPeer, or addPeerKadRTT when the    *)
(* DHT runs in KadRTT mode).  What CalcKOpt returns depends on measured    *)
(* arrival rates: an operation sees one of the functions of KMaps.  beta   *)
(* is always min(k, bucketsize) and alpha is not read by the table, so     *)
(* neither is kept.  The order of the peers in a bucket decides nothing    *)
(* but which of several equally good peers is replaced.                    *)
(***************************************************************************)
EXTENDS IDVariance

CONSTANTS
    Peers,          \* the peers that may be offered to the table
    Local,          \* the ID of the local peer
    Width,          \* bits in an ID
    Adder,          \* "addPeer", "addPeer2" or "addPeerKadRTT"
    BucketSize,     \* bucketsize
    KMaps,          \* the values CalcKOpt may give: bucket -> k
    RTTs,           \* round-trip times a ping may measure; 0 is unknown
    LatencyMaps,    \* the latencies metrics.LatencyEWMA may report: peer -> latency
    MaxLatency,     \* maxLatency
    UseFilter,      \* whether a diversity filter is configured
    Group, MaxPerCpl, MaxForTable, Whitelist,   \* its parameters
    Connected,      \* whether a peer may be found connected, or not, when it is added
    NoPeer

MaxBuckets == Width + 2

ASSUME RoutingTableAssumption ==
    /\ Width \in Nat
    /\ Local \in IDs(Width)
    /\ ID \in [Peers -> IDs(Width)]
    /\ NoPeer \notin Peers
    /\ Adder \in {"addPeer", "addPeer2", "addPeerKadRTT"}
    /\ BucketSize \in Nat /\ BucketSize >= 2
    /\ KMaps \subseteq [1..MaxBuckets -> Nat] /\ KMaps # {}
    /\ \A kf \in KMaps : \A i \in 1..MaxBuckets : kf[i] >= BucketSize
    /\ RTTs \subseteq Nat
    /\ Connected \subseteq BOOLEAN
    /\ LatencyMaps \subseteq [Peers -> Nat]
    /\ MaxPerCpl \in Nat /\ MaxForTable \in Nat

VARIABLES
    buckets,    \* a sequence of [peers, k]
    info,       \* the PeerInfo of each peer, NoInfo outside the table
    filter,     \* the diversity filter
    tagged,     \* peers tagged by PeerAdded and not untagged by PeerRemoved
    ret         \* what the last TryAddPeer returned

vars == <<buckets, info, filter, tagged, ret>>

\* The bits each peer shares with the local ID.
cpls == [p \in Peers |-> CommonPrefixLen(ID[p], Local)]

Cpl(p) == cpls[p]

df == INSTANCE DiversityFilter WITH FilterPeers <- Peers, FilterCpl <- cpls

NoInfo == [rtt |-> 0, replaceable |-> FALSE, useful |-> FALSE]
NoAnswer == [peer |-> NoPeer, added |-> FALSE, err |-> "nil"]
-----------------------------------------------------------------------------
newBucket == [peers |-> {}, k |-> 1]

bucketIdForPeer(bs, p) == IF Cpl(p) < Len(bs) THEN Cpl(p) + 1 ELSE Len(bs)

bucketForPeer(bs, p) == bs[bucketIdForPeer(bs, p)]

InTable(bs) == UNION {bs[i].peers : i \in DOMAIN bs}

pushFront(bs, i, p) == [bs EXCEPT ![i].peers = @ \cup {p}]

\* nextBucket: the last bucket is unfolded until the new last one is empty,
\* since a new bucket has k = 1 when its length is compared with it.
nextBucket(bs, kf) ==
    LET n == Len(bs)
        last == bs[n].peers
        deepest == Max({n - 1} \cup {Cpl(p) : p \in last})
    IN  [i \in 1..(deepest + 2) |->
            IF i < n THEN bs[i]
            ELSE IF i = n
            THEN [peers |-> {p \in last : Cpl(p) <= n - 1},
                  k |-> IF n = 1 THEN kf[1] ELSE bs[n].k]
            ELSE [peers |-> {p \in last : Cpl(p) = i - 1}, k |-> kf[i]]]

\* The loop of removePeer: empty buckets at the end go, and the last bucket
\* moves down over empty ones next to it.
collapse(bs) ==
    LET full == {i \in DOMAIN bs : bs[i].peers # {}}
        last == Max({1} \cup full)
        second == Max({0} \cup (full \ {last}))
    IN  [i \in 1..(second + 1) |-> IF i <= second THEN bs[i] ELSE bs[last]]

\* The buckets after removePeer of a peer that is in the table.
removePeer(bs, p) == collapse([bs EXCEPT ![bucketIdForPeer(bs, p)].peers = @ \ {p}])

\* The callers of removePeer keep a pointer to the bucket: after the collapse
\* it is wherever the remaining peers are.
bucketHolding(bs, S) == CHOOSE i \in DOMAIN bs : bs[i].peers = S

\* addPeerKadRTT first gives p's bucket a new k and, if that made the bucket
\* too long, discards the excess: bucket.remove alone, without a callback.
\* rttInterval is never set, so this happens on every call.
resize(bs, p, kf) ==
    IF Adder # "addPeerKadRTT" THEN {bs}
    ELSE LET i == bucketIdForPeer(bs, p)
             S == bs[i].peers
             excess == Cardinality(S) - kf[i]
         IN  {[bs EXCEPT ![i] = [peers |-> S \ V, k |-> kf[i]]] :
                V \in IF excess > 0 THEN DiscardChoices(S, excess) ELSE {{}}}

\* How many peers a bucket may hold before, and after, the table is unfolded.
bsize(b) == IF Adder = "addPeerKadRTT" THEN b.k ELSE BucketSize
blen(b) == IF Adder = "addPeer2" THEN BucketSize ELSE b.k

\* Mutant: off by one.
FitsOneMore(b, limit) == Cardinality(b.peers) <= limit

Fits(b, limit) == Cardinality(b.peers) < limit

IsLastBucket(bs, p) == bucketIdForPeer(bs, p) = Len(bs)

\* A full last bucket is unfolded before anything else is tried.
unfold(bs, p, kf) == IF IsLastBucket(bs, p) THEN nextBucket(bs, kf) ELSE bs
-----------------------------------------------------------------------------
\* A call of TryAddPeer: the peer, whether it was queried or asked us, whether
\* the new entry may be replaced, and the measured round-trip time.
Requests == [peer : Peers, queryPeer : BOOLEAN, replaceable : BOOLEAN, rtt : RTTs]

\* The PeerInfo that is pushed for a request; addPeer leaves rtt unset.
entry(r) ==
    [rtt |-> IF Adder = "addPeer" THEN 0 ELSE r.rtt,
     replaceable |-> r.replaceable,
     useful |-> r.queryPeer]

\* The filter once TryAdd has recorded p in it.
recorded(p) == IF UseFilter THEN df!TryAddToFilter(filter, p) ELSE filter

\* How every path of TryAddPeer ends: the new buckets, the PeerInfo of the
\* peer if it is in them, and the returned values.
Settle(bs, r, pi, added, err) ==
    /\ buckets' = bs
    /\ info' = [q \in Peers |->
                    IF q \notin InTable(bs) THEN NoInfo
                    ELSE IF q = r.peer THEN pi ELSE info[q]]
    /\ ret' = [peer |-> r.peer, added |-> added, err |-> err]

\* pushFront of the request's peer into bucket i, and the PeerAdded callback.
Push(bs, i, r) ==
    /\ Settle(pushFront(bs, i, r.peer), r, entry(r), TRUE, "nil")
    /\ filter' = recorded(r.peer)
    /\ tagged' = tagged \cup {r.peer}

\* The table after v has been removed to make place for p; bs has p's bucket.
swapped(bs, p, v) ==
    LET rest == bucketForPeer(bs, p).peers \ {v}
        after == removePeer(bs, v)
    IN  pushFront(after, bucketHolding(after, rest), p)

\* The peer is already there: a peer that was not useful before gets its bump.
AlreadyThere(bs, r) ==
    /\ r.peer \in bucketForPeer(bs, r.peer).peers
    /\ Settle(bs, r, [info[r.peer] EXCEPT !.useful = @ \/ r.queryPeer], FALSE, "nil")
    /\ UNCHANGED <<filter, tagged>>

RejectHighLatency(bs, r, lat) ==
    /\ lat[r.peer] > MaxLatency
    /\ Settle(bs, r, NoInfo, FALSE, "high latency")
    /\ UNCHANGED <<filter, tagged>>

RejectByFilter(bs, r, connected) ==
    /\ UseFilter /\ ~df!Accepts(filter, r.peer, connected)
    /\ Settle(bs, r, NoInfo, FALSE, "diversity filter")
    /\ UNCHANGED <<filter, tagged>>

AddWithSpace(bs, r) ==
    /\ Fits(bucketForPeer(bs, r.peer), bsize(bucketForPeer(bs, r.peer)))
    /\ Push(bs, bucketIdForPeer(bs, r.peer), r)

\* The remaining steps are those of a full bucket; wide is the unfolded table.
AddUnfolded(bs, wide, r) ==
    /\ IsLastBucket(bs, r.peer)
    /\ Fits(bucketForPeer(wide, r.peer), blen(bucketForPeer(wide, r.peer)))
    /\ Push(wide, bucketIdForPeer(wide, r.peer), r)

\* Mutant: a peer is replaced whether it may be or not.
ReplaceAnyPeer(wide, r) ==
    /\ Adder # "addPeerKadRTT"
    /\ \E v \in bucketForPeer(wide, r.peer).peers :
        /\ Settle(swapped(wide, r.peer, v), r, entry(r), TRUE, "nil")
        /\ filter' = df!RemoveFromFilter(recorded(r.peer), v)
        /\ tagged' = (tagged \ {v}) \cup {r.peer}

\* addPeer and addPeer2 replace any peer of the bucket that may be replaced.
ReplacePeer(wide, r) ==
    /\ Adder # "addPeerKadRTT"
    /\ \E v \in bucketForPeer(wide, r.peer).peers :
        /\ info[v].replaceable
        /\ Settle(swapped(wide, r.peer, v), r, entry(r), TRUE, "nil")
        /\ filter' = df!RemoveFromFilter(recorded(r.peer), v)
        /\ tagged' = (tagged \ {v}) \cup {r.peer}

\* The peers whose round-trip time, as far as it is known, is worse than the new peer's.
slowerPeers(S, rtt, lat) ==
    {q \in S : (IF info[q].rtt = 0 THEN lat[q] ELSE info[q].rtt) > rtt}

victims(bs, r, lat) ==
    LET S == bucketForPeer(bs, r.peer).peers
    IN  ExchangeVictim(S, r.peer, slowerPeers(S, r.rtt, lat))

\* Mutant: the exchange does not call PeerAdded.
ExchangePeerUntagged(wide, r, lat) ==
    /\ Adder = "addPeerKadRTT"
    /\ \E v \in victims(wide, r, lat) :
        /\ info[v].replaceable
        /\ Settle(swapped(wide, r.peer, v), r,
                  [rtt |-> r.rtt, replaceable |-> TRUE, useful |-> TRUE],
                  FALSE, "no capacity")
        /\ filter' = df!RemoveFromFilter(df!RemoveFromFilter(recorded(r.peer), v), r.peer)
        /\ tagged' = tagged \ {v}

\* calcIDVarianceByCPL exchanges a peer for the new one; addPeerKadRTT then
\* goes on to its last lines as if it had not found a place.
ExchangePeer(wide, r, lat) ==
    /\ Adder = "addPeerKadRTT"
    /\ \E v \in victims(wide, r, lat) :
        /\ info[v].replaceable
        /\ Settle(swapped(wide, r.peer, v), r,
                  [rtt |-> r.rtt, replaceable |-> TRUE, useful |-> TRUE],
                  FALSE, "no capacity")
        /\ filter' = df!RemoveFromFilter(df!RemoveFromFilter(recorded(r.peer), v), r.peer)
        /\ tagged' = (tagged \ {v}) \cup {r.peer}

RejectNoCapacity(wide, r, lat) ==
    /\ \A v \in (IF Adder = "addPeerKadRTT"
                 THEN victims(wide, r, lat) ELSE bucketForPeer(wide, r.peer).peers) :
            ~info[v].replaceable
    /\ Settle(wide, r, NoInfo, FALSE, "no capacity")
    /\ filter' = df!RemoveFromFilter(recorded(r.peer), r.peer)
    /\ UNCHANGED tagged

FullBucket(bs, r, kf, lat) ==
    LET wide == unfold(bs, r.peer, kf)
    IN  \/ AddUnfolded(bs, wide, r)
        \/ /\ ~(/\ IsLastBucket(bs, r.peer)
                /\ Fits(bucketForPeer(wide, r.peer), blen(bucketForPeer(wide, r.peer))))
           /\ \/ ReplacePeer(wide, r)
              \/ ExchangePeer(wide, r, lat)
              \/ RejectNoCapacity(wide, r, lat)

\* addPeer, addPeer2 and addPeerKadRTT: the early returns in their order.
TryAddPeer(r, kf, lat, connected) ==
    \E bs \in resize(buckets, r.peer, kf) :
        \/ AlreadyThere(bs, r)
        \/ /\ r.peer \notin bucketForPeer(bs, r.peer).peers
           /\ \/ RejectHighLatency(bs, r, lat)
              \/ /\ lat[r.peer] <= MaxLatency
                 /\ \/ RejectByFilter(bs, r, connected)
                    \/ /\ UseFilter => df!Accepts(filter, r.peer, connected)
                       /\ \/ AddWithSpace(bs, r)
                          \/ /\ ~Fits(bucketForPeer(bs, r.peer), bsize(bucketForPeer(bs, r.peer)))
                             /\ FullBucket(bs, r, kf, lat)

RemovePeer(p) ==
    /\ p \in bucketForPeer(buckets, p).peers
    /\ buckets' = removePeer(buckets, p)
    /\ info' = [info EXCEPT ![p] = NoInfo]
    /\ filter' = df!RemoveFromFilter(filter, p)
    /\ tagged' = tagged \ {p}
    /\ ret' = NoAnswer

MarkAllPeersIrreplaceable ==
    /\ info' = [p \in Peers |-> [info[p] EXCEPT !.replaceable = FALSE]]
    /\ ret' = NoAnswer
    /\ UNCHANGED <<buckets, filter, tagged>>

UpdateLastUsefulAt(p) ==
    /\ p \in bucketForPeer(buckets, p).peers
    /\ info' = [info EXCEPT ![p].useful = TRUE]
    /\ ret' = NoAnswer
    /\ UNCHANGED <<buckets, filter, tagged>>

\* NewRoutingTable.
Init ==
    /\ buckets = <<newBucket>>
    /\ info = [p \in Peers |-> NoInfo]
    /\ filter = df!EmptyFilter
    /\ tagged = {}
    /\ ret = NoAnswer

Next ==
    \/ \E r \in Requests, kf \in KMaps, lat \in LatencyMaps, connected \in Connected :
            TryAddPeer(r, kf, lat, connected)
    \/ \E p \in Peers : RemovePeer(p) \/ UpdateLastUsefulAt(p)
    \/ MarkAllPeersIrreplaceable

Spec == Init /\ [][Next]_vars
-----------------------------------------------------------------------------
\* Type correctness of the table.
TypeOK ==
    /\ buckets \in Seq([peers : SUBSET Peers, k : Nat])
    /\ Len(buckets) \in 1..MaxBuckets
    /\ info \in [Peers -> [rtt : Nat, replaceable : BOOLEAN, useful : BOOLEAN]]
    /\ filter \in [Peers -> Nat]
    /\ tagged \in SUBSET Peers
    /\ ret \in [peer : Peers \cup {NoPeer}, added : BOOLEAN,
                err : {"nil", "high latency", "diversity filter", "no capacity"}]

\* Every peer is in its own bucket.
Placed(bs) == \A i \in DOMAIN bs : \A p \in bs[i].peers : i = bucketIdForPeer(bs, p)

\* Every peer in the table is in the bucket bucketIdForPeer gives, after any
\* sequence of unfoldings, removals and collapses: the lookups by bucket
\* (getPeer in addPeer, removePeer, UpdateLastUsefulAt) find it, it is never
\* entered twice, and NearestPeers' getPeer(fID).rtt is not a nil dereference.
Placement == Placed(buckets)

\* TryAddPeer's values tell the truth: it returns an error exactly when the
\* peer is not in the table afterwards.
AnswerIsTrue ==
    ret.peer # NoPeer => (ret.err = "nil" <=> ret.peer \in InTable(buckets))

\* The callbacks follow the table: exactly its peers are tagged with the
\* connection manager (dht.go's PeerAdded and PeerRemoved).
TagsMatchTable == tagged = InTable(buckets)

\* The tags cover the table: no peer in it is left unprotected.
TagsCoverTable == InTable(buckets) \subseteq tagged

\* The diversity filter records each peer of the table once and no other peer.
FilterMatchesTable ==
    UseFilter => \A p \in Peers :
        filter[p] = IF p \in InTable(buckets) \ Whitelist THEN 1 ELSE 0

\* What the filter is for: no IP group has more than maxForTable peers in the
\* table, or more than maxPerCpl of them with one prefix length.
DiversityQuota ==
    UseFilter => \A p \in InTable(buckets) \ Whitelist :
        LET same == {q \in InTable(buckets) \ Whitelist : Group[q] = Group[p]}
        IN  /\ Cardinality(same) <= MaxForTable
            /\ Cardinality({q \in same : Cpl(q) = Cpl(p)}) <= MaxPerCpl

\* No bucket holds more peers than the largest capacity CalcKOpt gives to any
\* bucket.  Not to the bucket itself: nextBucket moves peers up to buckets with
\* a smaller one, and the collapse of removePeer moves a bucket down.
CapacityBound ==
    \A i \in DOMAIN buckets : \E kf \in KMaps : \E j \in 1..MaxBuckets :
        Cardinality(buckets[i].peers) <= kf[j]

\* A peer that may not be replaced leaves the table by RemovePeer only
\* (MarkAllPeersIrreplaceable's promise).
IrreplaceableStays ==
    [][\A p \in InTable(buckets) \ InTable(buckets') :
            info[p].replaceable \/ ret'.peer = NoPeer]_vars

\* A peer is exchanged (untagged by a TryAddPeer) only if it was replaceable
\* and the new peer answered faster, as far as its round-trip time was known.
ExchangedForFaster ==
    [][\A p \in tagged \ tagged' : ret'.peer # NoPeer =>
            /\ info[p].replaceable
            /\ info[p].rtt = 0 \/ info[p].rtt > info'[ret'.peer].rtt]_vars

\* What is seen of a peer from outside: the state of TableOutline.
membership ==
    [p \in Peers |-> IF p \notin InTable(buckets) THEN "out"
                     ELSE IF info[p].replaceable THEN "replaceable" ELSE "kept"]

Outline == INSTANCE TableOutline WITH tab <- membership, isKadRTT <- (Adder = "addPeerKadRTT")

\* The table does to its users what rtPeerLoop and the refresh manager take for granted:
\* whatever buckets are unfolded, resized, collapsed and exchanged in, an addition puts
\* out only peers it may, enters the peer as it was asked to, and never empties the table.
ImplementsOutline == Outline!TableSpec
=============================================================================
