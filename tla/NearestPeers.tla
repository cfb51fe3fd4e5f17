---------------------------- MODULE NearestPeers ----------------------------
(***************************************************************************)
(* The queries of the routing table that seed every lookup and answer      *)
(* every FIND_NODE: NearestPeers, NearestPeer and Find (table.go).  They   *)
(* read the table under tabLock and change nothing, so they are operators  *)
(* of a state.  isKadRTT is set by NewRoutingTable and never cleared, so   *)
(* the KadRTT branches are the ones that run, whatever mode the DHT is in. *)
(***************************************************************************)
EXTENDS RoutingTable

\* An ID is the hash of a peer's name: peers with the same ID are the same peer.
ASSUME DistinctIDs == \A p, q \in Peers : ID[p] = ID[q] => p = q

\* For every key, the distance of every peer, the peers that are closer than it, and the
\* bits the key shares with the local ID.
distances == [id \in IDs(Width) |-> [p \in Peers |-> Distance(ID[p], id)]]
closer == [id \in IDs(Width) |-> [p \in Peers |-> {q \in Peers : Closer(ID[q], ID[p], id)}]]
keyCpls == [id \in IDs(Width) |-> CommonPrefixLen(id, Local)]

\* The bucket of a key, as bucketIdForPeer finds that of a peer.
bucketForKey(bs, id) ==
    LET cpl == keyCpls[id]
    IN  IF cpl < Len(bs) THEN cpl + 1 ELSE Len(bs)

\* The caller's count is replaced by the bucket's beta.
beta(b) == IF b.k < BucketSize THEN b.k ELSE BucketSize

peersBetween(bs, lo, hi) == UNION {bs[i].peers : i \in lo..hi}

\* Mutant: the buckets to the right are not read.
gatheredLeft(bs, id) ==
    LET c == bucketForKey(bs, id)
        count == beta(bs[c])
        near == bs[c].peers
        short == {i \in 1..(c - 1) :
                    Cardinality(near \cup peersBetween(bs, i + 1, c - 1)) < count}
    IN  near \cup UNION {bs[i].peers : i \in short}

\* The peers that are considered: those of the key's bucket; if they are too
\* few, those of all the buckets to the right; then bucket by bucket to the left.
gathered(bs, id) ==
    LET c == bucketForKey(bs, id)
        count == beta(bs[c])
        near == IF Cardinality(bs[c].peers) < count
                THEN peersBetween(bs, c, Len(bs)) ELSE bs[c].peers
        short == {i \in 1..(c - 1) :
                    Cardinality(near \cup peersBetween(bs, i + 1, c - 1)) < count}
    IN  near \cup UNION {bs[i].peers : i \in short}

\* The peer of S that is nearest to a key, dist being the distances to it.
first(S, dist) == CHOOSE p \in S : \A q \in S : dist[p] <= dist[q]

\* Mutant: the distance is not looked at.
OKListFar(S, dist) == LET fRTT == info[first(S, dist)].rtt IN {p \in S : info[p].rtt <= fRTT}

\* Of the peers gathered, those that come first in the answer: less than twice as far
\* as the nearest one and no slower.
OKList(S, dist) ==
    LET n == first(S, dist)
    IN  {p \in S : dist[p] < 2 * dist[n] /\ info[p].rtt <= info[n].rtt}

\* Each part of the answer is in order of the round-trip times.
fastest(S) == {p \in S : \A q \in S : info[p].rtt <= info[q].rtt}

\* The peers NearestPeer may answer with, and Find takes for the one it was asked for.
NearestPeer(bs, id) ==
    LET S == gathered(bs, id)
        OK == OKList(S, distances[id])
    IN  fastest(IF OK = {} THEN S ELSE OK)
-----------------------------------------------------------------------------
\* The bucketsize peers of the table that are nearest to a key.
nearest(id) ==
    LET T == InTable(buckets)
    IN  {p \in T : Cardinality(T \cap closer[id][p]) < BucketSize}

\* Although the caller's count is replaced and only some buckets are read, the
\* answer to every key holds the bucketsize nearest peers of the whole table.
NearestComplete == \A id \in IDs(Width) : nearest(id) \subseteq gathered(buckets, id)

\* NearestPeer prefers fast peers and is still near: for a key that is not the ID of a
\* peer of the table, the peer it answers with is no slower than the nearest one of the
\* whole table and less than twice as far.
FirstIsNear ==
    LET T == InTable(buckets) IN
    T # {} => \A id \in IDs(Width) :
        LET dist == distances[id]
            n == first(T, dist)
        IN  dist[n] > 0 =>
                \A f \in NearestPeer(buckets, id) :
                    dist[f] < 2 * dist[n] /\ info[f].rtt <= info[n].rtt
=============================================================================
