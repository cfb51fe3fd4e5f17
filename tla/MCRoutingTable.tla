--------------------------- MODULE MCRoutingTable ---------------------------
(***************************************************************************)
(* Small instances of RoutingTable: four-bit IDs around the local 0100 and *)
(* bucketsize 2, so that the three peers that share one bit overflow their *)
(* bucket and one peer is on either side of them.                          *)
(***************************************************************************)
EXTENDS TableRefresh, TLC

CONSTANTS p1, p2, p3, p4, p5

MCPeers == {p1, p2, p3, p4, p5}
FewPeers == {p2, p3, p4, p5}
MCLocal == <<0, 1, 0, 0>>
AllIDs == (p1 :> <<1, 1, 0, 0>>) @@ (p2 :> <<0, 0, 0, 0>>) @@ (p3 :> <<0, 0, 0, 1>>)
            @@ (p4 :> <<0, 0, 1, 0>>) @@ (p5 :> <<0, 1, 1, 0>>)
MCID == [p \in Peers |-> AllIDs[p]]
MCGroup == [p \in Peers |-> IF p = p4 THEN 2 ELSE 1]
SplitGroup == [p \in Peers |-> IF p = p2 THEN 1 ELSE IF p = p3 THEN 2 ELSE 3]

\* The capacities CalcKOpt gives: the same for every bucket, less with depth, or more.
EvenK == {[i \in 1..MaxBuckets |-> 2]}
FallingK == {[i \in 1..MaxBuckets |-> IF i = 1 THEN 3 ELSE 2]}
RisingK == {[i \in 1..MaxBuckets |-> IF i = 1 THEN 2 ELSE 3]}
ChangingK == EvenK \cup FallingK \cup RisingK

\* Every peer is near, or p5 has become too slow for the table.
Latencies == {[p \in Peers |-> 1], [p \in Peers |-> IF p = p5 THEN 9 ELSE 1]}
Near == {[p \in Peers |-> 1]}

\* The keys of the refresh IDs have hashes in no order, some with the same prefix.
MCKeyHash == [key \in Keys |-> [i \in 1..Width |-> ((7 * key + 3) \div 2 ^ (Width - i)) % 2]]

\* What the later steps and the invariants of TableKadRTT.cfg read: neither the last
\* answer nor whether a peer was useful.
NoAnswers == <<buckets, [p \in Peers |-> <<info[p].rtt, info[p].replaceable>>], filter, tagged>>
=============================================================================
