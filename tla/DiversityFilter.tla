--------------------------- MODULE DiversityFilter ---------------------------
(***************************************************************************)
(* The IP diversity filter of the routing table (peerdiversity/filter.go   *)
(* with rt_diversity_filter.go).  Its state is how often each peer has     *)
(* been recorded: peerGroups[p] is appended to by every TryAdd of p and    *)
(* forgotten by Remove, and the counters of the IP groups follow it.  A    *)
(* peer has one connection, so one group; group keys are abstract.         *)
(***************************************************************************)
EXTENDS Integers, FiniteSets

CONSTANTS
    FilterPeers,    \* the peers the filter may meet
    Group,          \* the IP group of each peer
    FilterCpl,      \* cplFnc: the common prefix length of each peer with self
    MaxPerCpl,      \* at most so many peers of one group per prefix length
    MaxForTable,    \* at most so many peers of one group in the table
    Whitelist       \* wlpeers

EmptyFilter == [p \in FilterPeers |-> 0]

\* The entries of peerGroups for the peers of S.
entries(f, S) == UNION {{p} \X (1..f[p]) : p \in S}

tableIpGroupCount(f, g) ==
    Cardinality(entries(f, {p \in FilterPeers : Group[p] = g}))

cplIpGroupCount(f, cpl, g) ==
    Cardinality(entries(f, {p \in FilterPeers : Group[p] = g /\ FilterCpl[p] = cpl}))

\* Mutant: the limits are off by one.
AllowOneMore(f, p) ==
    /\ tableIpGroupCount(f, Group[p]) <= MaxForTable
    /\ cplIpGroupCount(f, FilterCpl[p], Group[p]) <= MaxPerCpl

Allow(f, p) ==
    /\ tableIpGroupCount(f, Group[p]) < MaxForTable
    /\ cplIpGroupCount(f, FilterCpl[p], Group[p]) < MaxPerCpl

\* Whether Filter.TryAdd takes p, and the filter afterwards.  A peer without a
\* connection has no address to judge by.
Accepts(f, p, connected) == p \in Whitelist \/ (connected /\ Allow(f, p))

TryAddToFilter(f, p) == IF p \in Whitelist THEN f ELSE [f EXCEPT ![p] = @ + 1]

RemoveFromFilter(f, p) == [f EXCEPT ![p] = 0]
=============================================================================
