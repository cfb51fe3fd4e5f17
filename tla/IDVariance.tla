----------------------------- MODULE IDVariance -----------------------------
(***************************************************************************)
(* The measures by which a full KadRTT bucket chooses a peer to exchange   *)
(* or to discard (go-libp2p-kbucket/table.go: calcIDVarianceByCPL,         *)
(* getIDVarianceByCPL, getIDVarianceWithOut; kadrttbypeer.go,              *)
(* kadrttvariance.go).  A bucket is a set of peers; the code sorts it by   *)
(* key and looks at neighbours.  The code divides by the number of peers   *)
(* in floating point: here both sides of each comparison are multiplied by *)
(* its square, which is the same number of peers on either side.           *)
(***************************************************************************)
EXTENDS Keyspace

CONSTANT ID     \* the ID of every peer

keys == [p \in DOMAIN ID |-> KeyValue(ID[p])]
prefixes == [p, q \in DOMAIN ID |-> CommonPrefixLen(ID[p], ID[q])]

Key(p) == keys[p]

LastByKey(S) == CHOOSE p \in S : \A q \in S : Key(q) <= Key(p)

\* Every peer of S but the last one has a neighbour to its right.
Neighboured(S) == S \ {LastByKey(S)}

Neighbour(S, p) ==
    CHOOSE q \in S : Key(q) > Key(p) /\ \A r \in S : Key(r) > Key(p) => Key(r) >= Key(q)

Gap(S, p) == prefixes[p, Neighbour(S, p)]

\* The squared deviation of p's gap from the average gap, times Cardinality(S)^2.
Deviation(S, p) ==
    LET gap(q) == Gap(S, q)
        d == Cardinality(S) * Gap(S, p) - MapThenSumSet(gap, Neighboured(S))
    IN  d * d

\* getIDVarianceByCPL: the sum of the squared deviations.
getIDVarianceByCPL(S) ==
    LET dev(p) == Deviation(S, p)
    IN  MapThenSumSet(dev, Neighboured(S))

\* calcIDVarianceByCPL's own measure of the present bucket: its m is not reset
\* between neighbours, so each deviation counts again for every later pair.
currentIDVariance(S) ==
    LET dev(p) == Deviation(S, p) * Cardinality({q \in Neighboured(S) : Key(q) >= Key(p)})
    IN  MapThenSumSet(dev, Neighboured(S))

\* The peer calcIDVarianceByCPL gives up for p, as a set with at most one
\* member: among the candidates whose exchange gives the least variance, the
\* one with the least key (the list is walked from the largest key down, and
\* a tie replaces the choice), provided that is no more than the current one.
ExchangeVictim(S, p, candidates) ==
    LET after(o) == getIDVarianceByCPL((S \ {o}) \cup {p})
        good == {o \in candidates \cap Neighboured(S) : after(o) <= currentIDVariance(S)}
        best == {o \in good : \A q \in good : after(o) <= after(q)}
    IN  {o \in best : \A q \in best : Key(o) <= Key(q)}

\* getIDVarianceWithOut: the big.Int avg is the same object as total, which the
\* loop overwrites, so each distance is compared with twice the last deviation.
getIDVarianceWithOut(S, id) ==
    LET T == S \ {id}
        walked(p) == {q \in Neighboured(T) : Key(q) <= Key(p)}
        dist(p) == Distance(ID[p], ID[Neighbour(T, p)])
        avg == MapThenSumSet(dist, Neighboured(T)) \div Cardinality(T)
        at(n) == CHOOSE p \in Neighboured(T) : Cardinality(walked(p)) = n
        total[n \in 0..Cardinality(Neighboured(T))] ==
            IF n = 0 THEN avg
            ELSE LET d == dist(at(n)) - total[n - 1]
                 IN  2 * (IF d < 0 THEN -d ELSE d)
        step(n) == total[n]
    IN  MapThenSumSet(step, 1..Cardinality(Neighboured(T)))

\* The sets of num peers the shrinking of a bucket may discard: those whose
\* absence leaves the largest value; sort.Sort breaks ties either way.
DiscardChoices(S, num) ==
    {V \in SUBSET S :
        /\ Cardinality(V) = num
        /\ \A p \in V, q \in S \ V : getIDVarianceWithOut(S, p) >= getIDVarianceWithOut(S, q)}
=============================================================================
