------------------------- MODULE RoutingTableProofs -------------------------
(***************************************************************************)
(* Proofs about the routing table, for any number of peers, any IDs, any   *)
(* bucketsize from 2 on and any capacities CalcKOpt may return.            *)
(***************************************************************************)
EXTENDS TableRefresh, FiniteSetTheorems, SequenceTheorems, WellFoundedInduction, TLAPS

Bucket == [peers : SUBSET Peers, k : Nat]

\* A well-formed table.
Table(bs) == bs \in Seq(Bucket) /\ Len(bs) \in 1..MaxBuckets

\* Once the table has been unfolded, every bucket has a capacity of CalcKOpt.
Sized(bs) == Len(bs) > 1 => \A i \in DOMAIN bs : bs[i].k >= BucketSize

Good(bs) == Table(bs) /\ Placed(bs) /\ Sized(bs)

\* A bounded, non-empty set of naturals has a maximum, which Max chooses.
LEMMA MaxExists ==
    ASSUME NEW n \in Nat, NEW S \in SUBSET (0..n), S # {}
    PROVE  Max(S) \in S /\ \A x \in S : x <= Max(S)
<1> DEFINE T == {m \in 0..n : n - m \in S}
<1>1. T \subseteq Nat /\ T # {}
  <2>1. PICK x \in S : TRUE
    OBVIOUS
  <2>2. n - x \in 0..n /\ n - (n - x) = x
    OBVIOUS
  <2>3. n - x \in T
    BY <2>2
  <2>4. T # {}
    BY <2>3
  <2>5. T \subseteq Nat
    OBVIOUS
  <2> QED
    BY <2>4, <2>5
<1>2. PICK y \in T : \A z \in T : ~(<<z, y>> \in OpToRel(<, Nat))
  BY <1>1, WFMin, NatLessThanWellFounded
<1>3. \A z \in T : ~(z < y)
  BY <1>1, <1>2 DEF OpToRel
<1>4. n - y \in S /\ y \in 0..n
  OBVIOUS
<1>5. \A w \in S : n - y >= w
  <2> SUFFICES ASSUME NEW w \in S PROVE n - y >= w
    OBVIOUS
  <2>1. n - w \in 0..n /\ n - (n - w) = w
    OBVIOUS
  <2>2. n - w \in T
    BY <2>1
  <2>3. ~(n - w < y)
    BY <2>2, <1>3
  <2> QED
    BY <2>3, <1>4
<1>6. Max(S) \in S /\ \A w \in S : Max(S) >= w
  BY <1>4, <1>5 DEF Max
<1> QED
  BY <1>6

\* A peer shares at most Width bits with the local peer.
LEMMA CplType == \A p \in Peers : Cpl(p) \in 0..Width
<1> SUFFICES ASSUME NEW p \in Peers PROVE Cpl(p) \in 0..Width
  OBVIOUS
<1> DEFINE S == {n \in DOMAIN ID[p] : \A i \in 1..n : ID[p][i] = Local[i]}
<1>1. DOMAIN ID[p] = 1..Width /\ Width \in Nat
  BY RoutingTableAssumption DEF IDs
<1>2. IsFiniteSet(1..Width) /\ Cardinality(1..Width) = Width
  BY <1>1, FS_Interval
<1>3. Cardinality(S) \in Nat /\ Cardinality(S) <= Width
  BY <1>1, <1>2, FS_Subset, FS_CardinalityType
<1>4. Cpl(p) = Cardinality(S)
  BY DEF Cpl, cpls, CommonPrefixLen
<1> QED
  BY <1>1, <1>3, <1>4

\* What a well-formed table is made of.
LEMMA Shape ==
    ASSUME NEW bs, Table(bs)
    PROVE  /\ Len(bs) \in 1..MaxBuckets /\ Len(bs) \in Nat /\ Width \in Nat
           /\ DOMAIN bs = 1..Len(bs)
           /\ bs \in [1..Len(bs) -> Bucket]
           /\ \A i \in 1..Len(bs) :
                bs[i] \in Bucket /\ bs[i].peers \subseteq Peers /\ bs[i].k \in Nat
<1>1. Width \in Nat
  BY RoutingTableAssumption
<1>2. bs \in Seq(Bucket) /\ Len(bs) \in 1..MaxBuckets
  BY DEF Table
<1>3. DOMAIN bs = 1..Len(bs) /\ bs \in [1..Len(bs) -> Bucket] /\ Len(bs) \in Nat
  BY <1>2, LenProperties
<1>4. \A b \in Bucket : b.peers \subseteq Peers /\ b.k \in Nat
  BY DEF Bucket
<1> QED
  BY <1>1, <1>2, <1>3, <1>4

\* A function on an initial segment is a well-formed table.
LEMMA Build ==
    ASSUME NEW m \in 1..MaxBuckets, NEW f \in [1..m -> Bucket]
    PROVE  Table(f) /\ Len(f) = m /\ DOMAIN f = 1..m
<1>1. m \in Nat
  BY RoutingTableAssumption DEF MaxBuckets
<1>2. f \in Seq(Bucket)
  BY <1>1, SeqDef
<1>3. DOMAIN f = 1..Len(f) /\ Len(f) \in Nat
  BY <1>2, LenProperties
<1>4. Len(f) = m
  BY <1>1, <1>3
<1> QED
  BY <1>2, <1>4 DEF Table

\* bucketIdForPeer is the index of a bucket.
LEMMA BucketId ==
    ASSUME NEW bs, Table(bs), NEW p \in Peers
    PROVE  bucketIdForPeer(bs, p) \in 1..Len(bs)
  BY CplType, RoutingTableAssumption DEF Table, bucketIdForPeer, MaxBuckets

\* A peer is in the table if it is in one of its buckets.
LEMMA InTableMeans ==
    ASSUME NEW bs PROVE \A p : p \in InTable(bs) <=> \E i \in DOMAIN bs : p \in bs[i].peers
  BY DEF InTable

\* A full bucket of a good table is not empty, nor a singleton.
LEMMA FullBucketHasTwo ==
    ASSUME NEW b \in Bucket, NEW limit \in Nat, limit >= 2, ~Fits(b, limit), NEW v
    PROVE  b.peers \ {v} # {}
<1> SUFFICES ASSUME b.peers \ {v} = {} PROVE FALSE
  OBVIOUS
<1>1. b.peers = {} \/ b.peers = {v}
  OBVIOUS
<1>2. Cardinality({}) = 0 /\ Cardinality({v}) = 1
  BY FS_EmptySet, FS_Singleton
<1> QED
  BY <1>1, <1>2 DEF Fits

\* Unfolding a last bucket that is not empty: the table stays good and holds
\* the same peers.
LEMMA NextBucketGood ==
    ASSUME NEW bs, Good(bs), bs[Len(bs)].peers # {}, NEW kf \in KMaps
    PROVE  /\ Good(nextBucket(bs, kf))
           /\ Len(nextBucket(bs, kf)) > 1
           /\ InTable(nextBucket(bs, kf)) = InTable(bs)
<1> DEFINE n == Len(bs)
           last == bs[n].peers
           C == {n - 1} \cup {Cpl(p) : p \in last}
           deepest == Max(C)
           nb == nextBucket(bs, kf)
<1>1. /\ n \in 1..MaxBuckets /\ n \in Nat /\ Width \in Nat
      /\ DOMAIN bs = 1..n
      /\ \A i \in 1..n : bs[i] \in Bucket /\ bs[i].peers \subseteq Peers /\ bs[i].k \in Nat
  BY Shape DEF Good
<1>2. last \subseteq Peers /\ \A p \in last : Cpl(p) \in (n - 1)..Width
  BY <1>1, CplType DEF Good, Placed, bucketIdForPeer
<1>3. n - 1 <= Width
  BY <1>1, <1>2
<1>4. C \in SUBSET (0..Width) /\ C # {}
  BY <1>1, <1>2, <1>3
<1>5. deepest \in C /\ \A x \in C : x <= deepest
  BY <1>1, <1>4, MaxExists
<1>6. /\ deepest \in (n - 1)..Width
      /\ \A p \in last : Cpl(p) <= deepest
  <2>1. n - 1 \in C /\ \A p \in last : Cpl(p) \in C
    OBVIOUS
  <2>2. deepest \in 0..Width
    BY <1>4, <1>5
  <2> HIDE DEF C, deepest, n, last
  <2>3. n - 1 <= deepest /\ \A p \in last : Cpl(p) <= deepest
    BY <1>5, <2>1
  <2>4. n \in Nat /\ Width \in Nat
    BY <1>1
  <2> QED
    BY <2>2, <2>3, <2>4
<1>7. kf \in [1..MaxBuckets -> Nat] /\ \A i \in 1..MaxBuckets : kf[i] >= BucketSize
  BY RoutingTableAssumption
<1>a. nb = [i \in 1..(deepest + 2) |->
            IF i < n THEN bs[i]
            ELSE IF i = n
            THEN [peers |-> {p \in last : Cpl(p) <= n - 1},
                  k |-> IF n = 1 THEN kf[1] ELSE bs[n].k]
            ELSE [peers |-> {p \in last : Cpl(p) = i - 1}, k |-> kf[i]]]
  BY DEF nextBucket
<1>b. last = bs[n].peers
  OBVIOUS
<1>c. Placed(bs) /\ Sized(bs)
  BY DEF Good
<1> HIDE DEF deepest, n, last, nb
<1>8. /\ DOMAIN nb = 1..(deepest + 2)
      /\ \A i \in 1..(n - 1) : nb[i] = bs[i]
      /\ nb[n] = [peers |-> {p \in last : Cpl(p) <= n - 1},
                  k |-> IF n = 1 THEN kf[1] ELSE bs[n].k]
  BY <1>1, <1>6, <1>a
<1> DEFINE deep(i) == {p \in last : Cpl(p) = i - 1}
<1>d. ASSUME NEW i \in (n + 1)..(deepest + 2)
      PROVE  /\ nb[i] = [peers |-> deep(i), k |-> kf[i]]
             /\ nb[i].peers = deep(i)
             /\ nb[i].k = kf[i]
  <2>1. i \in 1..(deepest + 2) /\ ~(i < n) /\ i # n
    BY <1>1, <1>6
  <2>2. nb[i] = [peers |-> deep(i), k |-> kf[i]]
    BY <2>1, <1>a
  <2> QED
    BY <2>2
<1>e. \A i : deep(i) \subseteq last /\ \A p \in last : p \in deep(i) <=> Cpl(p) = i - 1
  OBVIOUS
<1> HIDE DEF deep
<1>9. \A i \in 1..(deepest + 2) : nb[i] \in Bucket
  <2> SUFFICES ASSUME NEW i \in 1..(deepest + 2) PROVE nb[i] \in Bucket
    OBVIOUS
  <2>1. CASE i < n
    BY <2>1, <1>1, <1>6, <1>8
  <2>2. CASE i = n
    <3>1. (IF n = 1 THEN kf[1] ELSE bs[n].k) \in Nat
      BY <1>1, <1>7
    <3> QED
      BY <2>2, <3>1, <1>1, <1>2, <1>8 DEF Bucket
  <2>3. CASE i > n
    <3>1. kf[i] \in Nat
      BY <1>6, <1>7, <1>1 DEF MaxBuckets
    <3>2. i \in (n + 1)..(deepest + 2)
      BY <2>3, <1>1, <1>6
    <3>3. nb[i] = [peers |-> deep(i), k |-> kf[i]] /\ deep(i) \in SUBSET Peers
      BY <3>2, <1>2, <1>d, <1>e
    <3> QED
      BY <3>1, <3>3 DEF Bucket
  <2> QED
    BY <2>1, <2>2, <2>3, <1>1, <1>6
<1>10. Table(nb) /\ Len(nb) = deepest + 2 /\ DOMAIN nb = 1..(deepest + 2)
  <2>1. nb \in [1..(deepest + 2) -> Bucket]
    BY <1>a, <1>9
  <2>2. deepest + 2 \in 1..MaxBuckets
    BY <1>1, <1>6 DEF MaxBuckets
  <2> QED
    BY <2>1, <2>2, Build
<1>11. Table(nb) /\ Len(nb) > 1
  BY <1>1, <1>6, <1>10
<1>12. Placed(nb)
  <2> SUFFICES ASSUME NEW i \in 1..(deepest + 2), NEW p \in nb[i].peers
               PROVE  i = bucketIdForPeer(nb, p)
    BY <1>10 DEF Placed
  <2>1. CASE i < n
    <3>1. i \in 1..(n - 1) /\ i \in 1..n /\ nb[i] = bs[i]
      BY <2>1, <1>1, <1>6, <1>8
    <3>2. p \in Peers /\ i = bucketIdForPeer(bs, p)
      BY <3>1, <1>1, <1>c DEF Placed
    <3>3. i = IF Cpl(p) < n THEN Cpl(p) + 1 ELSE n
      BY <3>2 DEF bucketIdForPeer, n
    <3>4. Cpl(p) \in Nat
      BY <3>2, <1>1, CplType
    <3>5. Cpl(p) < deepest + 2 /\ i = Cpl(p) + 1
      BY <2>1, <3>3, <3>4, <1>1, <1>6
    <3> QED
      BY <3>5, <1>10 DEF bucketIdForPeer
  <2>2. CASE i = n
    BY <2>2, <1>1, <1>2, <1>6, <1>8, <1>10 DEF bucketIdForPeer
  <2>3. CASE i > n
    <3>0. i \in (n + 1)..(deepest + 2)
      BY <2>3, <1>1, <1>6
    <3>1. p \in last /\ Cpl(p) = i - 1
      BY <3>0, <1>d, <1>e
    <3> QED
      BY <3>1, <1>1, <1>6, <1>10 DEF bucketIdForPeer
  <2> QED
    BY <2>1, <2>2, <2>3, <1>1, <1>6
<1>13. Sized(nb)
  <2> SUFFICES ASSUME NEW i \in 1..(deepest + 2) PROVE nb[i].k >= BucketSize
    BY <1>10 DEF Sized
  <2>1. n > 1 => \A j \in 1..n : bs[j].k >= BucketSize
    BY <1>1, <1>c DEF Sized, n
  <2>2. CASE i < n
    BY <2>1, <2>2, <1>1, <1>6, <1>8
  <2>3. CASE i = n
    <3>1. kf[1] >= BucketSize
      BY <1>1, <1>7 DEF MaxBuckets
    <3>2. nb[n].k = IF n = 1 THEN kf[1] ELSE bs[n].k
      BY <1>8
    <3>3. n \in 1..n
      BY <1>1
    <3> QED
      BY <2>1, <2>3, <3>1, <3>2, <3>3, <1>1
  <2>4. CASE i > n
    <3>0. i \in (n + 1)..(deepest + 2)
      BY <2>4, <1>1, <1>6
    <3>1. nb[i].k = kf[i]
      BY <3>0, <1>d
    <3>2. i \in 1..MaxBuckets
      BY <1>1, <1>6 DEF MaxBuckets
    <3> QED
      BY <3>1, <3>2, <1>7
  <2> QED
    BY <2>2, <2>3, <2>4, <1>1, <1>6
<1>14. InTable(nb) = InTable(bs)
  <2>1. ASSUME NEW p \in InTable(nb) PROVE p \in InTable(bs)
    <3>1. PICK i \in 1..(deepest + 2) : p \in nb[i].peers
      BY <2>1, <1>8, InTableMeans
    <3>2. CASE i < n
      <4>1. i \in 1..(n - 1) /\ i \in 1..n
        BY <3>2, <1>1, <1>6
      <4> QED
        BY <3>1, <4>1, <1>1, <1>8, InTableMeans
    <3>3. CASE i >= n
      <4>1. p \in last
        <5>1. CASE i = n
          BY <3>1, <5>1, <1>8
        <5>2. CASE i > n
          <6>1. i \in (n + 1)..(deepest + 2)
            BY <5>2, <1>1, <1>6
          <6> QED
            BY <3>1, <6>1, <1>d, <1>e
        <5> QED
          BY <3>3, <5>1, <5>2, <1>1, <1>6
      <4>2. n \in DOMAIN bs
        BY <1>1
      <4> QED
        BY <4>1, <4>2, <1>b, InTableMeans
    <3> QED
      BY <3>2, <3>3, <1>1, <1>6
  <2>2. ASSUME NEW p \in InTable(bs) PROVE p \in InTable(nb)
    <3>1. PICK i \in 1..n : p \in bs[i].peers
      BY <2>2, <1>1, InTableMeans
    <3>2. CASE i < n
      <4>1. i \in 1..(n - 1) /\ i \in 1..(deepest + 2)
        BY <3>2, <1>1, <1>6
      <4> QED
        BY <3>1, <4>1, <1>8, InTableMeans
    <3>3. CASE i = n
      <4>1. p \in last /\ Cpl(p) \in (n - 1)..deepest
        BY <3>1, <3>3, <1>b, <1>1, <1>2, <1>6
      <4>2. CASE Cpl(p) = n - 1
        <5>1. n \in 1..(deepest + 2)
          BY <1>1, <1>6
        <5>2. p \in nb[n].peers
          BY <4>1, <4>2, <1>1, <1>8
        <5> QED
          BY <5>1, <5>2, <1>8, InTableMeans
      <4>3. CASE Cpl(p) # n - 1
        <5>1. /\ Cpl(p) + 1 \in (n + 1)..(deepest + 2)
              /\ Cpl(p) + 1 \in 1..(deepest + 2)
              /\ Cpl(p) = (Cpl(p) + 1) - 1
          BY <4>1, <4>3, <1>1, <1>6
        <5>2. PICK j \in (n + 1)..(deepest + 2) : j \in 1..(deepest + 2) /\ Cpl(p) = j - 1
          BY <5>1
        <5>3. p \in nb[j].peers
          BY <4>1, <5>2, <1>d, <1>e
        <5> QED
          BY <5>2, <5>3, <1>8, InTableMeans
      <4> QED
        BY <4>2, <4>3
    <3> QED
      BY <3>1, <3>2, <3>3, <1>1
  <2> QED
    BY <2>1, <2>2
<1> QED
  BY <1>11, <1>12, <1>13, <1>14 DEF Good, nb

\* Giving bucket i other peers that belong there keeps the table good.
LEMMA BucketChange ==
    ASSUME NEW bs, Good(bs), NEW i \in 1..Len(bs),
           NEW new \in [1..Len(bs) -> Bucket],
           \A j \in 1..Len(bs) : j # i => new[j] = bs[j],
           new[i].k >= BucketSize \/ new[i].k = bs[i].k,
           \A q \in new[i].peers : bucketIdForPeer(bs, q) = i
    PROVE  Good(new) /\ Len(new) = Len(bs) /\ DOMAIN new = 1..Len(bs)
<1>1. Len(bs) \in 1..MaxBuckets /\ Len(bs) \in Nat /\ DOMAIN bs = 1..Len(bs)
  BY Shape DEF Good
<1>3. Table(new) /\ Len(new) = Len(bs) /\ DOMAIN new = 1..Len(bs)
  BY <1>1, Build
<1>5. Placed(new)
  <2>1. \A p : bucketIdForPeer(new, p) = bucketIdForPeer(bs, p)
    BY <1>3 DEF bucketIdForPeer
  <2>2. \A j \in 1..Len(bs) : \A p \in bs[j].peers : j = bucketIdForPeer(bs, p)
    BY <1>1 DEF Good, Placed
  <2> QED
    BY <2>1, <2>2, <1>3 DEF Placed
<1>6. Sized(new)
  <2>1. Len(bs) > 1 => \A j \in 1..Len(bs) : bs[j].k >= BucketSize
    BY <1>1 DEF Good, Sized
  <2> QED
    BY <2>1, <1>3 DEF Sized
<1> QED
  BY <1>3, <1>5, <1>6 DEF Good

\* What an EXCEPT on the peers of a bucket is.
LEMMA PeersExcept ==
    ASSUME NEW x \in Bucket, NEW S
    PROVE  [x EXCEPT !.peers = S] = [peers |-> S, k |-> x.k]
  BY DEF Bucket

\* pushFront of a peer into its bucket.
LEMMA PushGood ==
    ASSUME NEW bs, Good(bs), NEW p \in Peers
    PROVE  LET new == pushFront(bs, bucketIdForPeer(bs, p), p)
           IN  Good(new) /\ InTable(new) = InTable(bs) \cup {p}
<1> DEFINE i == bucketIdForPeer(bs, p)
           b == [peers |-> bs[i].peers \cup {p}, k |-> bs[i].k]
           new == [bs EXCEPT ![i] = b]
<1>1. i \in 1..Len(bs)
  BY BucketId DEF Good
<1>2. /\ bs \in [1..Len(bs) -> Bucket] /\ DOMAIN bs = 1..Len(bs)
      /\ bs[i] \in Bucket /\ bs[i].peers \subseteq Peers /\ bs[i].k \in Nat
  BY <1>1, Shape DEF Good
<1>3. b \in Bucket
  BY <1>2 DEF Bucket
<1>4. \A q \in b.peers : bucketIdForPeer(bs, q) = i
  BY <1>1, <1>2 DEF Good, Placed
<1>5. b.k = bs[i].k /\ b.peers = bs[i].peers \cup {p}
  OBVIOUS
<1>6. pushFront(bs, i, p) = new
  <2>1. [bs[i] EXCEPT !.peers = @ \cup {p}] = b
    BY <1>2, PeersExcept
  <2> QED
    BY <2>1 DEF pushFront
<1> HIDE DEF i, b
<1>7. /\ new \in [1..Len(bs) -> Bucket] /\ new[i] = b
      /\ \A j \in 1..Len(bs) : j # i => new[j] = bs[j]
  BY <1>1, <1>2, <1>3
<1> HIDE DEF new
<1>8. Good(new) /\ DOMAIN new = 1..Len(bs)
  BY <1>1, <1>4, <1>5, <1>7, BucketChange
<1>9. InTable(new) = InTable(bs) \cup {p}
  BY <1>1, <1>2, <1>5, <1>7, <1>8, InTableMeans
<1> QED
  BY <1>6, <1>8, <1>9 DEF i

\* Taking peers out of a bucket, with or without a new capacity.
LEMMA ShrinkGood ==
    ASSUME NEW bs, Good(bs), NEW i \in 1..Len(bs),
           NEW new \in [1..Len(bs) -> Bucket],
           \A j \in 1..Len(bs) : j # i => new[j] = bs[j],
           new[i].k >= BucketSize \/ new[i].k = bs[i].k,
           new[i].peers \subseteq bs[i].peers
    PROVE  /\ Good(new) /\ Len(new) = Len(bs) /\ DOMAIN new = 1..Len(bs)
           /\ InTable(new) = InTable(bs) \ (bs[i].peers \ new[i].peers)
<1>1. DOMAIN bs = 1..Len(bs)
  BY Shape DEF Good
<1>3. \A j \in 1..Len(bs) : \A q \in bs[j].peers : bucketIdForPeer(bs, q) = j
  BY <1>1 DEF Good, Placed
<1>4. Good(new) /\ Len(new) = Len(bs) /\ DOMAIN new = 1..Len(bs)
  BY <1>3, BucketChange
<1>5. InTable(new) = InTable(bs) \ (bs[i].peers \ new[i].peers)
  <2>1. ASSUME NEW q \in InTable(new)
        PROVE  q \in InTable(bs) /\ ~(q \in bs[i].peers /\ q \notin new[i].peers)
    <3>1. PICK j \in 1..Len(bs) : q \in new[j].peers
      BY <2>1, <1>4, InTableMeans
    <3>2. CASE j = i
      BY <3>1, <3>2, <1>1, InTableMeans
    <3>3. CASE j # i
      <4>1. q \in bs[j].peers
        BY <3>1, <3>3
      <4>2. q \notin bs[i].peers
        BY <4>1, <3>3, <1>3
      <4> QED
        BY <4>1, <4>2, <1>1, InTableMeans
    <3> QED
      BY <3>2, <3>3
  <2>2. ASSUME NEW q \in InTable(bs), q \notin bs[i].peers \ new[i].peers
        PROVE  q \in InTable(new)
    BY <2>2, <1>1, <1>4, InTableMeans
  <2> QED
    BY <2>1, <2>2
<1> QED
  BY <1>4, <1>5

\* The collapse of empty buckets keeps a table good, keeps every bucket that
\* is not empty, and does not make the table longer.
LEMMA CollapseGood ==
    ASSUME NEW bs, Good(bs)
    PROVE  LET new == collapse(bs)
           IN  /\ Good(new) /\ Len(new) <= Len(bs)
               /\ InTable(new) = InTable(bs)
               /\ \A i \in DOMAIN bs : bs[i].peers # {} =>
                    \E j \in DOMAIN new : new[j].peers = bs[i].peers
               /\ \A j \in DOMAIN new : \E i \in DOMAIN bs : new[j] = bs[i]
<1> DEFINE n == Len(bs)
           full == {i \in DOMAIN bs : bs[i].peers # {}}
           last == Max({1} \cup full)
           second == Max({0} \cup (full \ {last}))
           new == collapse(bs)
<1>1. /\ n \in 1..MaxBuckets /\ n \in Nat /\ Width \in Nat /\ DOMAIN bs = 1..n
      /\ \A i \in 1..n : bs[i] \in Bucket /\ bs[i].peers \subseteq Peers
  BY Shape DEF Good
<1>2. /\ \A i \in 1..n : \A p \in bs[i].peers : i = bucketIdForPeer(bs, p)
      /\ n > 1 => \A i \in 1..n : bs[i].k >= BucketSize
  BY <1>1 DEF Good, Placed, Sized
<1>3. new = [i \in 1..(second + 1) |-> IF i <= second THEN bs[i] ELSE bs[last]]
  BY DEF collapse
<1>4. full \subseteq 1..n /\ \A i \in 1..n : bs[i].peers # {} => i \in full
  BY <1>1
<1> HIDE DEF new, full
<1>5. last \in {1} \cup full /\ \A x \in {1} \cup full : x <= last
  <2>1. {1} \cup full \in SUBSET (0..n) /\ {1} \cup full # {}
    BY <1>1, <1>4
  <2> QED
    BY <1>1, <2>1, MaxExists
<1> HIDE DEF last
<1>6. second \in {0} \cup (full \ {last}) /\ \A x \in {0} \cup (full \ {last}) : x <= second
  <2>0. n \in Nat /\ full \subseteq 0..n
    BY <1>1, <1>4
  <2>8. 0 \in 0..n
    BY <2>0
  <2>9. full \ {last} \subseteq 0..n
    BY <2>0
  <2>1. {0} \cup (full \ {last}) \in SUBSET (0..n) /\ {0} \cup (full \ {last}) # {}
    BY <2>8, <2>9
  <2> QED
    BY <1>1, <2>1, MaxExists
<1> HIDE DEF second, n
<1>7. last \in 1..n /\ second \in 0..n /\ second < last
  BY <1>1, <1>4, <1>5, <1>6
<1>8. \A i \in full : i = last \/ i \in 1..second
  BY <1>1, <1>4, <1>6, <1>7
<1>9. /\ \A i \in 1..second : new[i] = bs[i] /\ i \in 1..n
      /\ new[second + 1] = bs[last]
      /\ second + 1 \in 1..n
  BY <1>1, <1>3, <1>7
<1>10. Table(new) /\ Len(new) = second + 1 /\ DOMAIN new = 1..(second + 1)
  <2>1. new \in [1..(second + 1) -> Bucket]
    BY <1>1, <1>3, <1>7
  <2>2. second + 1 \in 1..MaxBuckets
    BY <1>1, <1>7 DEF MaxBuckets
  <2> QED
    BY <2>1, <2>2, Build
<1>11. Placed(new)
  <2>0. \A p : /\ bucketIdForPeer(bs, p) = IF Cpl(p) < n THEN Cpl(p) + 1 ELSE n
              /\ bucketIdForPeer(new, p) = IF Cpl(p) < second + 1 THEN Cpl(p) + 1 ELSE second + 1
    BY <1>10 DEF bucketIdForPeer, n
  <2>9. n \in Nat /\ second \in Nat /\ last \in Nat /\ second < last /\ last <= n /\ Width \in Nat
    BY <1>1, <1>7
  <2> SUFFICES ASSUME NEW i \in 1..(second + 1), NEW p \in new[i].peers
               PROVE  i = bucketIdForPeer(new, p)
    BY <1>10 DEF Placed
  <2>1. CASE i \in 1..second
    <3>1. p \in bs[i].peers /\ p \in Peers /\ i = bucketIdForPeer(bs, p) /\ Cpl(p) \in 0..Width
      BY <2>1, <1>1, <1>2, <1>9, CplType
    <3>2. i < n
      BY <2>1, <2>9
    <3> QED
      BY <2>0, <2>1, <2>9, <3>1, <3>2
  <2>2. CASE i = second + 1
    <3>1. p \in bs[last].peers /\ p \in Peers /\ last = bucketIdForPeer(bs, p) /\ Cpl(p) \in 0..Width
      BY <2>2, <1>1, <1>2, <1>7, <1>9, CplType
    <3>2. Cpl(p) >= last - 1
      BY <2>0, <2>9, <3>1
    <3> QED
      BY <2>0, <2>2, <2>9, <3>1, <3>2
  <2> QED
    BY <2>1, <2>2, <1>7
<1>12. Sized(new)
  <2> SUFFICES ASSUME Len(new) > 1, NEW i \in 1..(second + 1) PROVE new[i].k >= BucketSize
    BY <1>10 DEF Sized
  <2>1. n > 1
    BY <1>1, <1>7, <1>10
  <2>2. i \in 1..second \/ i = second + 1
    BY <1>7
  <2> QED
    BY <2>1, <2>2, <1>2, <1>7, <1>9
<1>13. ASSUME NEW i \in 1..n, bs[i].peers # {}
       PROVE  \E j \in DOMAIN new : new[j].peers = bs[i].peers
  <2>1. i = last \/ i \in 1..second
    BY <1>13, <1>4, <1>8
  <2>2. second + 1 \in DOMAIN new /\ \A j \in 1..second : j \in DOMAIN new
    BY <1>7, <1>10
  <2> QED
    BY <2>1, <2>2, <1>9
<1>14. InTable(new) = InTable(bs)
  <2>1. ASSUME NEW p \in InTable(new) PROVE p \in InTable(bs)
    <3>1. PICK i \in 1..(second + 1) : p \in new[i].peers
      BY <2>1, <1>10, InTableMeans
    <3>2. i \in 1..second \/ i = second + 1
      BY <1>7
    <3>3. \E j \in 1..n : p \in bs[j].peers
      BY <3>1, <3>2, <1>7, <1>9
    <3> QED
      BY <3>3, <1>1, InTableMeans
  <2>2. ASSUME NEW p \in InTable(bs) PROVE p \in InTable(new)
    <3>1. PICK i \in 1..n : p \in bs[i].peers
      BY <2>2, <1>1, InTableMeans
    <3>2. \E j \in DOMAIN new : new[j].peers = bs[i].peers
      BY <3>1, <1>13
    <3> QED
      BY <3>1, <3>2, InTableMeans
  <2> QED
    BY <2>1, <2>2
<1>15. Len(new) <= n
  BY <1>1, <1>7, <1>10
<1>16. ASSUME NEW j \in 1..(second + 1) PROVE \E i \in 1..n : new[j] = bs[i]
  <2>1. j \in 1..second \/ j = second + 1
    BY <1>7
  <2> QED
    BY <2>1, <1>7, <1>9
<1> QED
  BY <1>1, <1>10, <1>11, <1>12, <1>13, <1>14, <1>15, <1>16 DEF Good, new, n

\* removePeer of a peer of the table.
LEMMA RemoveGood ==
    ASSUME NEW bs, Good(bs), NEW v \in InTable(bs)
    PROVE  LET new == removePeer(bs, v)
               S == bucketForPeer(bs, v).peers
           IN  /\ v \in S /\ v \in Peers
               /\ Good(new) /\ Len(new) <= Len(bs)
               /\ InTable(new) = InTable(bs) \ {v}
               /\ S \ {v} # {} => \E j \in DOMAIN new : new[j].peers = S \ {v}
               /\ \A j \in DOMAIN new : \E i \in DOMAIN bs :
                    new[j].peers \subseteq bs[i].peers /\ new[j].k = bs[i].k
<1>1. DOMAIN bs = 1..Len(bs) /\ \A i \in 1..Len(bs) : bs[i] \in Bucket /\ bs[i].k \in Nat /\ bs[i].peers \subseteq Peers
  BY Shape DEF Good
<1>2. PICK i \in 1..Len(bs) : v \in bs[i].peers
  BY <1>1, InTableMeans
<1>3. i = bucketIdForPeer(bs, v) /\ v \in Peers
  BY <1>1, <1>2 DEF Good, Placed
<1> DEFINE S == bs[i].peers
           cut == [bs EXCEPT ![i] = [peers |-> S \ {v}, k |-> bs[i].k]]
<1>4. removePeer(bs, v) = collapse(cut)
  <2>1. [bs[i] EXCEPT !.peers = @ \ {v}] = [peers |-> S \ {v}, k |-> bs[i].k]
    BY <1>1, PeersExcept
  <2> QED
    BY <1>3, <2>1 DEF removePeer
<1>5. /\ Good(cut) /\ Len(cut) = Len(bs) /\ DOMAIN cut = 1..Len(bs)
      /\ cut[i].peers = S \ {v}
      /\ InTable(cut) = InTable(bs) \ (S \ (S \ {v}))
      /\ \A j \in 1..Len(bs) : cut[j].peers \subseteq bs[j].peers /\ cut[j].k = bs[j].k
  <2>1. /\ bs \in [1..Len(bs) -> Bucket]
        /\ [peers |-> S \ {v}, k |-> bs[i].k] \in Bucket
    BY <1>1, Shape DEF Good, Bucket
  <2>2. /\ cut \in [1..Len(bs) -> Bucket]
        /\ cut[i].peers = S \ {v} /\ cut[i].k = bs[i].k
        /\ \A j \in 1..Len(bs) : j # i => cut[j] = bs[j]
    BY <2>1
  <2> HIDE DEF cut
  <2>3. cut[i].peers \subseteq bs[i].peers
    BY <2>2
  <2>4. /\ Good(cut) /\ Len(cut) = Len(bs) /\ DOMAIN cut = 1..Len(bs)
        /\ InTable(cut) = InTable(bs) \ (bs[i].peers \ cut[i].peers)
    BY <2>2, <2>3, ShrinkGood
  <2> QED
    BY <2>2, <2>4
<1>6. InTable(cut) = InTable(bs) \ {v}
  BY <1>2, <1>5
<1>7. bucketForPeer(bs, v).peers = S
  BY <1>3 DEF bucketForPeer
<1>8. cut[i].peers = S \ {v}
  BY <1>5
<1> HIDE DEF cut
<1>9. /\ Good(collapse(cut)) /\ Len(collapse(cut)) <= Len(bs)
      /\ InTable(collapse(cut)) = InTable(cut)
      /\ cut[i].peers # {} => \E j \in DOMAIN collapse(cut) : collapse(cut)[j].peers = cut[i].peers
      /\ \A j \in DOMAIN collapse(cut) : \E l \in DOMAIN cut : collapse(cut)[j] = cut[l]
  BY <1>5, CollapseGood
<1>10. \A j \in DOMAIN collapse(cut) : \E l \in DOMAIN bs :
          collapse(cut)[j].peers \subseteq bs[l].peers /\ collapse(cut)[j].k = bs[l].k
  BY <1>1, <1>5, <1>9
<1> QED
  BY <1>2, <1>3, <1>4, <1>6, <1>7, <1>8, <1>9, <1>10

\* Replacing a peer of a bucket with at least two by one that belongs there:
\* the bucket the caller still points at is where the new peer belongs.
LEMMA SwapGood ==
    ASSUME NEW bs, Good(bs), NEW p \in Peers, NEW v \in bucketForPeer(bs, p).peers,
           bucketForPeer(bs, p).peers \ {v} # {}
    PROVE  LET new == swapped(bs, p, v)
               after == removePeer(bs, v)
           IN  /\ Good(new) /\ v \in InTable(bs)
               /\ InTable(new) = (InTable(bs) \ {v}) \cup {p}
               /\ new = pushFront(after, bucketIdForPeer(after, p), p)
               /\ bucketForPeer(after, p).peers = bucketForPeer(bs, p).peers \ {v}
<1> DEFINE rest == bucketForPeer(bs, p).peers \ {v}
           after == removePeer(bs, v)
           j == bucketHolding(after, rest)
<1>1. /\ DOMAIN bs = 1..Len(bs) /\ bucketIdForPeer(bs, p) \in 1..Len(bs)
      /\ \A i \in 1..Len(bs) : \A q \in bs[i].peers : q \in Peers /\ i = bucketIdForPeer(bs, q)
  BY Shape, BucketId DEF Good, Placed
<1>2. v \in InTable(bs) /\ bucketIdForPeer(bs, v) = bucketIdForPeer(bs, p)
  BY <1>1, InTableMeans DEF bucketForPeer
<1>3. bucketForPeer(bs, v).peers = bucketForPeer(bs, p).peers
  BY <1>2 DEF bucketForPeer
<1>4. /\ Good(after) /\ Len(after) <= Len(bs) /\ InTable(after) = InTable(bs) \ {v}
      /\ \E i \in DOMAIN after : after[i].peers = rest
  BY <1>2, <1>3, RemoveGood
<1>5. j \in DOMAIN after /\ after[j].peers = rest
  BY <1>4 DEF bucketHolding
<1>6. PICK q \in rest : TRUE
  OBVIOUS
<1>7. q \in Peers /\ bucketIdForPeer(bs, q) = bucketIdForPeer(bs, p)
  BY <1>1, <1>6 DEF bucketForPeer
<1> HIDE DEF rest, after, j
<1>8. j = bucketIdForPeer(after, q)
  BY <1>4, <1>5, <1>6 DEF Good, Placed
<1>9. bucketIdForPeer(after, q) = bucketIdForPeer(after, p)
  <2>1. Len(after) \in Nat /\ Len(bs) \in Nat /\ Len(after) <= Len(bs)
    BY <1>4, Shape DEF Good
  <2>2. Cpl(p) \in Nat /\ Cpl(q) \in Nat
    BY <1>7, CplType, RoutingTableAssumption
  <2> QED
    BY <1>7, <2>1, <2>2 DEF bucketIdForPeer
<1>10. swapped(bs, p, v) = pushFront(after, bucketIdForPeer(after, p), p)
  BY <1>8, <1>9 DEF swapped, after, rest, j
<1>11. bucketForPeer(after, p).peers = rest
  BY <1>5, <1>8, <1>9 DEF bucketForPeer
<1>12. Good(swapped(bs, p, v)) /\ InTable(swapped(bs, p, v)) = (InTable(bs) \ {v}) \cup {p}
  BY <1>4, <1>10, PushGood
<1> QED
  BY <1>2, <1>10, <1>11, <1>12 DEF after, rest

\* A peer that is not in its bucket is not in the table.
LEMMA NotThere ==
    ASSUME NEW bs, Good(bs), NEW p
    PROVE  p \in InTable(bs) => p \in bucketForPeer(bs, p).peers
  BY InTableMeans DEF Good, Placed, bucketForPeer

\* The resizing at the start of addPeerKadRTT; nothing in the other variants.
LEMMA ResizeGood ==
    ASSUME NEW bs, Good(bs), NEW p \in Peers, NEW kf \in KMaps, NEW new \in resize(bs, p, kf)
    PROVE  /\ Good(new)
           /\ InTable(new) \subseteq InTable(bs)
           /\ Adder # "addPeerKadRTT" => new = bs
           /\ bsize(bucketForPeer(new, p)) \in Nat
           /\ bsize(bucketForPeer(new, p)) >= 2
<1>1. CASE Adder # "addPeerKadRTT"
  BY <1>1, RoutingTableAssumption DEF resize, bsize
<1>2. CASE Adder = "addPeerKadRTT"
  <2> DEFINE i == bucketIdForPeer(bs, p)
             S == bs[i].peers
             excess == Cardinality(S) - kf[i]
  <2>1. i \in 1..Len(bs)
    BY BucketId DEF Good
  <2>2. bs \in [1..Len(bs) -> Bucket] /\ Len(bs) \in 1..MaxBuckets /\ S \subseteq Peers
    BY <2>1, Shape DEF Good
  <2>3. kf[i] \in Nat /\ kf[i] >= BucketSize /\ BucketSize \in Nat /\ BucketSize >= 2
    BY <2>1, <2>2, RoutingTableAssumption DEF MaxBuckets
  <2>4. PICK V \in (IF excess > 0 THEN DiscardChoices(S, excess) ELSE {{}}) :
            new = [bs EXCEPT ![i] = [peers |-> S \ V, k |-> kf[i]]]
    BY <1>2 DEF resize
  <2> HIDE DEF i, S
  <2>5. [peers |-> S \ V, k |-> kf[i]] \in Bucket
    BY <2>2, <2>3 DEF Bucket
  <2>6. /\ new \in [1..Len(bs) -> Bucket]
        /\ new[i] = [peers |-> S \ V, k |-> kf[i]]
        /\ \A j \in 1..Len(bs) : j # i => new[j] = bs[j]
    BY <2>1, <2>2, <2>4, <2>5
  <2>7. new[i].peers = S \ V /\ new[i].k = kf[i] /\ new[i].peers \subseteq bs[i].peers
    BY <2>6 DEF S
  <2>8. /\ Good(new) /\ Len(new) = Len(bs)
        /\ InTable(new) = InTable(bs) \ (bs[i].peers \ new[i].peers)
    BY <2>1, <2>3, <2>6, <2>7, ShrinkGood
  <2>9. bucketForPeer(new, p) = new[i]
    BY <2>8 DEF bucketForPeer, bucketIdForPeer, i
  <2> QED
    BY <1>2, <2>3, <2>7, <2>8, <2>9 DEF bsize
<1> QED
  BY <1>1, <1>2

\* The table in which a full bucket looks for a peer to replace.
LEMMA WideGood ==
    ASSUME NEW bs, Good(bs), NEW p \in Peers, NEW kf \in KMaps,
           bsize(bucketForPeer(bs, p)) \in Nat, bsize(bucketForPeer(bs, p)) >= 2,
           ~Fits(bucketForPeer(bs, p), bsize(bucketForPeer(bs, p)))
    PROVE  LET wide == unfold(bs, p, kf)
           IN  /\ Good(wide) /\ InTable(wide) = InTable(bs)
               /\ \/ IsLastBucket(bs, p) /\ Fits(bucketForPeer(wide, p), blen(bucketForPeer(wide, p)))
                  \/ \A v : bucketForPeer(wide, p).peers \ {v} # {}
<1> DEFINE wide == unfold(bs, p, kf)
<1>0. bucketIdForPeer(bs, p) \in 1..Len(bs) /\ bucketForPeer(bs, p) \in Bucket
  BY BucketId, Shape DEF Good, bucketForPeer
<1>1. \A v : bucketForPeer(bs, p).peers \ {v} # {}
  BY <1>0, FullBucketHasTwo
<1>2. CASE ~IsLastBucket(bs, p)
  BY <1>1, <1>2 DEF unfold
<1>3. CASE IsLastBucket(bs, p)
  <2>1. wide = nextBucket(bs, kf)
    BY <1>3 DEF unfold
  <2>2. bs[Len(bs)].peers # {}
    BY <1>1, <1>3 DEF IsLastBucket, bucketForPeer
  <2>3. Good(wide) /\ Len(wide) > 1 /\ InTable(wide) = InTable(bs)
    BY <2>1, <2>2, NextBucketGood
  <2> HIDE DEF wide
  <2>4. /\ bucketIdForPeer(wide, p) \in DOMAIN wide
        /\ bucketForPeer(wide, p) \in Bucket /\ bucketForPeer(wide, p).k \in Nat
    BY <2>3, BucketId, Shape DEF Good, bucketForPeer
  <2>5. bucketForPeer(wide, p).k >= BucketSize
    BY <2>3, <2>4 DEF Good, Sized, bucketForPeer
  <2>6. blen(bucketForPeer(wide, p)) \in Nat /\ blen(bucketForPeer(wide, p)) >= 2
    BY <2>4, <2>5, RoutingTableAssumption DEF blen
  <2>7. Fits(bucketForPeer(wide, p), blen(bucketForPeer(wide, p)))
        \/ \A v : bucketForPeer(wide, p).peers \ {v} # {}
    BY <2>4, <2>6, FullBucketHasTwo
  <2> QED
    BY <1>3, <2>3, <2>7 DEF wide
<1> QED
  BY <1>2, <1>3
-----------------------------------------------------------------------------
InfoType == [rtt : Nat, replaceable : BOOLEAN, useful : BOOLEAN]

\* The types of the state beside the buckets.
RestOK ==
    /\ info \in [Peers -> InfoType]
    /\ filter \in [Peers -> Nat]
    /\ tagged \in SUBSET Peers
    /\ ret \in [peer : Peers \cup {NoPeer}, added : BOOLEAN,
                err : {"nil", "high latency", "diversity filter", "no capacity"}]

\* The inductive invariant.  A bucket that is about to lose its last peer to a
\* replacement would be collapsed away under the pointer the code keeps to it;
\* Sized excludes that, and without it Placement is not inductive.
IInv == Good(buckets) /\ RestOK

Plain == Adder # "addPeerKadRTT"

\* What TryAddPeer(r) may do, once the resizing has left the peers T: nothing,
\* add the peer, or replace a replaceable one by it.
Stays(T, p) ==
    /\ InTable(buckets') = T
    /\ tagged' = tagged
    /\ Plain => (ret'.err = "nil" <=> p \in T)
    /\ Plain => \A q \in Peers : filter'[q] = filter[q] \/ (q = p /\ p \notin T /\ filter'[q] = 0)

Adds(T, p) ==
    /\ p \notin T
    /\ InTable(buckets') = T \cup {p}
    /\ tagged' = tagged \cup {p}
    /\ ret'.err = "nil"
    /\ UseFilter => \A q \in Peers :
            filter'[q] = IF q = p /\ p \notin Whitelist THEN filter[q] + 1 ELSE filter[q]

Swaps(T, p, v) ==
    /\ p \notin T
    /\ InTable(buckets') = (T \ {v}) \cup {p}
    /\ tagged' = (tagged \ {v}) \cup {p}
    /\ info[v].replaceable
    /\ ~Plain => info[v].rtt = 0 \/ info[v].rtt > info'[p].rtt
    /\ Plain => ret'.err = "nil"
    /\ Plain /\ UseFilter => \A q \in Peers :
            filter'[q] = IF q = v THEN 0
                         ELSE IF q = p /\ p \notin Whitelist THEN filter[q] + 1 ELSE filter[q]

Outcome(T, p) ==
    /\ T \subseteq InTable(buckets)
    /\ Plain => T = InTable(buckets)
    /\ Good(buckets') /\ RestOK'
    /\ ret'.peer = p
    /\ Stays(T, p) \/ Adds(T, p) \/ \E v \in T : Swaps(T, p, v)

\* The parts of TryAddPeer keep the types of info and ret.
LEMMA SettleType ==
    ASSUME RestOK, NEW bs, NEW r \in Requests, NEW pi \in InfoType, NEW added \in BOOLEAN,
           NEW err \in {"nil", "high latency", "diversity filter", "no capacity"},
           Settle(bs, r, pi, added, err)
    PROVE  /\ buckets' = bs
           /\ info' \in [Peers -> InfoType]
           /\ ret' \in [peer : Peers \cup {NoPeer}, added : BOOLEAN,
                        err : {"nil", "high latency", "diversity filter", "no capacity"}]
           /\ ret'.peer = r.peer /\ ret'.err = err
<1>1. NoInfo \in InfoType
  BY DEF NoInfo, InfoType
<1>2. r.peer \in Peers
  BY DEF Requests
<1>3. info' = [q \in Peers |-> IF q \notin InTable(bs) THEN NoInfo
                               ELSE IF q = r.peer THEN pi ELSE info[q]]
  BY DEF Settle
<1>4. \A q \in Peers : info[q] \in InfoType
  BY DEF RestOK
<1>5. info' \in [Peers -> InfoType]
  BY <1>1, <1>3, <1>4
<1>6. ret' = [peer |-> r.peer, added |-> added, err |-> err] /\ buckets' = bs
  BY DEF Settle
<1> QED
  BY <1>2, <1>5, <1>6

\* The filter once TryAdd has recorded a peer.
LEMMA RecordedType ==
    ASSUME RestOK, NEW p \in Peers
    PROVE  /\ recorded(p) \in [Peers -> Nat]
           /\ UseFilter => \A q \in Peers :
                recorded(p)[q] = IF q = p /\ p \notin Whitelist THEN filter[q] + 1 ELSE filter[q]
           /\ \A q \in Peers \ {p} : recorded(p)[q] = filter[q]
<1>1. filter \in [Peers -> Nat]
  BY DEF RestOK
<1>2. df!TryAddToFilter(filter, p) = IF p \in Whitelist THEN filter ELSE [filter EXCEPT ![p] = @ + 1]
  BY DEF df!TryAddToFilter
<1> QED
  BY <1>1, <1>2 DEF recorded

\* Filter.Remove forgets a peer.
LEMMA ForgottenType ==
    ASSUME NEW f \in [Peers -> Nat], NEW p \in Peers
    PROVE  /\ df!RemoveFromFilter(f, p) \in [Peers -> Nat]
           /\ \A q \in Peers : df!RemoveFromFilter(f, p)[q] = IF q = p THEN 0 ELSE f[q]
BY DEF df!RemoveFromFilter

\* pushFront of a new peer.
LEMMA PushAdds ==
    ASSUME RestOK, NEW r \in Requests, NEW bs, Good(bs), r.peer \notin InTable(bs),
           Push(bs, bucketIdForPeer(bs, r.peer), r)
    PROVE  Good(buckets') /\ RestOK' /\ ret'.peer = r.peer /\ Adds(InTable(bs), r.peer)
<1> DEFINE new == pushFront(bs, bucketIdForPeer(bs, r.peer), r.peer)
<1>1. r.peer \in Peers /\ entry(r) \in InfoType
  BY RoutingTableAssumption DEF Requests, entry, InfoType
<1>2. Good(new) /\ InTable(new) = InTable(bs) \cup {r.peer}
  BY <1>1, PushGood
<1> HIDE DEF new
<1>3. /\ Settle(new, r, entry(r), TRUE, "nil")
      /\ filter' = recorded(r.peer)
      /\ tagged' = tagged \cup {r.peer}
  BY DEF Push, new
<1>4. /\ buckets' = new
      /\ info' \in [Peers -> InfoType]
      /\ ret' \in [peer : Peers \cup {NoPeer}, added : BOOLEAN,
                   err : {"nil", "high latency", "diversity filter", "no capacity"}]
      /\ ret'.peer = r.peer /\ ret'.err = "nil"
  BY <1>1, <1>3, SettleType
<1>5. RestOK'
  BY <1>1, <1>3, <1>4, RecordedType DEF RestOK
<1>6. UseFilter => \A q \in Peers :
          filter'[q] = IF q = r.peer /\ r.peer \notin Whitelist THEN filter[q] + 1 ELSE filter[q]
  BY <1>1, <1>3, RecordedType
<1> QED
  BY <1>2, <1>3, <1>4, <1>5, <1>6 DEF Adds

\* TryAddPeer does one of the three things, in every variant.
LEMMA AddOutcome ==
    ASSUME IInv, NEW r \in Requests, NEW kf \in KMaps, NEW lat, NEW connected,
           TryAddPeer(r, kf, lat, connected)
    PROVE  \E T \in SUBSET InTable(buckets) : Outcome(T, r.peer)
<1> DEFINE p == r.peer
<1>1. p \in Peers /\ r.rtt \in Nat /\ r.queryPeer \in BOOLEAN
  BY RoutingTableAssumption DEF Requests
<1>2. PICK bs \in resize(buckets, p, kf) :
        \/ AlreadyThere(bs, r)
        \/ /\ p \notin bucketForPeer(bs, p).peers
           /\ \/ RejectHighLatency(bs, r, lat)
              \/ RejectByFilter(bs, r, connected)
              \/ AddWithSpace(bs, r)
              \/ /\ ~Fits(bucketForPeer(bs, p), bsize(bucketForPeer(bs, p)))
                 /\ FullBucket(bs, r, kf, lat)
  BY Zenon DEF TryAddPeer
<1>3. /\ Good(bs) /\ InTable(bs) \subseteq InTable(buckets) /\ (Plain => bs = buckets)
      /\ bsize(bucketForPeer(bs, p)) \in Nat /\ bsize(bucketForPeer(bs, p)) >= 2
  BY <1>1, ResizeGood DEF IInv, Plain
<1>4. RestOK
  BY DEF IInv
<1> DEFINE T == InTable(bs)
<1> SUFFICES Good(buckets') /\ RestOK' /\ ret'.peer = p
             /\ (Stays(T, p) \/ Adds(T, p) \/ \E v \in T : Swaps(T, p, v))
  BY <1>3, Zenon DEF Outcome
<1>5. bucketIdForPeer(bs, p) \in DOMAIN bs
  BY <1>1, <1>3, BucketId, Shape DEF Good
<1>6. NoInfo \in InfoType
  BY DEF NoInfo, InfoType
<1> HIDE DEF T, p
<1>7. CASE AlreadyThere(bs, r)
  <2> DEFINE pi == [info[r.peer] EXCEPT !.useful = @ \/ r.queryPeer]
  <2>1. pi \in InfoType
    BY <1>1, <1>4 DEF RestOK, InfoType, p
  <2>2. /\ p \in bucketForPeer(bs, p).peers
        /\ Settle(bs, r, pi, FALSE, "nil")
        /\ filter' = filter /\ tagged' = tagged
    BY <1>7 DEF AlreadyThere, p
  <2> HIDE DEF pi
  <2>3. p \in T
    BY <1>5, <2>2, InTableMeans DEF bucketForPeer, T
  <2>4. /\ buckets' = bs
        /\ info' \in [Peers -> InfoType]
        /\ ret' \in [peer : Peers \cup {NoPeer}, added : BOOLEAN,
                     err : {"nil", "high latency", "diversity filter", "no capacity"}]
        /\ ret'.peer = r.peer /\ ret'.err = "nil"
    BY <1>4, <2>1, <2>2, SettleType
  <2>5. RestOK'
    BY <1>4, <2>2, <2>4 DEF RestOK
  <2> QED
    BY <1>3, <2>2, <2>3, <2>4, <2>5 DEF Stays, T, p
<1>8. CASE p \notin bucketForPeer(bs, p).peers
  <2>1. p \notin T
    BY <1>3, <1>8, NotThere DEF T
  <2>2. ASSUME NEW err \in {"high latency", "diversity filter"},
               Settle(bs, r, NoInfo, FALSE, err), filter' = filter, tagged' = tagged
        PROVE  Good(buckets') /\ RestOK' /\ ret'.peer = p /\ Stays(T, p)
    <3>1. /\ buckets' = bs
          /\ info' \in [Peers -> InfoType]
          /\ ret' \in [peer : Peers \cup {NoPeer}, added : BOOLEAN,
                       err : {"nil", "high latency", "diversity filter", "no capacity"}]
          /\ ret'.peer = r.peer /\ ret'.err = err
      <4>1. err \in {"nil", "high latency", "diversity filter", "no capacity"} /\ FALSE \in BOOLEAN
        OBVIOUS
      <4> QED
        BY <1>4, <1>6, <2>2, <4>1, SettleType
    <3>2. RestOK'
      BY <1>4, <2>2, <3>1 DEF RestOK
    <3> QED
      BY <1>3, <2>1, <2>2, <3>1, <3>2 DEF Stays, T, p
  <2>3. CASE RejectHighLatency(bs, r, lat)
    BY <2>2, <2>3 DEF RejectHighLatency
  <2>4. CASE RejectByFilter(bs, r, connected)
    BY <2>2, <2>4 DEF RejectByFilter
  <2>5. CASE AddWithSpace(bs, r)
    <3>1. Push(bs, bucketIdForPeer(bs, r.peer), r)
      BY <2>5 DEF AddWithSpace
    <3> QED
      BY <1>3, <1>4, <2>1, <3>1, PushAdds DEF T, p
  <2>6. CASE ~Fits(bucketForPeer(bs, p), bsize(bucketForPeer(bs, p))) /\ FullBucket(bs, r, kf, lat)
    <3> DEFINE wide == unfold(bs, p, kf)
    <3>1. /\ Good(wide) /\ InTable(wide) = T
          /\ \/ IsLastBucket(bs, p) /\ Fits(bucketForPeer(wide, p), blen(bucketForPeer(wide, p)))
             \/ \A v : bucketForPeer(wide, p).peers \ {v} # {}
      BY <1>1, <1>3, <2>6, WideGood DEF T, p
    <3>2. \/ AddUnfolded(bs, wide, r)
          \/ /\ ~(/\ IsLastBucket(bs, p)
                  /\ Fits(bucketForPeer(wide, p), blen(bucketForPeer(wide, p))))
             /\ \/ ReplacePeer(wide, r)
                \/ ExchangePeer(wide, r, lat)
                \/ RejectNoCapacity(wide, r, lat)
      BY <2>6, Zenon DEF FullBucket, p
    <3> HIDE DEF wide
    <3>3. CASE AddUnfolded(bs, wide, r)
      <4>1. Push(wide, bucketIdForPeer(wide, r.peer), r)
        BY <3>3 DEF AddUnfolded
      <4> QED
        BY <1>4, <2>1, <3>1, <4>1, PushAdds DEF p
    <3>4. ASSUME NEW v \in bucketForPeer(wide, p).peers,
                 \A w : bucketForPeer(wide, p).peers \ {w} # {}
          PROVE  Good(swapped(wide, p, v)) /\ v \in T /\ v \in Peers /\ v # p
                 /\ InTable(swapped(wide, p, v)) = (T \ {v}) \cup {p}
      <4>1. /\ Good(swapped(wide, p, v)) /\ v \in T
            /\ InTable(swapped(wide, p, v)) = (T \ {v}) \cup {p}
        BY <1>1, <3>1, <3>4, SwapGood DEF p
      <4>2. v \in Peers
        BY <3>1, <4>1, RemoveGood
      <4> QED
        BY <2>1, <4>1, <4>2
    <3>5. CASE ReplacePeer(wide, r) /\ \A w : bucketForPeer(wide, p).peers \ {w} # {}
      <4>1. PICK v \in bucketForPeer(wide, p).peers :
              /\ info[v].replaceable
              /\ Settle(swapped(wide, p, v), r, entry(r), TRUE, "nil")
              /\ filter' = df!RemoveFromFilter(recorded(p), v)
              /\ tagged' = (tagged \ {v}) \cup {p}
        BY <3>5, Zenon DEF ReplacePeer, p
      <4>2. /\ Good(swapped(wide, p, v)) /\ v \in T /\ v \in Peers /\ v # p
            /\ InTable(swapped(wide, p, v)) = (T \ {v}) \cup {p}
        BY <3>4, <3>5
      <4>3. entry(r) \in InfoType
        BY RoutingTableAssumption DEF Requests, entry, InfoType
      <4>4. /\ buckets' = swapped(wide, p, v)
            /\ info' \in [Peers -> InfoType]
            /\ ret' \in [peer : Peers \cup {NoPeer}, added : BOOLEAN,
                         err : {"nil", "high latency", "diversity filter", "no capacity"}]
            /\ ret'.peer = p /\ ret'.err = "nil"
        BY <1>4, <4>1, <4>3, SettleType DEF p
      <4>5. /\ recorded(p) \in [Peers -> Nat]
            /\ UseFilter => \A q \in Peers :
                  recorded(p)[q] = IF q = p /\ p \notin Whitelist THEN filter[q] + 1 ELSE filter[q]
        BY <1>1, <1>4, RecordedType DEF p
      <4>6. /\ filter' \in [Peers -> Nat]
            /\ \A q \in Peers : filter'[q] = IF q = v THEN 0 ELSE recorded(p)[q]
        BY <4>1, <4>2, <4>5, ForgottenType
      <4>7. RestOK'
        BY <1>1, <1>4, <4>1, <4>4, <4>6 DEF RestOK, p
      <4>8. Plain /\ UseFilter => \A q \in Peers :
                filter'[q] = IF q = v THEN 0
                             ELSE IF q = p /\ p \notin Whitelist THEN filter[q] + 1 ELSE filter[q]
        BY <4>5, <4>6
      <4>9. Swaps(T, p, v)
        <5>1. Plain
          BY <3>5 DEF ReplacePeer, Plain
        <5> QED
          BY <2>1, <4>1, <4>2, <4>4, <4>8, <5>1 DEF Swaps
      <4> QED
        BY <4>2, <4>4, <4>7, <4>9
    <3>6. CASE ExchangePeer(wide, r, lat) /\ \A w : bucketForPeer(wide, p).peers \ {w} # {}
      <4> DEFINE pi == [rtt |-> r.rtt, replaceable |-> TRUE, useful |-> TRUE]
      <4>1. PICK v \in victims(wide, r, lat) :
              /\ info[v].replaceable
              /\ Settle(swapped(wide, p, v), r, pi, FALSE, "no capacity")
              /\ filter' = df!RemoveFromFilter(df!RemoveFromFilter(recorded(p), v), p)
              /\ tagged' = (tagged \ {v}) \cup {p}
        BY <3>6, Zenon DEF ExchangePeer, p
      <4>2. v \in bucketForPeer(wide, p).peers
        BY <4>1, Zenon DEF victims, ExchangeVictim, Neighboured, p
      <4>3. /\ Good(swapped(wide, p, v)) /\ v \in T /\ v \in Peers /\ v # p
            /\ InTable(swapped(wide, p, v)) = (T \ {v}) \cup {p}
        BY <3>4, <3>6, <4>2
      <4>4. pi \in InfoType
        BY <1>1 DEF InfoType
      <4> HIDE DEF pi
      <4>5. /\ buckets' = swapped(wide, p, v)
            /\ info' \in [Peers -> InfoType]
            /\ ret' \in [peer : Peers \cup {NoPeer}, added : BOOLEAN,
                         err : {"nil", "high latency", "diversity filter", "no capacity"}]
            /\ ret'.peer = p
        BY <1>4, <4>1, <4>4, SettleType DEF p
      <4>6. filter' \in [Peers -> Nat]
        BY <1>1, <1>4, <4>1, <4>3, RecordedType, ForgottenType
      <4>7. RestOK'
        BY <1>1, <1>4, <4>1, <4>5, <4>6 DEF RestOK, p
      <4>8. ~Plain
        BY <3>6 DEF ExchangePeer, Plain
      <4>9. Swaps(T, p, v)
        <5>1. v \in slowerPeers(bucketForPeer(wide, p).peers, r.rtt, lat)
          BY <4>1, Zenon DEF victims, ExchangeVictim, p
        <5>2. info[v].rtt = 0 \/ info[v].rtt > r.rtt
          BY <5>1 DEF slowerPeers
        <5>3. info' = [q \in Peers |-> IF q \notin InTable(swapped(wide, p, v)) THEN NoInfo
                                       ELSE IF q = r.peer THEN pi ELSE info[q]]
          BY <4>1 DEF Settle
        <5>4. info'[p] = pi
          BY <1>1, <4>3, <5>3 DEF p
        <5>5. info'[p].rtt = r.rtt
          BY <5>4 DEF pi
        <5> QED
          BY <2>1, <4>1, <4>3, <4>5, <4>8, <5>2, <5>5 DEF Swaps
      <4> QED
        BY <4>3, <4>5, <4>7, <4>9
    <3>7. CASE RejectNoCapacity(wide, r, lat)
      <4>1. /\ Settle(wide, r, NoInfo, FALSE, "no capacity")
            /\ filter' = df!RemoveFromFilter(recorded(p), p)
            /\ tagged' = tagged
        BY <3>7 DEF RejectNoCapacity, p
      <4>2. /\ buckets' = wide
            /\ info' \in [Peers -> InfoType]
            /\ ret' \in [peer : Peers \cup {NoPeer}, added : BOOLEAN,
                         err : {"nil", "high latency", "diversity filter", "no capacity"}]
            /\ ret'.peer = p /\ ret'.err = "no capacity"
        BY <1>4, <1>6, <4>1, SettleType DEF p
      <4>3. /\ filter' \in [Peers -> Nat]
            /\ \A q \in Peers : filter'[q] = IF q = p THEN 0 ELSE recorded(p)[q]
        BY <1>1, <1>4, <4>1, RecordedType, ForgottenType
      <4>4. \A q \in Peers \ {p} : filter'[q] = filter[q]
        BY <1>1, <1>4, <4>3, RecordedType
      <4>5. RestOK'
        BY <1>4, <4>1, <4>2, <4>3 DEF RestOK
      <4>6. Stays(T, p)
        BY <2>1, <3>1, <4>1, <4>2, <4>3, <4>4 DEF Stays
      <4> QED
        BY <3>1, <4>2, <4>5, <4>6
    <3> QED
      BY <3>1, <3>2, <3>3, <3>5, <3>6, <3>7
  <2> QED
    BY <1>2, <1>7, <1>8, <2>3, <2>4, <2>5, <2>6
<1> QED
  BY <1>2, <1>7, <1>8

\* RemovePeer takes one peer out of the table, the tags and the filter.
LEMMA RemoveOutcome ==
    ASSUME IInv, NEW p \in Peers, RemovePeer(p)
    PROVE  /\ Good(buckets') /\ RestOK' /\ ret'.peer = NoPeer
           /\ InTable(buckets') = InTable(buckets) \ {p}
           /\ tagged' = tagged \ {p}
           /\ \A q \in Peers : filter'[q] = IF q = p THEN 0 ELSE filter[q]
<1>1. Good(buckets) /\ RestOK
  BY DEF IInv
<1>2. bucketIdForPeer(buckets, p) \in DOMAIN buckets
  BY <1>1, BucketId, Shape DEF Good
<1>3. p \in InTable(buckets)
  BY <1>2, InTableMeans DEF RemovePeer, bucketForPeer
<1>4. Good(buckets') /\ InTable(buckets') = InTable(buckets) \ {p}
  BY <1>1, <1>3, RemoveGood DEF RemovePeer
<1>5. filter' \in [Peers -> Nat] /\ \A q \in Peers : filter'[q] = IF q = p THEN 0 ELSE filter[q]
  <2>1. filter \in [Peers -> Nat]
    BY <1>1 DEF RestOK
  <2>2. filter' = df!RemoveFromFilter(filter, p)
    BY DEF RemovePeer
  <2> QED
    BY <2>1, <2>2, ForgottenType
<1>6. NoInfo \in InfoType /\ info' = [info EXCEPT ![p] = NoInfo]
  BY DEF NoInfo, InfoType, RemovePeer
<1>7. ret' = [peer |-> NoPeer, added |-> FALSE, err |-> "nil"]
  BY DEF RemovePeer, NoAnswer
<1>8. info' \in [Peers -> InfoType]
  BY <1>1, <1>6 DEF RestOK
<1>9. tagged' = tagged \ {p}
  BY DEF RemovePeer
<1>10. RestOK'
  BY <1>1, <1>5, <1>7, <1>8, <1>9 DEF RestOK
<1> QED
  BY <1>4, <1>5, <1>7, <1>9, <1>10

\* The operations that only touch the PeerInfo of peers in the table.
Quiet == UNCHANGED <<buckets, filter, tagged>>

\* MarkAllPeersIrreplaceable and UpdateLastUsefulAt are quiet.
LEMMA QuietOutcome ==
    ASSUME IInv, MarkAllPeersIrreplaceable \/ \E p \in Peers : UpdateLastUsefulAt(p)
    PROVE  Quiet /\ RestOK' /\ ret'.peer = NoPeer
<1>1. RestOK /\ \A p \in Peers : info[p] \in InfoType
  BY DEF IInv, RestOK
<1>2. CASE MarkAllPeersIrreplaceable
  <2>1. \A p \in Peers : [info[p] EXCEPT !.replaceable = FALSE] \in InfoType
    BY <1>1 DEF InfoType
  <2>2. info' \in [Peers -> InfoType]
    BY <1>2, <2>1 DEF MarkAllPeersIrreplaceable
  <2> QED
    BY <1>1, <1>2, <2>2 DEF MarkAllPeersIrreplaceable, RestOK, Quiet, NoAnswer
<1>3. CASE \E p \in Peers : UpdateLastUsefulAt(p)
  <2>1. PICK p \in Peers : UpdateLastUsefulAt(p)
    BY <1>3
  <2>2. [info[p] EXCEPT !.useful = TRUE] \in InfoType
    BY <1>1 DEF InfoType
  <2>3. info' = [info EXCEPT ![p] = [info[p] EXCEPT !.useful = TRUE]]
    BY <2>1 DEF UpdateLastUsefulAt
  <2>4. info' \in [Peers -> InfoType]
    BY <1>1, <2>2, <2>3 DEF RestOK
  <2> QED
    BY <1>1, <2>1, <2>4 DEF UpdateLastUsefulAt, RestOK, Quiet, NoAnswer
<1> QED
  BY <1>2, <1>3

\* The steps of the table, as the theorems below use them.
LEMMA Steps ==
    ASSUME IInv, [Next]_vars
    PROVE  /\ IInv'
           /\ \/ \E p \in Peers : \E T \in SUBSET InTable(buckets) : Outcome(T, p)
              \/ /\ ret'.peer = NoPeer
                 /\ \E p \in Peers :
                      /\ InTable(buckets') = InTable(buckets) \ {p}
                      /\ tagged' = tagged \ {p}
                      /\ \A q \in Peers : filter'[q] = IF q = p THEN 0 ELSE filter[q]
              \/ ret'.peer = NoPeer /\ Quiet
              \/ UNCHANGED vars
<1>1. CASE \E r \in Requests, kf \in KMaps, lat \in LatencyMaps, connected \in Connected :
                TryAddPeer(r, kf, lat, connected)
  <2>1. PICK r \in Requests, kf \in KMaps, lat \in LatencyMaps, connected \in Connected :
                TryAddPeer(r, kf, lat, connected)
    BY <1>1
  <2>2. PICK T \in SUBSET InTable(buckets) : Outcome(T, r.peer)
    BY <2>1, AddOutcome
  <2>3. r.peer \in Peers
    BY DEF Requests
  <2>4. Good(buckets') /\ RestOK'
    BY <2>2 DEF Outcome
  <2>5. IInv'
    BY <2>4 DEF IInv
  <2> QED
    BY <2>2, <2>3, <2>5
<1>2. CASE \E p \in Peers : RemovePeer(p)
  <2>1. PICK p \in Peers : RemovePeer(p)
    BY <1>2
  <2>2. /\ Good(buckets') /\ RestOK' /\ ret'.peer = NoPeer
        /\ InTable(buckets') = InTable(buckets) \ {p}
        /\ tagged' = tagged \ {p}
        /\ \A q \in Peers : filter'[q] = IF q = p THEN 0 ELSE filter[q]
    BY <2>1, RemoveOutcome
  <2>3. IInv'
    BY <2>2 DEF IInv
  <2> QED
    BY <2>2, <2>3
<1>3. CASE MarkAllPeersIrreplaceable \/ \E p \in Peers : UpdateLastUsefulAt(p)
  <2>1. Quiet /\ RestOK' /\ ret'.peer = NoPeer
    BY <1>3, QuietOutcome
  <2>2. IInv'
    BY <2>1 DEF IInv, Quiet
  <2> QED
    BY <2>1, <2>2
<1>4. CASE UNCHANGED vars
  BY <1>4 DEF vars, IInv, RestOK
<1> QED
  BY <1>1, <1>2, <1>3, <1>4 DEF Next

\* The empty table of NewRoutingTable.
LEMMA InitGood ==
    ASSUME Init PROVE IInv /\ InTable(buckets) = {} /\ ret.peer = NoPeer
<1>1. newBucket \in Bucket /\ newBucket.peers = {} /\ MaxBuckets \in Nat /\ 1 \in 1..MaxBuckets
  BY RoutingTableAssumption DEF newBucket, Bucket, MaxBuckets
<1>2. /\ buckets = <<newBucket>> /\ Len(buckets) = 1 /\ buckets[1] = newBucket
      /\ DOMAIN buckets = {1} /\ buckets \in Seq(Bucket)
  BY <1>1 DEF Init
<1>3. Good(buckets) /\ InTable(buckets) = {}
  <2>1. Table(buckets)
    BY <1>1, <1>2 DEF Table
  <2>2. \A i \in DOMAIN buckets : buckets[i].peers = {}
    BY <1>1, <1>2
  <2>3. Placed(buckets)
    BY <2>2 DEF Placed
  <2>4. Sized(buckets)
    BY <1>2 DEF Sized
  <2>5. InTable(buckets) = {}
    BY <2>2, InTableMeans
  <2> QED
    BY <2>1, <2>3, <2>4, <2>5 DEF Good
<1>4. NoInfo \in InfoType /\ NoAnswer.peer = NoPeer
  BY DEF NoInfo, InfoType, NoAnswer
<1>5. df!EmptyFilter \in [Peers -> Nat]
  BY DEF df!EmptyFilter
<1>6. RestOK
  BY <1>4, <1>5 DEF Init, RestOK, NoAnswer
<1> QED
  BY <1>3, <1>4, <1>6 DEF IInv, Init

\* The inductive invariant holds in every reachable state.
LEMMA Inductive == Spec => []IInv
<1>1. Init => IInv
  BY InitGood
<1>2. IInv /\ [Next]_vars => IInv'
  BY Steps
<1> QED
  BY <1>1, <1>2, PTL DEF Spec

\* The table keeps its types: buckets, PeerInfo, filter, tags and answers.
THEOREM TypeCorrect == Spec => []TypeOK
<1>1. IInv => TypeOK
  BY DEF IInv, Good, Table, Bucket, RestOK, InfoType, TypeOK
<1> QED
  BY <1>1, Inductive, PTL

\* Every peer of the table is in the bucket bucketIdForPeer gives for it,
\* whatever unfoldings, resizings, replacements and collapses came before.
THEOREM PlacementCorrect == Spec => []Placement
<1>1. IInv => Placement
  BY DEF IInv, Good, Placement
<1> QED
  BY <1>1, Inductive, PTL

\* No peer in the table is left without its connection-manager tag, in any of
\* the three variants of TryAddPeer.
THEOREM TagsCovered == Spec => []TagsCoverTable
<1>1. Init => TagsCoverTable
  BY InitGood DEF TagsCoverTable
<1>2. IInv /\ TagsCoverTable /\ [Next]_vars => TagsCoverTable'
  <2> SUFFICES ASSUME IInv, TagsCoverTable, [Next]_vars PROVE TagsCoverTable'
    OBVIOUS
  <2> USE DEF TagsCoverTable
  <2>1. CASE \E p \in Peers : \E T \in SUBSET InTable(buckets) : Outcome(T, p)
    BY <2>1 DEF Outcome, Stays, Adds, Swaps
  <2>2. CASE \E p \in Peers : InTable(buckets') = InTable(buckets) \ {p} /\ tagged' = tagged \ {p}
    BY <2>2
  <2>3. CASE Quiet \/ UNCHANGED vars
    BY <2>3 DEF Quiet, vars
  <2> QED
    BY <2>1, <2>2, <2>3, Steps
<1> QED
  BY <1>1, <1>2, Inductive, PTL DEF Spec

\* In the variants without resizing the callbacks follow the table exactly.
THEOREM TagsMatch ==
    ASSUME Adder # "addPeerKadRTT" PROVE Spec => []TagsMatchTable
<1>1. Init => TagsMatchTable
  BY InitGood DEF TagsMatchTable, Init
<1>2. IInv /\ TagsMatchTable /\ [Next]_vars => TagsMatchTable'
  <2> SUFFICES ASSUME IInv, TagsMatchTable, [Next]_vars PROVE TagsMatchTable'
    OBVIOUS
  <2> USE DEF TagsMatchTable
  <2>1. CASE \E p \in Peers : \E T \in SUBSET InTable(buckets) : Outcome(T, p)
    BY <2>1 DEF Outcome, Stays, Adds, Swaps, Plain
  <2>2. CASE \E p \in Peers : InTable(buckets') = InTable(buckets) \ {p} /\ tagged' = tagged \ {p}
    BY <2>2
  <2>3. CASE Quiet \/ UNCHANGED vars
    BY <2>3 DEF Quiet, vars
  <2> QED
    BY <2>1, <2>2, <2>3, Steps
<1> QED
  BY <1>1, <1>2, Inductive, PTL DEF Spec

\* In the variants without resizing TryAddPeer returns an error exactly when
\* the peer is not in the table afterwards.
THEOREM AnswersAreTrue ==
    ASSUME Adder # "addPeerKadRTT" PROVE Spec => []AnswerIsTrue
<1>1. Init => AnswerIsTrue
  BY InitGood DEF AnswerIsTrue
<1>2. IInv /\ AnswerIsTrue /\ [Next]_vars => AnswerIsTrue'
  <2> SUFFICES ASSUME IInv, AnswerIsTrue, [Next]_vars PROVE AnswerIsTrue'
    OBVIOUS
  <2> USE DEF AnswerIsTrue
  <2>1. CASE \E p \in Peers : \E T \in SUBSET InTable(buckets) : Outcome(T, p)
    BY <2>1 DEF Outcome, Stays, Adds, Swaps, Plain
  <2>2. CASE ret'.peer = NoPeer
    BY <2>2
  <2>3. CASE UNCHANGED vars
    BY <2>3 DEF vars
  <2> QED
    BY <2>1, <2>2, <2>3, Steps
<1> QED
  BY <1>1, <1>2, Inductive, PTL DEF Spec

\* In the variants without resizing the diversity filter records each peer of
\* the table once and forgets every peer that leaves it or finds no place.
THEOREM FilterMatches ==
    ASSUME Adder # "addPeerKadRTT" PROVE Spec => []FilterMatchesTable
<1>1. Init => FilterMatchesTable
  BY InitGood DEF FilterMatchesTable, Init, df!EmptyFilter
<1>2. IInv /\ FilterMatchesTable /\ [Next]_vars => FilterMatchesTable'
  <2> SUFFICES ASSUME IInv, FilterMatchesTable, [Next]_vars, UseFilter, NEW q \in Peers
               PROVE  filter'[q] = IF q \in InTable(buckets') \ Whitelist THEN 1 ELSE 0
    BY DEF FilterMatchesTable
  <2>0. filter[q] = IF q \in InTable(buckets) \ Whitelist THEN 1 ELSE 0
    BY DEF FilterMatchesTable
  <2>1. CASE \E p \in Peers : \E T \in SUBSET InTable(buckets) : Outcome(T, p)
    <3>1. PICK p \in Peers, T \in SUBSET InTable(buckets) : Outcome(T, p)
      BY <2>1
    <3>2. T = InTable(buckets)
      BY <3>1 DEF Outcome, Plain
    <3>3. CASE Stays(T, p)
      BY <2>0, <3>2, <3>3 DEF Stays, Plain
    <3>4. CASE Adds(T, p)
      BY <2>0, <3>2, <3>4 DEF Adds, Plain
    <3>5. CASE \E v \in T : Swaps(T, p, v)
      BY <2>0, <3>2, <3>5 DEF Swaps, Plain
    <3> QED
      BY <3>1, <3>3, <3>4, <3>5 DEF Outcome
  <2>2. CASE \E p \in Peers : /\ InTable(buckets') = InTable(buckets) \ {p}
                              /\ \A x \in Peers : filter'[x] = IF x = p THEN 0 ELSE filter[x]
    BY <2>0, <2>2
  <2>3. CASE Quiet \/ UNCHANGED vars
    BY <2>0, <2>3 DEF Quiet, vars
  <2> QED
    BY <2>1, <2>2, <2>3, Steps
<1> QED
  BY <1>1, <1>2, Inductive, PTL DEF Spec

\* In the variants without resizing a peer that may not be replaced leaves the
\* table by RemovePeer only.
THEOREM IrreplaceableStay ==
    ASSUME Adder # "addPeerKadRTT" PROVE Spec => IrreplaceableStays
<1>1. IInv /\ [Next]_vars =>
        [\A p \in InTable(buckets) \ InTable(buckets') :
            info[p].replaceable \/ ret'.peer = NoPeer]_vars
  <2> SUFFICES ASSUME IInv, [Next]_vars, ~UNCHANGED vars,
                      NEW q \in InTable(buckets) \ InTable(buckets'), ret'.peer # NoPeer
               PROVE  info[q].replaceable
    OBVIOUS
  <2>1. PICK p \in Peers, T \in SUBSET InTable(buckets) : Outcome(T, p)
    BY Steps
  <2> QED
    BY <2>1 DEF Outcome, Stays, Adds, Swaps, Plain
<1> QED
  BY <1>1, Inductive, PTL DEF Spec, IrreplaceableStays

\* addPeerKadRTT exchanges a peer only if it was replaceable and the new peer
\* answered faster than it, as far as its round-trip time was known.
THEOREM ExchangesAreFaster ==
    ASSUME Adder = "addPeerKadRTT" PROVE Spec => ExchangedForFaster
<1>1. IInv /\ [Next]_vars =>
        [\A p \in tagged \ tagged' : ret'.peer # NoPeer =>
            /\ info[p].replaceable
            /\ info[p].rtt = 0 \/ info[p].rtt > info'[ret'.peer].rtt]_vars
  <2> SUFFICES ASSUME IInv, [Next]_vars, ~UNCHANGED vars,
                      NEW q \in tagged \ tagged', ret'.peer # NoPeer
               PROVE  /\ info[q].replaceable
                      /\ info[q].rtt = 0 \/ info[q].rtt > info'[ret'.peer].rtt
    OBVIOUS
  <2>1. PICK p \in Peers, T \in SUBSET InTable(buckets) : Outcome(T, p)
    BY Steps
  <2>2. ret'.peer = p
    BY <2>1 DEF Outcome
  <2>3. \E v \in T : Swaps(T, p, v)
    BY <2>1 DEF Outcome, Stays, Adds
  <2> QED
    BY <2>2, <2>3 DEF Swaps, Plain
<1> QED
  BY <1>1, Inductive, PTL DEF Spec, ExchangedForFaster
-----------------------------------------------------------------------------
(***************************************************************************)
(* The size of the buckets.                                                *)
(***************************************************************************)

\* n is at most a capacity that CalcKOpt gives to some bucket.
Within(n) == \E kf \in KMaps : \E j \in 1..MaxBuckets : n <= kf[j]

\* A bucket whose capacity and whose length are within those of CalcKOpt.
RoomyBucket(b) == IsFiniteSet(b.peers) /\ Within(Cardinality(b.peers)) /\ Within(b.k)

\* CapacityBound alone is not inductive: a bucket accepts peers up to its k.
Roomy(bs) == \A i \in DOMAIN bs : RoomyBucket(bs[i])

\* What CalcKOpt gives is within, and so is bucketsize and everything below it.
LEMMA WithinK ==
    /\ \A kf \in KMaps : \A j \in 1..MaxBuckets : kf[j] \in Nat /\ Within(kf[j])
    /\ \A n \in Nat : n <= BucketSize => Within(n)
<1>1. \A kf \in KMaps : \A j \in 1..MaxBuckets : kf[j] \in Nat /\ kf[j] >= BucketSize
  BY RoutingTableAssumption
<1>2. PICK kf \in KMaps : TRUE
  BY RoutingTableAssumption
<1>3. 1 \in 1..MaxBuckets /\ BucketSize \in Nat
  BY RoutingTableAssumption DEF MaxBuckets
<1>4. ASSUME NEW n \in Nat, n <= BucketSize PROVE Within(n)
  <2>1. n <= kf[1]
    BY <1>1, <1>3, <1>4
  <2> QED
    BY <1>3, <2>1 DEF Within
<1>5. ASSUME NEW g \in KMaps, NEW j \in 1..MaxBuckets PROVE Within(g[j])
  <2>1. g[j] <= g[j]
    BY <1>1
  <2> QED
    BY <2>1 DEF Within
<1> QED
  BY <1>1, <1>4, <1>5

\* Less than something within is within.
LEMMA WithinLess ==
    ASSUME NEW n \in Nat, NEW m \in Nat, m <= n, Within(n)
    PROVE  Within(m)
<1>1. PICK kf \in KMaps, j \in 1..MaxBuckets : n <= kf[j]
  BY DEF Within
<1>2. kf[j] \in Nat
  BY WithinK
<1>3. m <= kf[j]
  BY <1>1, <1>2
<1> QED
  BY <1>3 DEF Within

\* A bucket that holds some peers of a roomy bucket is roomy.
LEMMA RoomySmaller ==
    ASSUME NEW b, RoomyBucket(b), NEW c, c.peers \subseteq b.peers, Within(c.k)
    PROVE  RoomyBucket(c)
<1>1. /\ IsFiniteSet(c.peers) /\ IsFiniteSet(b.peers)
      /\ Cardinality(c.peers) <= Cardinality(b.peers)
  BY FS_Subset DEF RoomyBucket
<1>2. Cardinality(c.peers) \in Nat /\ Cardinality(b.peers) \in Nat
  BY <1>1, FS_CardinalityType
<1> QED
  BY <1>1, <1>2, WithinLess DEF RoomyBucket

\* A peer is pushed into a bucket that keeps within a capacity.
LEMMA PushRoomy ==
    ASSUME NEW bs, Good(bs), Roomy(bs), NEW p \in Peers,
           Within(Cardinality(bucketForPeer(bs, p).peers \cup {p}))
    PROVE  Roomy(pushFront(bs, bucketIdForPeer(bs, p), p))
<1> DEFINE i == bucketIdForPeer(bs, p)
           b == [peers |-> bs[i].peers \cup {p}, k |-> bs[i].k]
           new == [bs EXCEPT ![i] = b]
<1>1. /\ i \in 1..Len(bs) /\ DOMAIN bs = 1..Len(bs)
      /\ bs[i] \in Bucket
  BY BucketId, Shape DEF Good
<1>2. pushFront(bs, i, p) = new
  <2>1. [bs[i] EXCEPT !.peers = @ \cup {p}] = b
    BY <1>1, PeersExcept
  <2> QED
    BY <2>1 DEF pushFront
<1>3. RoomyBucket(bs[i])
  BY <1>1 DEF Roomy
<1>4. IsFiniteSet(bs[i].peers \cup {p})
  BY <1>3, FS_AddElement DEF RoomyBucket
<1>5. RoomyBucket(b)
  BY <1>3, <1>4 DEF RoomyBucket, bucketForPeer
<1> HIDE DEF i, b
<1>6. Roomy(new)
  BY <1>5 DEF Roomy
<1> QED
  BY <1>2, <1>6 DEF i

\* A bucket with space for another peer has it within the capacities.
LEMMA FitsWithin ==
    ASSUME NEW b, IsFiniteSet(b.peers), NEW limit \in Nat, Within(limit), Fits(b, limit), NEW p
    PROVE  Within(Cardinality(b.peers \cup {p}))
<1> DEFINE S == b.peers
<1>0. IsFiniteSet(S)
  OBVIOUS
<1>1. /\ Cardinality(b.peers) \in Nat
      /\ Cardinality(b.peers \cup {p}) \in Nat
      /\ Cardinality(b.peers \cup {p}) <= Cardinality(b.peers) + 1
  <2> HIDE DEF S
  <2>1. /\ IsFiniteSet(S \cup {p})
        /\ Cardinality(S \cup {p}) = IF p \in S THEN Cardinality(S) ELSE Cardinality(S) + 1
    BY <1>0, FS_AddElement
  <2>2. Cardinality(S) \in Nat /\ Cardinality(S \cup {p}) \in Nat
    BY <1>0, <2>1, FS_CardinalityType
  <2>3. Cardinality(S \cup {p}) <= Cardinality(S) + 1
    BY <2>1, <2>2
  <2> QED
    BY <2>2, <2>3 DEF S
<1>2. Cardinality(b.peers \cup {p}) <= limit
  BY <1>1 DEF Fits
<1> QED
  BY <1>1, <1>2, WithinLess

\* Neither bucketsize nor the k of a roomy bucket is too much.
LEMMA LimitsWithin ==
    ASSUME NEW b \in Bucket, RoomyBucket(b)
    PROVE  /\ bsize(b) \in Nat /\ Within(bsize(b))
           /\ blen(b) \in Nat /\ Within(blen(b))
<1>1. BucketSize \in Nat /\ Within(BucketSize)
  BY WithinK, RoutingTableAssumption
<1>2. b.k \in Nat /\ Within(b.k)
  BY DEF Bucket, RoomyBucket
<1> QED
  BY <1>1, <1>2 DEF bsize, blen

\* The resizing leaves the bucket fewer peers and one of CalcKOpt's capacities.
LEMMA ResizeRoomy ==
    ASSUME NEW bs, Good(bs), Roomy(bs), NEW p \in Peers, NEW kf \in KMaps,
           NEW new \in resize(bs, p, kf)
    PROVE  Roomy(new)
<1>1. CASE Adder # "addPeerKadRTT"
  BY <1>1 DEF resize
<1>2. CASE Adder = "addPeerKadRTT"
  <2> DEFINE i == bucketIdForPeer(bs, p)
             S == bs[i].peers
             excess == Cardinality(S) - kf[i]
  <2>1. PICK V \in (IF excess > 0 THEN DiscardChoices(S, excess) ELSE {{}}) :
            new = [bs EXCEPT ![i] = [peers |-> S \ V, k |-> kf[i]]]
    BY <1>2 DEF resize
  <2>2. /\ i \in 1..Len(bs) /\ DOMAIN bs = 1..Len(bs)
        /\ Len(bs) \in 1..MaxBuckets /\ Width \in Nat
    BY BucketId, Shape DEF Good
  <2> DEFINE c == [peers |-> S \ V, k |-> kf[i]]
  <2>3. RoomyBucket(bs[i]) /\ c.peers \subseteq bs[i].peers
    BY <2>2 DEF Roomy
  <2>4. Within(c.k)
    <3>1. i \in 1..MaxBuckets
      BY <2>2 DEF MaxBuckets
    <3> QED
      BY <3>1, WithinK
  <2>5. RoomyBucket(c)
    BY <2>3, <2>4, RoomySmaller
  <2>6. new = [bs EXCEPT ![i] = c]
    BY <2>1
  <2> HIDE DEF i, c
  <2> QED
    BY <2>5, <2>6 DEF Roomy
<1> QED
  BY <1>1, <1>2

\* Unfolding splits the last bucket into smaller ones.
LEMMA NextBucketRoomy ==
    ASSUME NEW bs, Good(bs), Roomy(bs), bs[Len(bs)].peers # {}, NEW kf \in KMaps
    PROVE  Roomy(nextBucket(bs, kf))
<1> DEFINE n == Len(bs)
           last == bs[n].peers
           deepest == Max({n - 1} \cup {Cpl(p) : p \in last})
           nb == nextBucket(bs, kf)
           b == [peers |-> {p \in last : Cpl(p) <= n - 1},
                 k |-> IF n = 1 THEN kf[1] ELSE bs[n].k]
           c(i) == [peers |-> {p \in last : Cpl(p) = i - 1}, k |-> kf[i]]
<1>1. n \in 1..MaxBuckets /\ n \in Nat /\ Width \in Nat /\ DOMAIN bs = 1..n
  BY Shape DEF Good
<1>2. Good(nb)
  BY NextBucketGood
<1>3. nb = [i \in 1..(deepest + 2) |-> IF i < n THEN bs[i] ELSE IF i = n THEN b ELSE c(i)]
  BY DEF nextBucket
<1>4. DOMAIN nb = 1..Len(nb) /\ Len(nb) \in 1..MaxBuckets
  BY <1>2, Shape DEF Good
<1>5. RoomyBucket(bs[n])
  BY <1>1 DEF Roomy
<1>6. RoomyBucket(b)
  <2>1. Within(b.k)
    <3>1. 1 \in 1..MaxBuckets
      BY <1>1 DEF MaxBuckets
    <3>2. Within(kf[1]) /\ Within(bs[n].k)
      BY <1>5, <3>1, WithinK DEF RoomyBucket
    <3>3. b.k = IF n = 1 THEN kf[1] ELSE bs[n].k
      OBVIOUS
    <3> QED
      BY <3>2, <3>3
  <2>2. b.peers \subseteq bs[n].peers
    OBVIOUS
  <2> QED
    BY <1>5, <2>1, <2>2, RoomySmaller
<1>7. \A i \in 1..MaxBuckets : RoomyBucket(c(i))
  <2> SUFFICES ASSUME NEW i \in 1..MaxBuckets PROVE RoomyBucket(c(i))
    OBVIOUS
  <2>1. Within(c(i).k) /\ c(i).peers \subseteq bs[n].peers
    BY WithinK
  <2> QED
    BY <1>5, <2>1, RoomySmaller
<1> HIDE DEF b, c, deepest, nb, n
<1>8. ASSUME NEW i \in DOMAIN nb PROVE RoomyBucket(nb[i])
  <2>1. i \in 1..(deepest + 2)
    BY <1>3
  <2>2. nb[i] = IF i < n THEN bs[i] ELSE IF i = n THEN b ELSE c(i)
    BY <1>3, <2>1
  <2>3. i \in 1..MaxBuckets
    BY <1>1, <1>4 DEF MaxBuckets
  <2>4. i < n => i \in DOMAIN bs
    BY <1>1, <2>3
  <2>5. i < n => RoomyBucket(bs[i])
    BY <2>4 DEF Roomy
  <2> QED
    BY <1>6, <1>7, <2>2, <2>3, <2>5
<1> QED
  BY <1>8 DEF Roomy, nb

\* removePeer makes buckets of old ones, or of what is left of them.
LEMMA RemoveRoomy ==
    ASSUME NEW bs, Good(bs), Roomy(bs), NEW v \in InTable(bs)
    PROVE  Roomy(removePeer(bs, v))
<1>1. \A j \in DOMAIN removePeer(bs, v) : \E i \in DOMAIN bs :
          /\ removePeer(bs, v)[j].peers \subseteq bs[i].peers
          /\ removePeer(bs, v)[j].k = bs[i].k
  BY RemoveGood
<1>2. \A i \in DOMAIN bs : RoomyBucket(bs[i]) /\ Within(bs[i].k)
  BY DEF Roomy, RoomyBucket
<1> QED
  BY <1>1, <1>2, RoomySmaller DEF Roomy

\* A replacement leaves the bucket no longer than it was.
LEMMA SwapRoomy ==
    ASSUME NEW bs, Good(bs), Roomy(bs), NEW p \in Peers, NEW v \in bucketForPeer(bs, p).peers,
           bucketForPeer(bs, p).peers \ {v} # {}
    PROVE  Roomy(swapped(bs, p, v))
<1> DEFINE after == removePeer(bs, v)
           S == bucketForPeer(bs, p).peers
<1>1. /\ v \in InTable(bs)
      /\ swapped(bs, p, v) = pushFront(after, bucketIdForPeer(after, p), p)
      /\ bucketForPeer(after, p).peers = S \ {v}
  BY SwapGood
<1>2. Good(after) /\ Roomy(after)
  BY <1>1, RemoveGood, RemoveRoomy
<1>3. IsFiniteSet(S) /\ Within(Cardinality(S))
  <2>1. bucketIdForPeer(bs, p) \in DOMAIN bs
    BY BucketId, Shape DEF Good
  <2> QED
    BY <2>1 DEF Roomy, RoomyBucket, bucketForPeer
<1> HIDE DEF after, S
<1>4. v \in S
  BY DEF S
<1>5. /\ IsFiniteSet(S \ {v}) /\ Cardinality(S) \in Nat
      /\ Cardinality(S \ {v}) = Cardinality(S) - 1
  BY <1>3, <1>4, FS_RemoveElement, FS_CardinalityType
<1>6. /\ IsFiniteSet((S \ {v}) \cup {p})
      /\ Cardinality((S \ {v}) \cup {p}) <= Cardinality(S \ {v}) + 1
  BY <1>5, FS_AddElement, FS_CardinalityType
<1>7. Cardinality((S \ {v}) \cup {p}) \in Nat
  BY <1>6, FS_CardinalityType
<1>8. Within(Cardinality((S \ {v}) \cup {p}))
  BY <1>3, <1>5, <1>6, <1>7, WithinLess
<1> QED
  BY <1>1, <1>2, <1>8, PushRoomy

\* Every path of TryAddPeer keeps the buckets within the capacities.
LEMMA AddRoomy ==
    ASSUME IInv, Roomy(buckets), NEW r \in Requests, NEW kf \in KMaps, NEW lat, NEW connected,
           TryAddPeer(r, kf, lat, connected)
    PROVE  Roomy(buckets')
<1> DEFINE p == r.peer
<1>1. p \in Peers /\ Good(buckets)
  BY DEF Requests, IInv
<1>2. PICK bs \in resize(buckets, p, kf) :
        \/ AlreadyThere(bs, r)
        \/ RejectHighLatency(bs, r, lat)
        \/ RejectByFilter(bs, r, connected)
        \/ AddWithSpace(bs, r)
        \/ /\ ~Fits(bucketForPeer(bs, p), bsize(bucketForPeer(bs, p)))
           /\ FullBucket(bs, r, kf, lat)
  BY Zenon DEF TryAddPeer
<1>3. /\ Good(bs) /\ Roomy(bs)
      /\ bsize(bucketForPeer(bs, p)) \in Nat /\ bsize(bucketForPeer(bs, p)) >= 2
  BY <1>1, ResizeGood, ResizeRoomy
<1>4. ASSUME NEW t, Good(t), Roomy(t)
      PROVE  /\ bucketForPeer(t, p) \in Bucket /\ RoomyBucket(bucketForPeer(t, p))
             /\ IsFiniteSet(bucketForPeer(t, p).peers)
             /\ bsize(bucketForPeer(t, p)) \in Nat /\ Within(bsize(bucketForPeer(t, p)))
             /\ blen(bucketForPeer(t, p)) \in Nat /\ Within(blen(bucketForPeer(t, p)))
  <2>1. bucketIdForPeer(t, p) \in DOMAIN t /\ bucketForPeer(t, p) \in Bucket
    BY <1>1, <1>4, BucketId, Shape DEF Good, bucketForPeer
  <2>2. RoomyBucket(bucketForPeer(t, p))
    BY <1>4, <2>1 DEF Roomy, bucketForPeer
  <2>3. IsFiniteSet(bucketForPeer(t, p).peers)
    BY <2>2 DEF RoomyBucket
  <2> QED
    BY <2>1, <2>2, <2>3, LimitsWithin
<1>5. ASSUME NEW t, Good(t), Roomy(t), NEW limit \in Nat, Within(limit),
             Fits(bucketForPeer(t, p), limit), Push(t, bucketIdForPeer(t, p), r)
      PROVE  Roomy(buckets')
  <2>1. buckets' = pushFront(t, bucketIdForPeer(t, p), p)
    BY <1>5 DEF Push, Settle
  <2>2. Within(Cardinality(bucketForPeer(t, p).peers \cup {p}))
    BY <1>4, <1>5, FitsWithin
  <2> QED
    BY <1>1, <1>5, <2>1, <2>2, PushRoomy
<1>6. CASE AlreadyThere(bs, r) \/ RejectHighLatency(bs, r, lat) \/ RejectByFilter(bs, r, connected)
  <2>1. buckets' = bs
    BY <1>6 DEF AlreadyThere, RejectHighLatency, RejectByFilter, Settle
  <2> QED
    BY <1>3, <2>1
<1>7. CASE AddWithSpace(bs, r)
  <2>1. /\ Fits(bucketForPeer(bs, p), bsize(bucketForPeer(bs, p)))
        /\ Push(bs, bucketIdForPeer(bs, p), r)
    BY <1>7 DEF AddWithSpace
  <2> QED
    BY <1>3, <1>4, <1>5, <2>1
<1>8. CASE ~Fits(bucketForPeer(bs, p), bsize(bucketForPeer(bs, p))) /\ FullBucket(bs, r, kf, lat)
  <2> DEFINE wide == unfold(bs, p, kf)
  <2>1. /\ Good(wide)
        /\ \/ IsLastBucket(bs, p) /\ Fits(bucketForPeer(wide, p), blen(bucketForPeer(wide, p)))
           \/ \A v : bucketForPeer(wide, p).peers \ {v} # {}
    BY <1>1, <1>3, <1>8, WideGood
  <2>2. Roomy(wide)
    <3>1. CASE ~IsLastBucket(bs, p)
      BY <1>3, <3>1 DEF unfold
    <3>2. CASE IsLastBucket(bs, p)
      <4>1. bucketForPeer(bs, p).peers \ {p} # {}
        BY <1>3, <1>4, <1>8, FullBucketHasTwo
      <4>2. bs[Len(bs)].peers # {}
        BY <3>2, <4>1 DEF IsLastBucket, bucketForPeer
      <4> QED
        BY <1>3, <3>2, <4>2, NextBucketRoomy DEF unfold
    <3> QED
      BY <3>1, <3>2
  <2>3. \/ AddUnfolded(bs, wide, r)
        \/ /\ ~(/\ IsLastBucket(bs, p)
                /\ Fits(bucketForPeer(wide, p), blen(bucketForPeer(wide, p))))
           /\ \/ ReplacePeer(wide, r)
              \/ ExchangePeer(wide, r, lat)
              \/ RejectNoCapacity(wide, r, lat)
    BY <1>8, Zenon DEF FullBucket
  <2> HIDE DEF wide
  <2>4. CASE AddUnfolded(bs, wide, r)
    <3>1. /\ Fits(bucketForPeer(wide, p), blen(bucketForPeer(wide, p)))
          /\ Push(wide, bucketIdForPeer(wide, p), r)
      BY <2>4 DEF AddUnfolded
    <3> QED
      BY <1>4, <1>5, <2>1, <2>2, <3>1
  <2>5. CASE /\ ReplacePeer(wide, r) \/ ExchangePeer(wide, r, lat)
             /\ \A w : bucketForPeer(wide, p).peers \ {w} # {}
    <3>1. PICK v \in bucketForPeer(wide, p).peers : buckets' = swapped(wide, p, v)
      <4>1. CASE ReplacePeer(wide, r)
        BY <4>1, Zenon DEF ReplacePeer, Settle
      <4>2. CASE ExchangePeer(wide, r, lat)
        <5>1. PICK v \in victims(wide, r, lat) : buckets' = swapped(wide, p, v)
          BY <4>2, Zenon DEF ExchangePeer, Settle
        <5>2. v \in bucketForPeer(wide, p).peers
          BY <5>1, Zenon DEF victims, ExchangeVictim, Neighboured
        <5> QED
          BY <5>1, <5>2
      <4> QED
        BY <2>5, <4>1, <4>2
    <3> QED
      BY <1>1, <2>1, <2>2, <2>5, <3>1, SwapRoomy
  <2>6. CASE RejectNoCapacity(wide, r, lat)
    BY <2>2, <2>6 DEF RejectNoCapacity, Settle
  <2> QED
    BY <2>1, <2>3, <2>4, <2>5, <2>6
<1> QED
  BY <1>2, <1>6, <1>7, <1>8

\* The buckets stay within the capacities.
LEMMA AlwaysRoomy == Spec => []Roomy(buckets)
<1>1. Init => Roomy(buckets)
  <2> SUFFICES ASSUME Init PROVE Roomy(buckets)
    OBVIOUS
  <2>1. DOMAIN buckets = {1} /\ buckets[1] = newBucket
    BY DEF Init
  <2>2. Within(0) /\ Within(1)
    BY WithinK, RoutingTableAssumption
  <2>3. RoomyBucket(newBucket)
    BY <2>2, FS_EmptySet DEF newBucket, RoomyBucket
  <2> QED
    BY <2>1, <2>3 DEF Roomy
<1>2. IInv /\ Roomy(buckets) /\ [Next]_vars => Roomy(buckets')
  <2> SUFFICES ASSUME IInv, Roomy(buckets), [Next]_vars PROVE Roomy(buckets')
    OBVIOUS
  <2>1. CASE \E r \in Requests, kf \in KMaps, lat \in LatencyMaps, connected \in Connected :
                TryAddPeer(r, kf, lat, connected)
    BY <2>1, AddRoomy
  <2>2. CASE \E p \in Peers : RemovePeer(p)
    <3>1. PICK p \in Peers : RemovePeer(p)
      BY <2>2
    <3>2. bucketIdForPeer(buckets, p) \in DOMAIN buckets
      BY BucketId, Shape DEF IInv, Good
    <3>3. p \in InTable(buckets) /\ buckets' = removePeer(buckets, p)
      BY <3>1, <3>2, InTableMeans DEF RemovePeer, bucketForPeer
    <3> QED
      BY <3>3, RemoveRoomy DEF IInv
  <2>3. CASE MarkAllPeersIrreplaceable \/ \E p \in Peers : UpdateLastUsefulAt(p)
    BY <2>3 DEF MarkAllPeersIrreplaceable, UpdateLastUsefulAt
  <2>4. CASE UNCHANGED vars
    BY <2>4 DEF vars
  <2> QED
    BY <2>1, <2>2, <2>3, <2>4 DEF Next
<1>3. Roomy(buckets)' <=> Roomy(buckets')
  BY DEF Roomy
<1> QED
  BY <1>1, <1>2, <1>3, Inductive, PTL DEF Spec

\* In every variant of TryAddPeer, and whatever the capacities CalcKOpt gives
\* at each call, no bucket grows beyond the largest of them.
THEOREM CapacityBounded == Spec => []CapacityBound
<1>1. Roomy(buckets) => CapacityBound
  BY DEF Roomy, RoomyBucket, Within, CapacityBound
<1> QED
  BY <1>1, AlwaysRoomy, PTL
-----------------------------------------------------------------------------
(***************************************************************************)
(* The quotas of the diversity filter.                                     *)
(***************************************************************************)

\* The peers of N with the IP group of p, and those that also share its prefix.
sameGroup(N, p) == {q \in N : Group[q] = Group[p]}
sameGroupAndCpl(N, p) == {q \in N : Group[q] = Group[p] /\ Cpl(q) = Cpl(p)}

\* The quotas for a set of peers.
Quota(N) ==
    \A p \in N : /\ Cardinality(sameGroup(N, p)) <= MaxForTable
                 /\ Cardinality(sameGroupAndCpl(N, p)) <= MaxPerCpl

\* The peers the filter has to count.
Counted(bs) == InTable(bs) \ Whitelist

\* If every peer is recorded at most once, the entries are as many as the
\* recorded peers.
LEMMA EntriesCount ==
    ASSUME NEW S, NEW f, NEW M, M = {q \in S : f[q] = 1}, \A q \in S : f[q] \in {0, 1},
           IsFiniteSet(M)
    PROVE  Cardinality(df!entries(f, S)) = Cardinality(M)
<1> DEFINE E == df!entries(f, S)
           g == [q \in M |-> <<q, 1>>]
<1>1. ASSUME NEW x \in E PROVE \E q \in M : x = <<q, 1>>
  <2>1. PICK q \in S : x \in {q} \X (1..f[q])
    BY <1>1 DEF df!entries
  <2>2. PICK i \in 1..f[q] : x = <<q, i>>
    BY <2>1
  <2>3. f[q] = 1 /\ i = 1
    BY <2>2
  <2> QED
    BY <2>2, <2>3
<1>2. ASSUME NEW q \in M PROVE <<q, 1>> \in E
  <2>1. q \in S /\ f[q] = 1
    OBVIOUS
  <2>2. <<q, 1>> \in {q} \X (1..f[q])
    BY <2>1
  <2> QED
    BY <2>1, <2>2 DEF df!entries
<1> HIDE DEF E
<1>3. g \in Bijection(M, E)
  <2>1. g \in [M -> E]
    BY <1>2
  <2>2. \A a, b \in M : g[a] = g[b] => a = b
    OBVIOUS
  <2>3. \A x \in E : \E q \in M : g[q] = x
    BY <1>1
  <2> QED
    BY <2>1, <2>2, <2>3, Zenon DEF Bijection, Injection, Surjection, IsInjective
<1>4. ExistsBijection(M, E)
  BY <1>3 DEF ExistsBijection
<1> QED
  BY <1>4, FS_Bijection DEF E

\* A set without new peers keeps the quotas.
LEMMA QuotaFewer ==
    ASSUME NEW N, IsFiniteSet(N), Quota(N), NEW M \in SUBSET N
    PROVE  Quota(M)
<1> SUFFICES ASSUME NEW p \in M
             PROVE  /\ Cardinality(sameGroup(M, p)) <= MaxForTable
                    /\ Cardinality(sameGroupAndCpl(M, p)) <= MaxPerCpl
  BY DEF Quota
<1>1. /\ sameGroup(M, p) \subseteq sameGroup(N, p) /\ sameGroup(N, p) \subseteq N
      /\ sameGroupAndCpl(M, p) \subseteq sameGroupAndCpl(N, p) /\ sameGroupAndCpl(N, p) \subseteq N
  BY DEF sameGroup, sameGroupAndCpl
<1>2. /\ IsFiniteSet(sameGroup(N, p)) /\ IsFiniteSet(sameGroupAndCpl(N, p))
      /\ IsFiniteSet(sameGroup(M, p)) /\ IsFiniteSet(sameGroupAndCpl(M, p))
      /\ Cardinality(sameGroup(M, p)) <= Cardinality(sameGroup(N, p))
      /\ Cardinality(sameGroupAndCpl(M, p)) <= Cardinality(sameGroupAndCpl(N, p))
  BY <1>1, FS_Subset
<1>3. /\ Cardinality(sameGroup(N, p)) \in Nat /\ Cardinality(sameGroupAndCpl(N, p)) \in Nat
      /\ Cardinality(sameGroup(M, p)) \in Nat /\ Cardinality(sameGroupAndCpl(M, p)) \in Nat
  BY <1>2, FS_CardinalityType
<1>4. /\ Cardinality(sameGroup(N, p)) <= MaxForTable
      /\ Cardinality(sameGroupAndCpl(N, p)) <= MaxPerCpl
  BY DEF Quota
<1> QED
  BY <1>2, <1>3, <1>4, RoutingTableAssumption

\* A class of peers is counted with one more, or not at all.
LEMMA OneMore ==
    ASSUME NEW C, IsFiniteSet(C), NEW p, NEW limit \in Nat, Cardinality(C) < limit
    PROVE  Cardinality(C \cup {p}) <= limit
<1>1. Cardinality(C) \in Nat
  BY FS_CardinalityType
<1>2. Cardinality(C \cup {p}) = IF p \in C THEN Cardinality(C) ELSE Cardinality(C) + 1
  BY FS_AddElement
<1> QED
  BY <1>1, <1>2

\* Adding a peer for whose classes there is room keeps the quotas.
LEMMA QuotaOneMore ==
    ASSUME NEW N, IsFiniteSet(N), Quota(N), NEW p,
           Cardinality(sameGroup(N, p)) < MaxForTable,
           Cardinality(sameGroupAndCpl(N, p)) < MaxPerCpl
    PROVE  Quota(N \cup {p})
<1> SUFFICES ASSUME NEW q \in N \cup {p}
             PROVE  /\ Cardinality(sameGroup(N \cup {p}, q)) <= MaxForTable
                    /\ Cardinality(sameGroupAndCpl(N \cup {p}, q)) <= MaxPerCpl
  BY DEF Quota
<1>1. /\ IsFiniteSet(sameGroup(N, p)) /\ IsFiniteSet(sameGroupAndCpl(N, p))
      /\ MaxForTable \in Nat /\ MaxPerCpl \in Nat
  BY FS_Subset, RoutingTableAssumption DEF sameGroup, sameGroupAndCpl
<1>2. Cardinality(sameGroup(N \cup {p}, q)) <= MaxForTable
  <2>1. CASE Group[q] = Group[p]
    <3>1. sameGroup(N \cup {p}, q) = sameGroup(N, p) \cup {p}
      BY <2>1 DEF sameGroup
    <3> QED
      BY <1>1, <3>1, OneMore
  <2>2. CASE Group[q] # Group[p]
    <3>1. q \in N /\ sameGroup(N \cup {p}, q) = sameGroup(N, q)
      BY <2>2 DEF sameGroup
    <3> QED
      BY <3>1 DEF Quota
  <2> QED
    BY <2>1, <2>2
<1>3. Cardinality(sameGroupAndCpl(N \cup {p}, q)) <= MaxPerCpl
  <2>1. CASE Group[q] = Group[p] /\ Cpl(q) = Cpl(p)
    <3>1. sameGroupAndCpl(N \cup {p}, q) = sameGroupAndCpl(N, p) \cup {p}
      BY <2>1 DEF sameGroupAndCpl
    <3> QED
      BY <1>1, <3>1, OneMore
  <2>2. CASE ~(Group[q] = Group[p] /\ Cpl(q) = Cpl(p))
    <3>1. q \in N /\ sameGroupAndCpl(N \cup {p}, q) = sameGroupAndCpl(N, q)
      BY <2>2 DEF sameGroupAndCpl
    <3> QED
      BY <3>1 DEF Quota
  <2> QED
    BY <2>1, <2>2
<1> QED
  BY <1>2, <1>3

\* A peer that enters the table has been accepted by the filter as it was
\* before the call.
LEMMA EntersAccepted ==
    ASSUME IInv, UseFilter, NEW r \in Requests, NEW kf \in KMaps, NEW lat, NEW connected,
           TryAddPeer(r, kf, lat, connected),
           r.peer \in InTable(buckets'), r.peer \notin InTable(buckets)
    PROVE  r.peer \in Whitelist \/ df!Allow(filter, r.peer)
<1>1. PICK bs \in resize(buckets, r.peer, kf) :
        \/ AlreadyThere(bs, r)
        \/ RejectHighLatency(bs, r, lat)
        \/ RejectByFilter(bs, r, connected)
        \/ UseFilter => df!Accepts(filter, r.peer, connected)
  BY Zenon DEF TryAddPeer
<1>2. InTable(bs) \subseteq InTable(buckets)
  BY ResizeGood DEF IInv, Requests
<1>3. CASE AlreadyThere(bs, r) \/ RejectHighLatency(bs, r, lat) \/ RejectByFilter(bs, r, connected)
  <2>1. buckets' = bs
    BY <1>3 DEF AlreadyThere, RejectHighLatency, RejectByFilter, Settle
  <2> QED
    BY <1>2, <2>1
<1>4. CASE df!Accepts(filter, r.peer, connected)
  BY <1>4 DEF df!Accepts
<1> QED
  BY <1>1, <1>3, <1>4

\* The filter has accepted a peer: there is room for it in both classes.
LEMMA AllowMeansRoom ==
    ASSUME IInv, UseFilter, FilterMatchesTable, IsFiniteSet(InTable(buckets)),
           NEW p \in Peers, df!Allow(filter, p)
    PROVE  /\ Cardinality(sameGroup(Counted(buckets), p)) < MaxForTable
           /\ Cardinality(sameGroupAndCpl(Counted(buckets), p)) < MaxPerCpl
<1> DEFINE N == Counted(buckets)
           G == {q \in Peers : Group[q] = Group[p]}
           H == {q \in Peers : Group[q] = Group[p] /\ cpls[q] = cpls[p]}
<1>1. N \subseteq Peers /\ IsFiniteSet(N)
  <2>1. InTable(buckets) \subseteq Peers
    BY InTableMeans, Shape DEF IInv, Good
  <2> QED
    BY <2>1, FS_Subset DEF Counted
<1>2. \A q \in Peers : filter[q] = IF q \in N THEN 1 ELSE 0
  BY DEF FilterMatchesTable, Counted
<1>a. \A S : df!Cardinality(S) = Cardinality(S)
  BY DEF df!Cardinality, Cardinality, df!IsFiniteSet, IsFiniteSet
<1>3. /\ Cardinality(df!entries(filter, G)) < MaxForTable
      /\ Cardinality(df!entries(filter, H)) < MaxPerCpl
  BY <1>a DEF df!Allow, df!tableIpGroupCount, df!cplIpGroupCount
<1> HIDE DEF N
<1>4. /\ sameGroup(N, p) = {q \in G : filter[q] = 1}
      /\ sameGroupAndCpl(N, p) = {q \in H : filter[q] = 1}
  BY <1>1, <1>2 DEF sameGroup, sameGroupAndCpl, Cpl
<1>5. IsFiniteSet(sameGroup(N, p)) /\ IsFiniteSet(sameGroupAndCpl(N, p))
  BY <1>1, FS_Subset DEF sameGroup, sameGroupAndCpl
<1>6. /\ \A q \in G : filter[q] \in {0, 1}
      /\ \A q \in H : filter[q] \in {0, 1}
  BY <1>2
<1> HIDE DEF G, H
<1>7. Cardinality(df!entries(filter, G)) = Cardinality(sameGroup(N, p))
  BY <1>4, <1>5, <1>6, EntriesCount
<1>8. Cardinality(df!entries(filter, H)) = Cardinality(sameGroupAndCpl(N, p))
  BY <1>4, <1>5, <1>6, EntriesCount
<1> QED
  BY <1>3, <1>7, <1>8 DEF N

\* The quotas and that there are finitely many peers to count.
QuotaInv == IsFiniteSet(InTable(buckets)) /\ (UseFilter => Quota(Counted(buckets)))

\* In the variants without resizing the diversity filter does what it is for:
\* no IP group gets more than its share of the table, or of one prefix length.
THEOREM QuotaKept ==
    ASSUME Adder # "addPeerKadRTT" PROVE Spec => []DiversityQuota
<1>1. Init => QuotaInv
  <2> SUFFICES ASSUME Init PROVE QuotaInv
    OBVIOUS
  <2>1. InTable(buckets) = {} /\ Counted(buckets) = {}
    BY InitGood DEF Counted
  <2> QED
    BY <2>1, FS_EmptySet DEF QuotaInv, Quota
<1>2. IInv /\ FilterMatchesTable /\ QuotaInv /\ [Next]_vars => QuotaInv'
  <2> SUFFICES ASSUME IInv, FilterMatchesTable, QuotaInv, [Next]_vars PROVE QuotaInv'
    OBVIOUS
  <2> DEFINE T == InTable(buckets)
             N == Counted(buckets)
  <2>1. IsFiniteSet(T) /\ IsFiniteSet(N) /\ N = T \ Whitelist /\ (UseFilter => Quota(N))
    BY FS_Subset DEF QuotaInv, Counted
  <2>2. CASE InTable(buckets') \subseteq T
    <3>1. Counted(buckets') \subseteq N /\ IsFiniteSet(InTable(buckets'))
      BY <2>1, <2>2, FS_Subset DEF Counted
    <3>2. UseFilter => Quota(Counted(buckets'))
      BY <2>1, <3>1, QuotaFewer
    <3> QED
      BY <3>1, <3>2 DEF QuotaInv, Counted, InTable, Quota, sameGroup, sameGroupAndCpl
  <2>3. CASE \E r \in Requests, kf \in KMaps, lat \in LatencyMaps, connected \in Connected :
                TryAddPeer(r, kf, lat, connected)
    <3>1. PICK r \in Requests, kf \in KMaps, lat \in LatencyMaps, connected \in Connected :
                TryAddPeer(r, kf, lat, connected)
      BY <2>3
    <3> DEFINE p == r.peer
    <3>2. PICK T1 \in SUBSET InTable(buckets) : Outcome(T1, p)
      BY <3>1, AddOutcome
    <3>3. InTable(buckets') \subseteq T \cup {p} /\ p \in Peers
      BY <3>2 DEF Outcome, Stays, Adds, Swaps, Requests
    <3>4. CASE p \in InTable(buckets') /\ p \notin T
      <4>1. UseFilter => p \in Whitelist \/ df!Allow(filter, p)
        BY <3>1, <3>4, EntersAccepted
      <4>2. IsFiniteSet(T \cup {p}) /\ IsFiniteSet(InTable(buckets'))
        BY <2>1, <3>3, FS_AddElement, FS_Subset
      <4>3. ASSUME UseFilter PROVE Quota(Counted(buckets'))
        <5>1. CASE p \in Whitelist
          <6>1. Counted(buckets') \subseteq N
            BY <3>3, <5>1 DEF Counted
          <6> QED
            BY <2>1, <4>3, <6>1, QuotaFewer
        <5>2. CASE df!Allow(filter, p)
          <6>1. Quota(N \cup {p})
            <7>1. /\ Cardinality(sameGroup(N, p)) < MaxForTable
                  /\ Cardinality(sameGroupAndCpl(N, p)) < MaxPerCpl
              BY <2>1, <3>3, <4>3, <5>2, AllowMeansRoom
            <7> QED
              BY <2>1, <4>3, <7>1, QuotaOneMore
          <6>2. Counted(buckets') \subseteq N \cup {p} /\ IsFiniteSet(N \cup {p})
            BY <2>1, <3>3, FS_AddElement DEF Counted
          <6> QED
            BY <6>1, <6>2, QuotaFewer
        <5> QED
          BY <4>1, <4>3, <5>1, <5>2
      <4> QED
        BY <4>2, <4>3 DEF QuotaInv, Counted, InTable, Quota, sameGroup, sameGroupAndCpl
    <3>5. CASE ~(p \in InTable(buckets') /\ p \notin T)
      BY <2>2, <3>3, <3>5
    <3> QED
      BY <3>4, <3>5
  <2>4. CASE \E p \in Peers : RemovePeer(p)
    BY <2>2, <2>4, RemoveOutcome
  <2>5. CASE MarkAllPeersIrreplaceable \/ \E p \in Peers : UpdateLastUsefulAt(p)
    BY <2>2, <2>5 DEF MarkAllPeersIrreplaceable, UpdateLastUsefulAt
  <2>6. CASE UNCHANGED vars
    BY <2>2, <2>6 DEF vars
  <2> QED
    BY <2>3, <2>4, <2>5, <2>6 DEF Next
<1>3. QuotaInv => DiversityQuota
  <2> SUFFICES ASSUME QuotaInv, UseFilter, NEW p \in InTable(buckets) \ Whitelist
               PROVE  LET same == {q \in InTable(buckets) \ Whitelist : Group[q] = Group[p]}
                      IN  /\ Cardinality(same) <= MaxForTable
                          /\ Cardinality({q \in same : Cpl(q) = Cpl(p)}) <= MaxPerCpl
    BY DEF DiversityQuota
  <2> DEFINE N == InTable(buckets) \ Whitelist
             same == {q \in N : Group[q] = Group[p]}
  <2>1. /\ Cardinality(sameGroup(N, p)) <= MaxForTable
        /\ Cardinality(sameGroupAndCpl(N, p)) <= MaxPerCpl
    BY DEF QuotaInv, Quota, Counted
  <2>2. same = sameGroup(N, p) /\ {q \in same : Cpl(q) = Cpl(p)} = sameGroupAndCpl(N, p)
    BY DEF sameGroup, sameGroupAndCpl
  <2> QED
    BY <2>1, <2>2
<1> QED
  BY <1>1, <1>2, <1>3, Inductive, FilterMatches, PTL DEF Spec
-----------------------------------------------------------------------------
(***************************************************************************)
(* Keys and distances.  What a recursive function gives is proved for      *)
(* every length by induction, in the form of a set of naturals.            *)
(***************************************************************************)

\* A set of naturals is all of them if it is closed under successor.
LEMMA Induction ==
    ASSUME NEW S \in SUBSET Nat, 0 \in S, \A n \in S : n + 1 \in S
    PROVE  S = Nat
<1> SUFFICES ASSUME S # Nat PROVE FALSE
  OBVIOUS
<1> DEFINE T == Nat \ S
<1>1. T \subseteq Nat /\ T # {}
  OBVIOUS
<1>2. PICK y \in T : \A z \in T : ~(<<z, y>> \in OpToRel(<, Nat))
  BY <1>1, WFMin, NatLessThanWellFounded
<1>3. \A z \in T : ~(z < y)
  BY <1>1, <1>2 DEF OpToRel
<1>4. y \in Nat /\ y # 0 /\ y - 1 \in Nat /\ (y - 1) + 1 = y
  OBVIOUS
<1>5. y - 1 \in S
  BY <1>3, <1>4
<1> QED
  BY <1>4, <1>5

\* A non-empty set of naturals has a least member.
LEMMA LeastNatural ==
    ASSUME NEW S \in SUBSET Nat, S # {}
    PROVE  \E x \in S : \A y \in S : x <= y
<1>1. PICK x \in S : \A y \in S : ~(<<y, x>> \in OpToRel(<, Nat))
  BY WFMin, NatLessThanWellFounded
<1>2. \A y \in S : ~(y < x)
  BY <1>1 DEF OpToRel
<1> QED
  BY <1>2

\* v[n] is the number that the first n of the w bits of a make.
Reads(v, a, w) ==
    /\ v \in [0..w -> Nat]
    /\ v[0] = 0
    /\ \A n \in 1..w : v[n] = 2 * v[n - 1] + a[n]

\* There are such numbers for every ID.
LEMMA ReadsSome ==
    ASSUME NEW w \in Nat, NEW a \in IDs(w)
    PROVE  \E v : Reads(v, a, w)
<1> DEFINE S == {n \in Nat : n <= w => \E v : Reads(v, a, n)}
<1>1. 0 \in S
  <2>1. Reads([n \in 0..0 |-> 0], a, 0)
    BY DEF Reads
  <2> QED
    BY <2>1
<1>2. ASSUME NEW n \in S PROVE n + 1 \in S
  <2> SUFFICES ASSUME n + 1 <= w PROVE \E v : Reads(v, a, n + 1)
    OBVIOUS
  <2>1. PICK v : Reads(v, a, n)
    OBVIOUS
  <2>2. a[n + 1] \in {0, 1}
    BY DEF IDs
  <2> DEFINE u == [m \in 0..(n + 1) |-> IF m = n + 1 THEN 2 * v[n] + a[n + 1] ELSE v[m]]
  <2>3. v[n] \in Nat /\ 2 * v[n] + a[n + 1] \in Nat
    BY <2>1, <2>2 DEF Reads
  <2>4. u \in [0..(n + 1) -> Nat] /\ u[0] = 0
    BY <2>1, <2>3 DEF Reads
  <2>5. ASSUME NEW m \in 1..(n + 1) PROVE u[m] = 2 * u[m - 1] + a[m]
    <3>1. CASE m = n + 1
      BY <2>3, <3>1
    <3>2. CASE m # n + 1
      <4>1. m \in 1..n /\ m - 1 \in 0..n /\ m - 1 # n + 1
        BY <3>2
      <4> QED
        BY <2>1, <3>2, <4>1 DEF Reads
    <3> QED
      BY <3>1, <3>2
  <2>6. Reads(u, a, n + 1)
    BY <2>4, <2>5 DEF Reads
  <2> QED
    BY <2>6
<1>3. S = Nat
  <2> HIDE DEF S
  <2> QED
    BY <1>1, <1>2, Induction DEF S
<1> QED
  BY <1>3

\* KeyValue is the last of them.
LEMMA ReadsKey ==
    ASSUME NEW w \in Nat, NEW a \in IDs(w)
    PROVE  \E v : Reads(v, a, w) /\ KeyValue(a) = v[w]
<1>1. PICK g : Reads(g, a, w)
  BY ReadsSome
<1>2. Len(a) = w
  BY DEF IDs
<1> DEFINE body(h) == [n \in 0..w |-> IF n = 0 THEN 0 ELSE 2 * h[n - 1] + a[n]]
           v == CHOOSE h : h = body(h)
<1>3. g = body(g)
  BY <1>1 DEF Reads
<1>4. v = body(v)
  BY <1>3
<1>5. KeyValue(a) = v[w]
  BY <1>2 DEF KeyValue
<1> HIDE DEF v
<1>6. v[0] = 0 /\ \A n \in 1..w : v[n] = 2 * v[n - 1] + a[n]
  BY <1>4
<1> DEFINE S == {n \in Nat : n <= w => v[n] \in Nat}
<1>7. 0 \in S
  BY <1>6
<1>8. ASSUME NEW n \in S PROVE n + 1 \in S
  <2> SUFFICES ASSUME n + 1 <= w PROVE v[n + 1] \in Nat
    OBVIOUS
  <2>1. a[n + 1] \in {0, 1} /\ n + 1 \in 1..w /\ v[n] \in Nat /\ (n + 1) - 1 = n
    BY DEF IDs
  <2> QED
    BY <1>6, <2>1
<1>9. S = Nat
  <2> HIDE DEF S
  <2> QED
    BY <1>7, <1>8, Induction DEF S
<1>10. v \in [0..w -> Nat]
  <2>1. \A n \in 0..w : v[n] \in Nat
    BY <1>9
  <2> QED
    BY <1>4, <2>1
<1> QED
  BY <1>5, <1>6, <1>10 DEF Reads

\* weight[n] is 2 ^ n.
LEMMA Weights ==
    /\ weight \in [Nat -> Nat \ {0}]
    /\ weight[0] = 1
    /\ \A n \in Nat : weight[n + 1] = 2 * weight[n]
<1> DEFINE Begins(g, n) == /\ g \in [0..n -> Nat \ {0}] /\ g[0] = 1
                           /\ \A m \in 1..n : g[m] = 2 * g[m - 1]
           S == {n \in Nat : \E g : Begins(g, n)}
\* The values of initial segments agree.
<1>1. ASSUME NEW n \in Nat, NEW k \in Nat, NEW g, NEW h, Begins(g, n), Begins(h, k)
      PROVE  \A m \in Nat : m <= n /\ m <= k => g[m] = h[m]
  <2> DEFINE E == {m \in Nat : m <= n /\ m <= k => g[m] = h[m]}
  <2>1. 0 \in E
    BY <1>1
  <2>2. ASSUME NEW m \in E PROVE m + 1 \in E
    <3> SUFFICES ASSUME m + 1 <= n, m + 1 <= k PROVE g[m + 1] = h[m + 1]
      OBVIOUS
    <3>1. m + 1 \in 1..n /\ m + 1 \in 1..k /\ (m + 1) - 1 = m /\ g[m] = h[m]
      OBVIOUS
    <3> QED
      BY <1>1, <3>1
  <2>3. E = Nat
    <3> HIDE DEF E
    <3> QED
      BY <2>1, <2>2, Induction DEF E
  <2> QED
    BY <2>3
<1>2. 0 \in S
  <2>1. Begins([m \in 0..0 |-> 1], 0)
    OBVIOUS
  <2> QED
    BY <2>1
<1>3. ASSUME NEW n \in S PROVE n + 1 \in S
  <2>1. PICK g : Begins(g, n)
    OBVIOUS
  <2> DEFINE u == [m \in 0..(n + 1) |-> IF m = n + 1 THEN 2 * g[n] ELSE g[m]]
  <2>2. g[n] \in Nat \ {0} /\ 2 * g[n] \in Nat \ {0}
    BY <2>1
  <2>3. u \in [0..(n + 1) -> Nat \ {0}] /\ u[0] = 1
    BY <2>1, <2>2
  <2>4. ASSUME NEW m \in 1..(n + 1) PROVE u[m] = 2 * u[m - 1]
    <3>1. CASE m = n + 1
      BY <2>2, <3>1
    <3>2. CASE m # n + 1
      <4>1. m \in 1..n /\ m - 1 \in 0..n /\ m - 1 # n + 1
        BY <3>2
      <4> QED
        BY <2>1, <3>2, <4>1
    <3> QED
      BY <3>1, <3>2
  <2>5. Begins(u, n + 1)
    <3> HIDE DEF u
    <3> QED
      BY <2>3, <2>4
  <2> HIDE DEF u, Begins
  <2> QED
    BY <2>5
<1>4. S = Nat
  <2>1. S \in SUBSET Nat
    OBVIOUS
  <2> HIDE DEF S
  <2> QED
    BY <1>2, <1>3, <2>1, Induction
<1> DEFINE part == [n \in Nat |-> CHOOSE g : Begins(g, n)]
           w == [n \in Nat |-> part[n][n]]
<1>5. ASSUME NEW n \in Nat PROVE Begins(part[n], n)
  <2>1. \E g : Begins(g, n)
    BY <1>4
  <2>2. Begins(CHOOSE g : Begins(g, n), n)
    <3> HIDE DEF Begins
    <3> QED
      BY <2>1
  <2> QED
    BY <2>2
<1> HIDE DEF part
<1>6. w[0] = 1
  BY <1>5
<1>7. ASSUME NEW n \in Nat PROVE w[n] \in Nat \ {0} /\ w[n + 1] = 2 * w[n]
  <2>1. Begins(part[n], n) /\ Begins(part[n + 1], n + 1)
    <3>1. n + 1 \in Nat
      OBVIOUS
    <3> HIDE DEF Begins
    <3> QED
      BY <1>5, <3>1
  <2>2. part[n][n] = part[n + 1][n]
    <3> HIDE DEF Begins
    <3>1. \A m \in Nat : m <= n /\ m <= n + 1 => part[n][m] = part[n + 1][m]
      BY <1>1, <2>1
    <3> QED
      BY <3>1
  <2>3. part[n][n] \in Nat \ {0}
    BY <2>1
  <2>4. part[n + 1][n + 1] = 2 * part[n + 1][n]
    <3>1. n + 1 \in 1..(n + 1) /\ (n + 1) - 1 = n
      OBVIOUS
    <3> QED
      BY <2>1, <3>1
  <2> QED
    BY <2>2, <2>3, <2>4
<1> DEFINE body(h) == [n \in Nat |-> IF n = 0 THEN 1 ELSE 2 * h[n - 1]]
<1>8. w = body(w)
  <2>1. ASSUME NEW n \in Nat PROVE w[n] = body(w)[n]
    <3>1. CASE n = 0
      BY <1>6, <3>1
    <3>2. CASE n # 0
      <4>1. n - 1 \in Nat /\ (n - 1) + 1 = n
        BY <3>2
      <4>2. w[n] = 2 * w[n - 1]
        BY <1>7, <4>1
      <4> HIDE DEF w
      <4> QED
        BY <3>2, <4>2
    <3> QED
      BY <3>1, <3>2
  <2> QED
    BY <2>1
<1> HIDE DEF w
<1>9. weight = body(weight)
  BY <1>8 DEF weight
<1>10. weight[0] = 1 /\ \A n \in Nat : weight[n + 1] = 2 * weight[n]
  BY <1>9
<1> DEFINE P == {n \in Nat : weight[n] \in Nat \ {0}}
<1>11. P = Nat
  <2>1. 0 \in P /\ \A n \in P : n + 1 \in P
    BY <1>10
  <2> HIDE DEF P
  <2> QED
    BY <2>1, Induction DEF P
<1>12. weight \in [Nat -> Nat \ {0}]
  <2>1. \A n \in Nat : weight[n] \in Nat \ {0}
    BY <1>11
  <2> QED
    BY <1>9, <2>1
<1> QED
  BY <1>10, <1>12

\* What n bits make is less than the weight of the next one.
LEMMA ReadsBelow ==
    ASSUME NEW w \in Nat, NEW a \in IDs(w), NEW v, Reads(v, a, w), NEW n \in 0..w
    PROVE  v[n] \in 0..(weight[n] - 1)
<1> DEFINE S == {m \in Nat : m <= w => v[m] \in Nat /\ weight[m] \in Nat /\ v[m] < weight[m]}
<1>1. 0 \in S
  BY Weights DEF Reads
<1>2. ASSUME NEW m \in S PROVE m + 1 \in S
  <2> SUFFICES ASSUME m + 1 <= w
               PROVE  v[m + 1] \in Nat /\ weight[m + 1] \in Nat /\ v[m + 1] < weight[m + 1]
    OBVIOUS
  <2>1. a[m + 1] \in {0, 1} /\ m + 1 \in 1..w /\ (m + 1) - 1 = m
    BY DEF IDs
  <2>2. v[m + 1] = 2 * v[m] + a[m + 1]
    BY <2>1 DEF Reads
  <2>3. weight[m + 1] = 2 * weight[m]
    BY Weights
  <2> QED
    BY <2>1, <2>2, <2>3
<1>3. S = Nat
  <2> HIDE DEF S
  <2> QED
    BY <1>1, <1>2, Induction DEF S
<1> QED
  BY <1>3

\* The product of two weights.
LEMMA WeightSum ==
    ASSUME NEW m \in Nat, NEW n \in Nat
    PROVE  weight[m + n] = weight[m] * weight[n]
<1> DEFINE S == {k \in Nat : weight[m + k] = weight[m] * weight[k]}
<1>0. \A k \in Nat : weight[k] \in Nat /\ weight[k + 1] = 2 * weight[k]
  BY Weights
<1>1. 0 \in S
  <2>1. weight[0] = 1 /\ m + 0 = m
    BY Weights
  <2> QED
    BY <1>0, <2>1
<1>2. ASSUME NEW k \in S PROVE k + 1 \in S
  <2>1. m + (k + 1) = (m + k) + 1 /\ m + k \in Nat
    OBVIOUS
  <2>2. weight[m + (k + 1)] = 2 * weight[m + k]
    BY <1>0, <2>1
  <2>3. weight[m + k] = weight[m] * weight[k]
    OBVIOUS
  <2>4. weight[m] \in Nat /\ weight[k] \in Nat /\ weight[k + 1] = 2 * weight[k]
    BY <1>0
  <2>5. \A x, y \in Nat : 2 * (x * y) = x * (2 * y)
    OBVIOUS
  <2> QED
    BY <2>2, <2>3, <2>4, <2>5
<1>3. S = Nat
  <2> HIDE DEF S
  <2> QED
    BY <1>1, <1>2, Induction DEF S
<1> QED
  BY <1>3

\* The same bits make the same number.
LEMMA SameBits ==
    ASSUME NEW w \in Nat, NEW a, NEW u, Reads(u, a, w),
           NEW x \in Nat, NEW b, NEW v, Reads(v, b, x),
           NEW n \in 0..w, n <= x, \A i \in 1..n : a[i] = b[i]
    PROVE  u[n] = v[n]
<1> DEFINE S == {m \in Nat : m <= n => u[m] = v[m]}
<1>1. 0 \in S
  BY DEF Reads
<1>2. ASSUME NEW m \in S PROVE m + 1 \in S
  <2> SUFFICES ASSUME m + 1 <= n PROVE u[m + 1] = v[m + 1]
    OBVIOUS
  <2>1. m + 1 \in 1..n /\ m + 1 \in 1..w /\ m + 1 \in 1..x /\ (m + 1) - 1 = m
    OBVIOUS
  <2> QED
    BY <2>1 DEF Reads
<1>3. S = Nat
  <2> HIDE DEF S
  <2> QED
    BY <1>1, <1>2, Induction DEF S
<1> QED
  BY <1>3

\* The same number is made of the same bits.
LEMMA SameNumber ==
    ASSUME NEW w \in Nat, NEW a \in IDs(w), NEW u, Reads(u, a, w),
           NEW b \in IDs(w), NEW v, Reads(v, b, w), NEW n \in 0..w, u[n] = v[n]
    PROVE  \A i \in 1..n : a[i] = b[i]
<1> DEFINE S == {m \in Nat : m <= w /\ u[m] = v[m] => \A i \in 1..m : a[i] = b[i]}
<1>1. 0 \in S
  OBVIOUS
<1>2. ASSUME NEW m \in S PROVE m + 1 \in S
  <2> SUFFICES ASSUME m + 1 <= w, u[m + 1] = v[m + 1] PROVE \A i \in 1..(m + 1) : a[i] = b[i]
    OBVIOUS
  <2>1. m + 1 \in 1..w /\ (m + 1) - 1 = m /\ a[m + 1] \in {0, 1} /\ b[m + 1] \in {0, 1}
    BY DEF IDs
  <2>2. u[m] \in Nat /\ v[m] \in Nat /\ 2 * u[m] + a[m + 1] = 2 * v[m] + b[m + 1]
    BY <2>1 DEF Reads
  <2>3. u[m] = v[m] /\ a[m + 1] = b[m + 1]
    BY <2>1, <2>2
  <2> QED
    BY <2>3
<1>3. S = Nat
  <2> HIDE DEF S
  <2> QED
    BY <1>1, <1>2, Induction DEF S
<1> QED
  BY <1>3

\* Once a number is smaller, the bits that follow leave it so.
LEMMA StaysSmaller ==
    ASSUME NEW w \in Nat, NEW a \in IDs(w), NEW u, Reads(u, a, w),
           NEW b \in IDs(w), NEW v, Reads(v, b, w), NEW n \in 0..w, u[n] < v[n]
    PROVE  u[w] < v[w]
<1> DEFINE S == {k \in Nat : n + k <= w => u[n + k] < v[n + k]}
<1>1. 0 \in S
  OBVIOUS
<1>2. ASSUME NEW k \in S PROVE k + 1 \in S
  <2> SUFFICES ASSUME n + (k + 1) <= w PROVE u[n + (k + 1)] < v[n + (k + 1)]
    OBVIOUS
  <2> DEFINE m == n + k
  <2>1. m + 1 \in 1..w /\ (m + 1) - 1 = m /\ n + (k + 1) = m + 1 /\ u[m] < v[m] /\ m \in 0..w
    OBVIOUS
  <2> HIDE DEF m
  <2>2. a[m + 1] \in {0, 1} /\ b[m + 1] \in {0, 1}
    BY <2>1 DEF IDs
  <2>3. u[m] \in Nat /\ v[m] \in Nat
    BY <2>1 DEF Reads
  <2>4. u[m + 1] = 2 * u[m] + a[m + 1] /\ v[m + 1] = 2 * v[m] + b[m + 1]
    BY <2>1 DEF Reads
  <2> QED
    BY <2>1, <2>2, <2>3, <2>4
<1>3. S = Nat
  <2> HIDE DEF S
  <2> QED
    BY <1>1, <1>2, Induction DEF S
<1>4. w - n \in Nat /\ n + (w - n) = w
  OBVIOUS
<1>5. u[n + (w - n)] < v[n + (w - n)]
  <2>1. w - n \in S
    BY <1>3, <1>4
  <2> QED
    BY <1>4, <2>1
<1> QED
  BY <1>4, <1>5

\* The last bits of a number are the remainder of its division by their weight.
LEMMA Upper ==
    ASSUME NEW w \in Nat, NEW a \in IDs(w), NEW v, Reads(v, a, w), NEW n \in 0..w
    PROVE  \E r \in 0..(weight[w - n] - 1) : v[w] = v[n] * weight[w - n] + r
<1> DEFINE S == {k \in Nat : n + k <= w =>
                    \E r \in 0..(weight[k] - 1) : v[n + k] = v[n] * weight[k] + r}
<1>0. v[n] \in Nat /\ \A k \in Nat : weight[k] \in Nat \ {0} /\ weight[k + 1] = 2 * weight[k]
  BY Weights DEF Reads
<1>1. 0 \in S
  <2>1. weight[0] = 1 /\ n + 0 = n
    BY Weights
  <2>2. v[n] = v[n] * 1 + 0
    BY <1>0
  <2> QED
    BY <2>1, <2>2
<1>2. ASSUME NEW k \in S PROVE k + 1 \in S
  <2> SUFFICES ASSUME n + (k + 1) <= w
               PROVE  \E r \in 0..(weight[k + 1] - 1) : v[n + (k + 1)] = v[n] * weight[k + 1] + r
    OBVIOUS
  <2> DEFINE m == n + k
  <2>1. m + 1 \in 1..w /\ (m + 1) - 1 = m /\ n + (k + 1) = m + 1 /\ m \in 0..w /\ n + k = m
    OBVIOUS
  <2>2. PICK r \in 0..(weight[k] - 1) : v[m] = v[n] * weight[k] + r
    OBVIOUS
  <2> HIDE DEF m
  <2>3. a[m + 1] \in {0, 1}
    BY <2>1 DEF IDs
  <2>4. v[m + 1] = 2 * v[m] + a[m + 1]
    BY <2>1 DEF Reads
  <2> DEFINE W == weight[k]
             x == v[n]
  <2>5. W \in Nat \ {0} /\ x \in Nat /\ weight[k + 1] = 2 * W /\ r \in 0..(W - 1) /\ v[m] = x * W + r
    BY <1>0, <2>2
  <2>6. v[n + (k + 1)] = 2 * (x * W + r) + a[m + 1]
    BY <2>1, <2>4, <2>5
  <2> HIDE DEF W, x
  <2>7. 2 * r + a[m + 1] \in 0..(2 * W - 1)
    BY <2>3, <2>5
  <2>8. 2 * (x * W + r) + a[m + 1] = x * (2 * W) + (2 * r + a[m + 1])
    BY <2>3, <2>5
  <2>9. v[n + (k + 1)] = x * weight[k + 1] + (2 * r + a[m + 1])
    BY <2>5, <2>6, <2>8
  <2>10. 2 * r + a[m + 1] \in 0..(weight[k + 1] - 1)
    BY <2>5, <2>7
  <2> QED
    BY <2>9, <2>10 DEF x
<1>3. S = Nat
  <2> HIDE DEF S
  <2> QED
    BY <1>1, <1>2, Induction DEF S
<1>4. w - n \in Nat /\ n + (w - n) = w
  OBVIOUS
<1> QED
  BY <1>3, <1>4

\* The XOR of two IDs.
Xor(a, b) == [i \in DOMAIN a |-> IF a[i] = b[i] THEN 0 ELSE 1]

\* Every two different sequences of bits have a first place where they differ.
LEMMA FirstDifference ==
    ASSUME NEW w \in Nat, NEW a \in IDs(w), NEW b \in IDs(w), a # b
    PROVE  \E i \in 1..w : a[i] # b[i] /\ \A j \in 1..(i - 1) : a[j] = b[j]
<1> DEFINE D == {i \in 1..w : a[i] # b[i]}
<1>1. D \in SUBSET Nat /\ D # {}
  <2>1. \E i \in 1..w : a[i] # b[i]
    BY DEF IDs
  <2> QED
    BY <2>1
<1>2. PICK i \in D : \A j \in D : i <= j
  BY <1>1, LeastNatural
<1>3. ASSUME NEW j \in 1..(i - 1) PROVE a[j] = b[j]
  <2>1. j \in 1..w /\ j < i
    OBVIOUS
  <2>2. j \notin D
    BY <1>2, <2>1
  <2> QED
    BY <2>1, <2>2
<1> QED
  BY <1>3

\* What is closer to a key has the smaller distance to it.
LEMMA CloserSmaller ==
    ASSUME NEW w \in Nat, NEW a \in IDs(w), NEW b \in IDs(w), NEW key \in IDs(w),
           Closer(a, b, key)
    PROVE  Distance(a, key) < Distance(b, key)
<1> DEFINE x == Xor(a, key)
           y == Xor(b, key)
<1>1. x \in IDs(w) /\ y \in IDs(w)
  BY DEF IDs, Xor
<1>2. PICK u : Reads(u, x, w) /\ KeyValue(x) = u[w]
  BY <1>1, ReadsKey
<1>3. PICK v : Reads(v, y, w) /\ KeyValue(y) = v[w]
  BY <1>1, ReadsKey
<1>4. PICK i \in 1..w : /\ \A j \in 1..(i - 1) : a[j] = b[j]
                        /\ a[i] = key[i] /\ b[i] # key[i]
  BY DEF Closer, IDs
<1>5. x[i] = 0 /\ y[i] = 1 /\ \A j \in 1..(i - 1) : x[j] = y[j]
  BY <1>4 DEF Xor, IDs
<1>6. i - 1 \in 0..w
  OBVIOUS
<1> HIDE DEF x, y
<1>7. u[i - 1] = v[i - 1]
  BY <1>2, <1>3, <1>5, <1>6, SameBits
<1>8. u[i - 1] \in Nat /\ u[i] = 2 * u[i - 1] + x[i] /\ v[i] = 2 * v[i - 1] + y[i]
  BY <1>2, <1>3, <1>6 DEF Reads
<1>9. u[i] < v[i]
  BY <1>5, <1>7, <1>8
<1>10. u[w] < v[w]
  <2>1. i \in 0..w
    OBVIOUS
  <2> QED
    BY <1>1, <1>2, <1>3, <1>9, <2>1, StaysSmaller
<1> QED
  BY <1>2, <1>3, <1>10 DEF Distance, Xor, x, y

\* A distance is a natural.
LEMMA DistanceType ==
    ASSUME NEW w \in Nat, NEW a \in IDs(w), NEW key \in IDs(w)
    PROVE  Distance(a, key) \in Nat
<1>1. Xor(a, key) \in IDs(w)
  BY DEF IDs, Xor
<1>2. PICK u : Reads(u, Xor(a, key), w) /\ KeyValue(Xor(a, key)) = u[w]
  BY <1>1, ReadsKey
<1> QED
  BY <1>2 DEF Distance, Xor, Reads

\* Of two IDs one is closer to a key.
LEMMA OneIsCloser ==
    ASSUME NEW w \in Nat, NEW a \in IDs(w), NEW b \in IDs(w), NEW key \in IDs(w), a # b
    PROVE  Closer(a, b, key) \/ Closer(b, a, key)
<1>1. PICK i \in 1..w : a[i] # b[i] /\ \A j \in 1..(i - 1) : a[j] = b[j]
  BY FirstDifference
<1>2. a[i] \in {0, 1} /\ b[i] \in {0, 1} /\ key[i] \in {0, 1} /\ DOMAIN key = 1..w
  BY DEF IDs
<1> QED
  BY <1>1, <1>2 DEF Closer

\* Whatever the width of the key space, Closer, which looks for the first bit that
\* decides, compares the XORs as numbers, as keyspace/xor.go does.
THEOREM CloserIsNearer ==
    ASSUME NEW w \in Nat, NEW a \in IDs(w), NEW b \in IDs(w), NEW key \in IDs(w)
    PROVE  Closer(a, b, key) <=> Distance(a, key) < Distance(b, key)
<1>1. Distance(a, key) \in Nat /\ Distance(b, key) \in Nat
  BY DistanceType
<1>2. Closer(a, b, key) => Distance(a, key) < Distance(b, key)
  BY CloserSmaller
<1>3. ASSUME Distance(a, key) < Distance(b, key) PROVE Closer(a, b, key)
  <2>1. a # b
    BY <1>1, <1>3
  <2>2. CASE Closer(b, a, key)
    <3>1. Distance(b, key) < Distance(a, key)
      BY <2>2, CloserSmaller
    <3> QED
      BY <1>1, <1>3, <3>1
  <2> QED
    BY <2>1, <2>2, OneIsCloser
<1> QED
  BY <1>2, <1>3

\* IDs at the same distance from a key are the same.
LEMMA SameDistance ==
    ASSUME NEW w \in Nat, NEW a \in IDs(w), NEW b \in IDs(w), NEW key \in IDs(w),
           Distance(a, key) = Distance(b, key)
    PROVE  a = b
<1> SUFFICES ASSUME a # b PROVE FALSE
  OBVIOUS
<1>1. Closer(a, b, key) \/ Closer(b, a, key)
  BY OneIsCloser
<1>2. Distance(a, key) \in Nat /\ Distance(b, key) \in Nat
  BY DistanceType
<1>3. Distance(a, key) < Distance(b, key) \/ Distance(b, key) < Distance(a, key)
  BY <1>1, CloserSmaller
<1> QED
  BY <1>2, <1>3
-----------------------------------------------------------------------------
(***************************************************************************)
(* The peers NearestPeers considers.                                       *)
(***************************************************************************)

\* CommonPrefixLen is the number of leading bits that agree.
LEMMA PrefixLen ==
    ASSUME NEW w \in Nat, NEW a \in IDs(w), NEW b \in IDs(w), NEW m, m = CommonPrefixLen(a, b)
    PROVE  /\ m \in 0..w
           /\ \A i \in 1..m : a[i] = b[i]
           /\ m < w => a[m + 1] # b[m + 1]
<1> DEFINE S == {n \in 1..w : \A i \in 1..n : a[i] = b[i]}
<1>1. m = Cardinality(S)
  BY DEF CommonPrefixLen, IDs
<1>2. \A n \in 1..w : n \in S <=> \A i \in 1..n : a[i] = b[i]
  OBVIOUS
<1>3. S \subseteq 1..w
  OBVIOUS
<1> HIDE DEF S
<1>4. CASE S = {}
  <2>1. m = 0
    BY <1>1, <1>4, FS_EmptySet
  <2>2. w > 0 => a[1] # b[1]
    <3> SUFFICES ASSUME w > 0, a[1] = b[1] PROVE FALSE
      OBVIOUS
    <3>1. 1 \in 1..w /\ \A i \in 1..1 : a[i] = b[i]
      OBVIOUS
    <3> QED
      BY <1>2, <1>4, <3>1
  <2> QED
    BY <2>1, <2>2
<1>5. CASE S # {}
  <2> DEFINE M == Max(S)
  <2>1. M \in S /\ \A x \in S : x <= M
    <3>1. S \in SUBSET (0..w)
      BY <1>3
    <3> QED
      BY <1>5, <3>1, MaxExists
  <2> HIDE DEF M
  <2>2. M \in 1..w /\ \A i \in 1..M : a[i] = b[i]
    BY <1>2, <1>3, <2>1
  <2>3. S = 1..M
    <3>1. ASSUME NEW n \in 1..M PROVE n \in S
      <4>1. n \in 1..w /\ \A i \in 1..n : i \in 1..M
        BY <2>2
      <4> QED
        BY <1>2, <2>2, <4>1
    <3>2. ASSUME NEW n \in S PROVE n \in 1..M
      BY <1>3, <2>1, <2>2
    <3> QED
      BY <3>1, <3>2
  <2>4. m = M
    BY <1>1, <2>2, <2>3, FS_Interval
  <2>5. M < w => a[M + 1] # b[M + 1]
    <3> SUFFICES ASSUME M < w, a[M + 1] = b[M + 1] PROVE FALSE
      OBVIOUS
    <3>1. M + 1 \in 1..w /\ \A i \in 1..(M + 1) : i \in 1..M \/ i = M + 1
      BY <2>2
    <3>2. M + 1 \in S
      BY <1>2, <2>2, <3>1
    <3> QED
      BY <2>1, <2>2, <3>2
  <2> QED
    BY <2>2, <2>4, <2>5
<1> QED
  BY <1>4, <1>5

\* What two IDs share follows from what each of them shares with a third.
LEMMA Triangle ==
    ASSUME NEW w \in Nat, NEW a \in IDs(w), NEW b \in IDs(w), NEW l \in IDs(w),
           NEW x, x = CommonPrefixLen(a, l), NEW y, y = CommonPrefixLen(b, l),
           NEW m, m = CommonPrefixLen(a, b)
    PROVE  /\ x \in 0..w /\ y \in 0..w /\ m \in 0..w
           /\ x < y => m = x
           /\ y < x => m = y
           /\ x = y => m >= x
           /\ x = y /\ x < w => m >= x + 1
<1>1. /\ x \in 0..w
      /\ \A i \in 1..x : a[i] = l[i]
      /\ x < w => a[x + 1] # l[x + 1]
  BY PrefixLen
<1>2. /\ y \in 0..w
      /\ \A i \in 1..y : b[i] = l[i]
      /\ y < w => b[y + 1] # l[y + 1]
  BY PrefixLen
<1>3. /\ m \in 0..w
      /\ \A i \in 1..m : a[i] = b[i]
      /\ m < w => a[m + 1] # b[m + 1]
  BY PrefixLen
<1>4. \A i \in 1..w : a[i] \in {0, 1} /\ b[i] \in {0, 1} /\ l[i] \in {0, 1}
  BY DEF IDs
<1>5. m >= x \/ m >= y
  <2> SUFFICES ASSUME m < x, m < y PROVE FALSE
    BY <1>1, <1>2, <1>3
  <2>1. m + 1 \in 1..x /\ m + 1 \in 1..y /\ m < w
    BY <1>1, <1>2, <1>3
  <2> QED
    BY <1>1, <1>2, <1>3, <2>1
<1>6. x < y => m <= x
  <2> SUFFICES ASSUME x < y, m > x PROVE FALSE
    BY <1>1, <1>2, <1>3
  <2>1. x + 1 \in 1..y /\ x + 1 \in 1..m /\ x < w
    BY <1>1, <1>2, <1>3
  <2> QED
    BY <1>1, <1>2, <1>3, <2>1
<1>7. y < x => m <= y
  <2> SUFFICES ASSUME y < x, m > y PROVE FALSE
    BY <1>1, <1>2, <1>3
  <2>1. y + 1 \in 1..x /\ y + 1 \in 1..m /\ y < w
    BY <1>1, <1>2, <1>3
  <2> QED
    BY <1>1, <1>2, <1>3, <2>1
<1>8. x = y /\ x < w => m >= x + 1
  <2> SUFFICES ASSUME x = y, x < w, m <= x PROVE FALSE
    BY <1>1, <1>2, <1>3
  <2>1. m = x
    BY <1>1, <1>2, <1>3, <1>5
  <2>2. x + 1 \in 1..w
    BY <1>1
  <2>3. a[x + 1] # l[x + 1] /\ b[x + 1] # l[x + 1] /\ a[x + 1] # b[x + 1]
    BY <1>1, <1>2, <1>3, <2>1
  <2> QED
    BY <1>4, <2>2, <2>3
<1> QED
  BY <1>1, <1>2, <1>3, <1>5, <1>6, <1>7, <1>8

\* The bits a peer shares with a key.
Share(p, key) == CommonPrefixLen(ID[p], key)

\* The peer that shares more bits with a key is closer to it.
LEMMA ShareCloser ==
    ASSUME NEW p \in Peers, NEW q \in Peers, NEW key \in IDs(Width),
           Share(p, key) < Share(q, key)
    PROVE  q \in closer[key][p]
<1> DEFINE x == Share(p, key)
           y == Share(q, key)
<1>0. Width \in Nat /\ ID[p] \in IDs(Width) /\ ID[q] \in IDs(Width)
  BY RoutingTableAssumption
<1>1. /\ x \in 0..Width
      /\ \A i \in 1..x : ID[p][i] = key[i]
      /\ x < Width => ID[p][x + 1] # key[x + 1]
  BY <1>0, PrefixLen DEF Share
<1>2. /\ y \in 0..Width
      /\ \A i \in 1..y : ID[q][i] = key[i]
  BY <1>0, PrefixLen DEF Share
<1>3. x < y
  OBVIOUS
<1> HIDE DEF x, y
<1>4. DOMAIN key = 1..Width
  BY DEF IDs
<1>5. x + 1 \in 1..Width /\ x + 1 \in 1..y /\ x < Width /\ (x + 1) - 1 = x
  BY <1>0, <1>1, <1>2, <1>3
<1>6. \A j \in 1..x : j \in 1..y
  BY <1>1, <1>2, <1>3
<1>7. \A j \in 1..x : ID[q][j] = ID[p][j]
  BY <1>1, <1>2, <1>6
<1>8. ID[q][x + 1] = key[x + 1] /\ ID[p][x + 1] # key[x + 1]
  BY <1>1, <1>2, <1>5
<1>9. Closer(ID[q], ID[p], key)
  BY <1>4, <1>5, <1>7, <1>8 DEF Closer
<1> QED
  BY <1>9 DEF closer

\* The bits that peers share with a key, by their bucket and the key's.
LEMMA BucketShares ==
    ASSUME NEW bs, Good(bs), NEW key \in IDs(Width), NEW c, c = bucketForKey(bs, key),
           NEW j \in 1..Len(bs), NEW p \in bs[j].peers
    PROVE  /\ c \in 1..Len(bs) /\ p \in Peers /\ Share(p, key) \in 0..Width
           /\ j < c => Share(p, key) = j - 1
           /\ j = c => Share(p, key) >= c - 1
           /\ j = c /\ c <= Width /\ c < Len(bs) => Share(p, key) >= c
           /\ j > c => Share(p, key) = c - 1 /\ c <= Width
<1> DEFINE L == Len(bs)
           x == Cpl(p)
           y == keyCpls[key]
           m == Share(p, key)
<1>1. L \in Nat /\ L >= 1 /\ Width \in Nat /\ DOMAIN bs = 1..L /\ p \in Peers
  BY Shape DEF Good
<1>2. ID[p] \in IDs(Width) /\ Local \in IDs(Width)
  BY <1>1, RoutingTableAssumption
<1>3. x = CommonPrefixLen(ID[p], Local) /\ y = CommonPrefixLen(key, Local)
      /\ m = CommonPrefixLen(ID[p], key)
  BY <1>1 DEF Cpl, cpls, keyCpls, Share
<1>4. c = IF y < L THEN y + 1 ELSE L
  BY DEF bucketForKey
<1>5. j = IF x < L THEN x + 1 ELSE L
  BY <1>1 DEF Good, Placed, bucketIdForPeer
<1> HIDE DEF L, x, y, m
<1>6. /\ x \in 0..Width /\ y \in 0..Width /\ m \in 0..Width
      /\ x < y => m = x
      /\ y < x => m = y
      /\ x = y => m >= x
      /\ x = y /\ x < Width => m >= x + 1
  BY <1>1, <1>2, <1>3, Triangle
<1>7. c \in 1..L
  BY <1>1, <1>4, <1>6
<1>8. j < c => m = j - 1
  BY <1>1, <1>4, <1>5, <1>6
<1>9. j = c => m >= c - 1
  BY <1>1, <1>4, <1>5, <1>6
<1>10. j = c /\ c <= Width /\ c < L => m >= c
  BY <1>1, <1>4, <1>5, <1>6
<1>11. j > c => m = c - 1 /\ c <= Width
  BY <1>1, <1>4, <1>5, <1>6, <1>7
<1> QED
  BY <1>1, <1>6, <1>7, <1>8, <1>9, <1>10, <1>11 DEF L, m

\* The answer to every key holds the bucketsize closest peers of a good table
\* with finite buckets.
LEMMA GatheredComplete ==
    ASSUME IInv, Roomy(buckets), NEW key \in IDs(Width), NEW p \in nearest(key)
    PROVE  p \in gathered(buckets, key)
<1> DEFINE T == InTable(buckets)
           L == Len(buckets)
           c == bucketForKey(buckets, key)
           count == beta(buckets[c])
           near == IF Cardinality(buckets[c].peers) < count
                   THEN peersBetween(buckets, c, L) ELSE buckets[c].peers
           left(i) == near \cup peersBetween(buckets, i + 1, c - 1)
           short == {i \in 1..(c - 1) : Cardinality(left(i)) < count}
           N == T \cap closer[key][p]
<1>1. p \in T /\ Cardinality(N) < BucketSize
  BY DEF nearest
<1>2. gathered(buckets, key) = near \cup UNION {buckets[i].peers : i \in short}
  BY DEF gathered
<1>3. /\ Good(buckets) /\ L \in Nat /\ L >= 1 /\ DOMAIN buckets = 1..L /\ Width \in Nat
      /\ \A i \in 1..L : buckets[i] \in Bucket /\ buckets[i].k \in Nat
  BY Shape DEF IInv, Good
<1>4. PICK j \in 1..L : p \in buckets[j].peers
  BY <1>1, <1>3, InTableMeans
<1> SUFFICES ASSUME p \notin gathered(buckets, key) PROVE FALSE
  OBVIOUS
<1>5. c \in 1..L
  BY <1>3, <1>4, BucketShares
<1>6. IsFiniteSet(N)
  <2>1. IsFiniteSet(1..L)
    BY <1>3, FS_Interval
  <2>2. \A i \in 1..L : IsFiniteSet(buckets[i].peers)
    BY <1>3 DEF Roomy, RoomyBucket
  <2>3. IsFiniteSet({buckets[i].peers : i \in 1..L})
    <3> DEFINE U == {buckets[i].peers : i \in 1..L}
               g == [i \in 1..L |-> buckets[i].peers]
    <3>1. g \in [1..L -> U] /\ \A u \in U : \E i \in 1..L : g[i] = u
      OBVIOUS
    <3>2. g \in Surjection(1..L, U)
      BY <3>1, Zenon DEF Surjection
    <3> QED
      BY <2>1, <3>2, FS_Surjection
  <2>4. IsFiniteSet(T)
    BY <1>3, <2>2, <2>3, FS_UNION DEF InTable
  <2> QED
    BY <2>4, FS_Subset
<1> HIDE DEF c, L
<1>7. j # c
  <2>1. buckets[c].peers \subseteq near
    BY <1>3, <1>5 DEF peersBetween
  <2> QED
    BY <1>2, <1>4, <2>1
<1>8. count = BucketSize
  <2>1. L > 1
    BY <1>3, <1>4, <1>5, <1>7
  <2>2. buckets[c].k >= BucketSize /\ buckets[c].k \in Nat
    BY <1>3, <1>5, <2>1 DEF Good, Sized, L
  <2> QED
    BY <2>2, RoutingTableAssumption DEF beta
\* The peers counted before p's bucket was left out are all closer than p.
<1>9. ASSUME NEW Q, Q \subseteq N, ~(Cardinality(Q) < BucketSize) PROVE FALSE
  <2>1. IsFiniteSet(Q) /\ Cardinality(Q) <= Cardinality(N)
    BY <1>6, <1>9, FS_Subset
  <2>2. Cardinality(Q) \in Nat /\ Cardinality(N) \in Nat /\ BucketSize \in Nat
    BY <1>6, <2>1, FS_CardinalityType, RoutingTableAssumption
  <2> QED
    BY <1>1, <1>9, <2>1, <2>2
<1>10. /\ p \in Peers /\ Share(p, key) \in 0..Width
       /\ j < c => Share(p, key) = j - 1
       /\ j > c => Share(p, key) = c - 1 /\ c <= Width
  BY <1>3, <1>4, BucketShares DEF c, L
<1>11. ASSUME NEW i \in 1..L, NEW q \in buckets[i].peers, Share(p, key) < Share(q, key)
       PROVE  q \in N
  <2>1. q \in T
    BY <1>3, <1>11, InTableMeans
  <2>2. q \in Peers
    BY <1>3, <1>11, BucketShares DEF L
  <2> QED
    BY <1>10, <1>11, <2>1, <2>2, ShareCloser
<1>12. ASSUME NEW i \in 1..L, NEW q \in buckets[i].peers
       PROVE  /\ Share(q, key) \in 0..Width
              /\ i < c => Share(q, key) = i - 1
              /\ i = c => Share(q, key) >= c - 1
              /\ i = c /\ c <= Width /\ c < L => Share(q, key) >= c
              /\ i > c => Share(q, key) = c - 1
  BY <1>3, <1>12, BucketShares DEF c, L
<1>13. CASE j > c
  <2>1. ~(Cardinality(buckets[c].peers) < count)
    <3> SUFFICES ASSUME Cardinality(buckets[c].peers) < count PROVE FALSE
      OBVIOUS
    <3>1. near = UNION {buckets[i].peers : i \in c..L}
      BY DEF peersBetween
    <3>2. j \in c..L
      BY <1>3, <1>4, <1>5, <1>13
    <3>3. p \in near
      BY <1>4, <3>1, <3>2
    <3> QED
      BY <1>2, <3>3
  <2>2. ASSUME NEW q \in buckets[c].peers PROVE q \in N
    <3>1. Share(q, key) \in 0..Width /\ Share(q, key) >= c
      BY <1>3, <1>4, <1>5, <1>10, <1>12, <1>13
    <3>2. Share(p, key) < Share(q, key)
      BY <1>3, <1>5, <1>10, <1>13, <3>1
    <3> QED
      BY <1>5, <1>11, <3>2
  <2>3. buckets[c].peers \subseteq N
    BY <2>2
  <2> QED
    BY <1>8, <1>9, <2>1, <2>3
<1>14. CASE j < c
  <2>1. j \in 1..(c - 1)
    BY <1>3, <1>4, <1>5, <1>14
  <2>2. j \notin short
    BY <1>2, <1>4
  <2>3. ~(Cardinality(left(j)) < count)
    BY <2>1, <2>2
  <2>4. ASSUME NEW q \in left(j) PROVE q \in N
    <3>1. \E i \in 1..L : i > j /\ q \in buckets[i].peers
      <4>1. CASE q \in buckets[c].peers
        BY <1>5, <1>14, <4>1
      <4>2. CASE q \in peersBetween(buckets, c, L)
        <5>1. PICK i \in c..L : q \in buckets[i].peers
          BY <4>2 DEF peersBetween
        <5>2. i \in 1..L /\ i > j
          BY <1>3, <1>4, <1>5, <1>14
        <5> QED
          BY <5>1, <5>2
      <4>3. CASE q \in peersBetween(buckets, j + 1, c - 1)
        <5>1. PICK i \in (j + 1)..(c - 1) : q \in buckets[i].peers
          BY <4>3 DEF peersBetween
        <5>2. i \in 1..L /\ i > j
          BY <1>3, <1>4, <1>5
        <5> QED
          BY <5>1, <5>2
      <4> QED
        BY <2>4, <4>1, <4>2, <4>3
    <3>2. PICK i \in 1..L : i > j /\ q \in buckets[i].peers
      BY <3>1
    <3>3. Share(q, key) \in 0..Width /\ Share(q, key) >= j
      BY <1>3, <1>4, <1>5, <1>12, <1>14, <3>2
    <3>4. Share(p, key) < Share(q, key)
      BY <1>3, <1>4, <1>10, <1>14, <3>3
    <3> QED
      BY <1>11, <3>2, <3>4
  <2>5. left(j) \subseteq N
    BY <2>4
  <2> QED
    BY <1>8, <1>9, <2>3, <2>5
<1> QED
  BY <1>3, <1>4, <1>5, <1>7, <1>13, <1>14

\* Whatever the peers, the IDs and the capacities, NearestPeers considers the
\* bucketsize peers of the table that are closest to the key it is asked for.
THEOREM NearestFound == Spec => []NearestComplete
<1>1. IInv /\ Roomy(buckets) => NearestComplete
  BY GatheredComplete DEF NearestComplete
<1> QED
  BY <1>1, Inductive, AlwaysRoomy, PTL

\* A set of peers that is not empty has a nearest peer, which first chooses.
LEMMA FirstExists ==
    ASSUME NEW S \in SUBSET Peers, S # {}, NEW dist \in [Peers -> Nat]
    PROVE  first(S, dist) \in S /\ \A q \in S : dist[first(S, dist)] <= dist[q]
<1> DEFINE D == {dist[p] : p \in S}
<1>1. D \in SUBSET Nat /\ D # {}
  OBVIOUS
<1>2. PICK x \in D : \A y \in D : x <= y
  BY <1>1, LeastNatural
<1>3. PICK p \in S : dist[p] = x
  OBVIOUS
<1>4. \A q \in S : dist[p] <= dist[q]
  BY <1>2, <1>3
<1> QED
  BY <1>4 DEF first

\* distances holds naturals, and a peer at the same distance is the same peer.
LEMMA Distances ==
    ASSUME NEW key \in IDs(Width)
    PROVE  /\ distances[key] \in [Peers -> Nat]
           /\ \A p, q \in Peers : /\ distances[key][p] = distances[key][q] => p = q
                                  /\ q \in closer[key][p] => distances[key][q] < distances[key][p]
<1>1. Width \in Nat /\ \A p \in Peers : ID[p] \in IDs(Width)
  BY RoutingTableAssumption
<1>2. distances[key] = [p \in Peers |-> Distance(ID[p], key)]
  BY DEF distances
<1>3. \A p \in Peers : Distance(ID[p], key) \in Nat
  BY <1>1, DistanceType
<1>4. ASSUME NEW p \in Peers, NEW q \in Peers, distances[key][p] = distances[key][q]
      PROVE  p = q
  <2>1. Distance(ID[p], key) = Distance(ID[q], key)
    BY <1>2, <1>4
  <2>2. ID[p] = ID[q]
    BY <1>1, <2>1, SameDistance
  <2> QED
    BY <2>2, DistinctIDs
<1>5. ASSUME NEW p \in Peers, NEW q \in Peers, q \in closer[key][p]
      PROVE  distances[key][q] < distances[key][p]
  <2>1. Closer(ID[q], ID[p], key)
    BY <1>5 DEF closer
  <2>2. Distance(ID[q], key) < Distance(ID[p], key)
    BY <1>1, <2>1, CloserSmaller
  <2> QED
    BY <1>2, <2>2
<1> QED
  BY <1>2, <1>3, <1>4, <1>5

\* Only peers of the table are considered.
LEMMA GatheredInTable ==
    ASSUME NEW bs, Good(bs), NEW key \in IDs(Width)
    PROVE  gathered(bs, key) \subseteq InTable(bs)
<1>1. DOMAIN bs = 1..Len(bs) /\ Len(bs) \in Nat /\ Len(bs) >= 1
  BY Shape DEF Good
<1>2. Width \in Nat /\ keyCpls[key] \in 0..Width
  BY RoutingTableAssumption, PrefixLen DEF keyCpls
<1>3. bucketForKey(bs, key) \in 1..Len(bs)
  BY <1>1, <1>2 DEF bucketForKey
<1> DEFINE c == bucketForKey(bs, key)
           near == IF Cardinality(bs[c].peers) < beta(bs[c])
                   THEN peersBetween(bs, c, Len(bs)) ELSE bs[c].peers
           short == {i \in 1..(c - 1) :
                       Cardinality(near \cup peersBetween(bs, i + 1, c - 1)) < beta(bs[c])}
<1>4. gathered(bs, key) = near \cup UNION {bs[i].peers : i \in short}
  BY DEF gathered
<1> HIDE DEF c
<1>5. near \subseteq InTable(bs)
  BY <1>1, <1>3 DEF peersBetween, InTable, c
<1>6. short \subseteq 1..Len(bs)
  BY <1>1, <1>3 DEF c
<1> HIDE DEF near, short
<1> QED
  BY <1>1, <1>4, <1>5, <1>6 DEF InTable

\* The nearest peer of the table is among those gathered, so it is the first of them.
LEMMA NearestFirst ==
    ASSUME IInv, NearestComplete PROVE FirstIsNear
<1> DEFINE T == InTable(buckets)
<1> SUFFICES ASSUME T # {}, NEW key \in IDs(Width),
                    distances[key][first(T, distances[key])] > 0,
                    NEW f \in NearestPeer(buckets, key)
             PROVE  /\ distances[key][f] < 2 * distances[key][first(T, distances[key])]
                    /\ info[f].rtt <= info[first(T, distances[key])].rtt
  BY DEF FirstIsNear
<1> DEFINE dist == distances[key]
           n == first(T, dist)
           S == gathered(buckets, key)
<1>1. Good(buckets)
  BY DEF IInv
<1>2. T \subseteq Peers
  BY <1>1, Shape, InTableMeans DEF Good
<1>3. dist \in [Peers -> Nat] /\ \A p, q \in Peers : dist[p] = dist[q] => p = q
  BY Distances
<1>4. n \in T /\ \A q \in T : dist[n] <= dist[q]
  BY <1>2, <1>3, FirstExists
\* No peer of the table is closer than the nearest one: it is gathered.
<1>5. n \in S
  <2>1. T \cap closer[key][n] = {}
    BY <1>2, <1>3, <1>4, Distances
  <2>2. Cardinality(T \cap closer[key][n]) < BucketSize
    <3>1. Cardinality({}) = 0 /\ BucketSize \in Nat /\ BucketSize >= 2
      BY FS_EmptySet, RoutingTableAssumption
    <3> HIDE DEF T, n
    <3> QED
      BY <2>1, <3>1
  <2>3. n \in nearest(key)
    BY <1>4, <2>2 DEF nearest
  <2> QED
    BY <2>3 DEF NearestComplete
<1>6. S \subseteq T
  BY <1>1, GatheredInTable
<1> HIDE DEF S, T
<1>7. first(S, dist) = n
  <2>1. first(S, dist) \in S /\ \A q \in S : dist[first(S, dist)] <= dist[q]
    BY <1>2, <1>3, <1>5, <1>6, FirstExists
  <2>2. dist[first(S, dist)] = dist[n]
    BY <1>2, <1>3, <1>4, <1>5, <1>6, <2>1
  <2> QED
    BY <1>2, <1>3, <1>4, <1>6, <2>1, <2>2
<1>8. dist[n] > 0 /\ dist[n] \in Nat
  BY <1>2, <1>3, <1>4 DEF T
<1>9. n \in Peers /\ info[n].rtt \in Nat
  BY <1>2, <1>4 DEF IInv, RestOK, InfoType
<1>10. OKList(S, dist) = {p \in S : dist[p] < 2 * dist[n] /\ info[p].rtt <= info[n].rtt}
  BY <1>7 DEF OKList
<1>11. n \in OKList(S, dist)
  BY <1>5, <1>8, <1>9, <1>10
<1>12. f \in OKList(S, dist)
  BY <1>11 DEF NearestPeer, fastest, S
<1> QED
  BY <1>10, <1>12 DEF T

\* For every key that is not the ID of a peer of the table, NearestPeer answers with a
\* peer that is no slower than the nearest one and less than twice as far.
THEOREM FirstNear == Spec => []FirstIsNear
<1> QED
  BY NearestFirst, NearestFound, Inductive, PTL
-----------------------------------------------------------------------------
(***************************************************************************)
(* What a refresh looks for.                                               *)
(***************************************************************************)

\* The quotient of a division that leaves r.
LEMMA Quotient ==
    ASSUME NEW x \in Nat, NEW d \in Nat \ {0}, NEW r \in 0..(d - 1)
    PROVE  (x * d + r) \div d = x
  OBVIOUS

\* Two divisions of a number by the same divisor.
LEMMA SameQuotient ==
    ASSUME NEW x \in Nat, NEW y \in Nat, NEW d \in Nat \ {0},
           NEW r \in 0..(d - 1), NEW s \in 0..(d - 1), x * d + r = y * d + s
    PROVE  x = y
  OBVIOUS

\* The first PrefixBits bits of an ID.
bitsOf(id) == SubSeq(id, 1, PrefixBits)

\* The prefix of an ID: the first n of its bits, and the rest.
LEMMA PrefixParts ==
    ASSUME NEW id \in IDs(Width)
    PROVE  /\ bitsOf(id) \in IDs(PrefixBits)
           /\ \A i \in 1..PrefixBits : bitsOf(id)[i] = id[i]
           /\ \E v : Reads(v, bitsOf(id), PrefixBits) /\ Prefix(id) = v[PrefixBits]
<1>1. PrefixBits \in 1..Width /\ PrefixBits \in Nat /\ Width \in Nat
  BY RefreshAssumption, RoutingTableAssumption
<1>2. id \in [1..Width -> {0, 1}]
  BY DEF IDs
<1>3. bitsOf(id) = [i \in 1..PrefixBits |-> id[i]]
  BY <1>1, <1>2 DEF bitsOf
<1>4. bitsOf(id) \in IDs(PrefixBits)
  BY <1>1, <1>2, <1>3 DEF IDs
<1>5. \E v : Reads(v, bitsOf(id), PrefixBits) /\ KeyValue(bitsOf(id)) = v[PrefixBits]
  BY <1>1, <1>4, ReadsKey
<1> QED
  BY <1>3, <1>4, <1>5 DEF Prefix, bitsOf

\* Every prefix has a key.
LEMMA PrefixHasKey ==
    ASSUME NEW x \in Prefixes
    PROVE  KeyHash[keyPrefixMap[x]] \in IDs(Width) /\ Prefix(KeyHash[keyPrefixMap[x]]) = x
<1> DEFINE K == {key \in Keys : Prefix(KeyHash[key]) = x}
<1>1. K \in SUBSET Nat /\ K # {}
  BY RefreshAssumption DEF Keys
<1>2. \E y \in K : \A z \in K : y <= z
  BY <1>1, LeastNatural
<1>3. Min(K) \in K
  BY <1>2 DEF Min
<1>4. keyPrefixMap[x] = Min(K)
  BY DEF keyPrefixMap, firstKey
<1> QED
  BY <1>3, <1>4, RefreshAssumption

\* The ID generated for a cpl has that cpl.
LEMMA GeneratedCpl ==
    ASSUME NEW c \in 0..maxCplForRefresh, NEW randPrefix \in Prefixes
    PROVE  CommonPrefixLen(GenRandPeerID(c, randPrefix), Local) = c
<1> DEFINE B == weight[PrefixBits - (c + 1)]
           m == randPrefix % B
           id == GenRandPeerID(c, randPrefix)
<1>1. /\ PrefixBits \in 1..Width /\ PrefixBits \in Nat /\ Width \in Nat /\ Local \in IDs(Width)
      /\ c \in Nat /\ c + 1 \in 1..PrefixBits /\ PrefixBits - 1 - c = PrefixBits - (c + 1)
      /\ PrefixBits - (c + 1) \in Nat
  BY RefreshAssumption, RoutingTableAssumption DEF maxCplForRefresh
<1>2. B \in Nat \ {0} /\ \A n \in Nat : weight[n] \in Nat \ {0} /\ weight[n + 1] = 2 * weight[n]
  BY <1>1, Weights
<1>3. randPrefix \in Nat
  BY <1>1, <1>2 DEF Prefixes
<1>4. m \in 0..(B - 1)
  BY <1>2, <1>3
\* The prefix of the local ID: its first c bits, the one that is toggled, and the rest.
<1>5. PICK v : Reads(v, bitsOf(Local), PrefixBits) /\ Prefix(Local) = v[PrefixBits]
  BY <1>1, PrefixParts
<1> DEFINE l == Local[c + 1]
           q == 2 * v[c] + (1 - l)
<1>6. l \in {0, 1} /\ bitsOf(Local)[c + 1] = l
  BY <1>1, PrefixParts DEF IDs
<1>7. v[c] \in Nat /\ v[c + 1] = 2 * v[c] + l /\ v[c] \in 0..(weight[c] - 1)
  <2>1. c \in 0..PrefixBits /\ (c + 1) - 1 = c
    BY <1>1
  <2>2. v[c + 1] = 2 * v[c] + bitsOf(Local)[c + 1]
    BY <1>1, <1>5, <2>1 DEF Reads
  <2>3. v[c] \in 0..(weight[c] - 1)
    BY <1>1, <1>5, <2>1, PrefixParts, ReadsBelow
  <2> QED
    BY <1>1, <1>2, <1>6, <2>1, <2>2, <2>3
<1>8. PICK r \in 0..(B - 1) : Prefix(Local) = v[c + 1] * B + r
  <2>1. c + 1 \in 0..PrefixBits
    BY <1>1
  <2> QED
    BY <1>1, <1>5, <2>1, PrefixParts, Upper
<1> HIDE DEF B, m, l
<1>9. (Prefix(Local) \div B) % 2 = l
  <2>0. v[c + 1] \in Nat
    BY <1>6, <1>7
  <2>1. Prefix(Local) \div B = v[c + 1]
    BY <1>2, <1>8, <2>0, Quotient
  <2> QED
    BY <1>6, <1>7, <2>1
<1>10. toggledLocalPrefix(c) = q * B + r
  <2>1. weight[PrefixBits - 1 - c] = B
    BY <1>1 DEF B
  <2>2. toggledLocalPrefix(c)
          = IF (Prefix(Local) \div B) % 2 = 0 THEN Prefix(Local) + B ELSE Prefix(Local) - B
    BY <2>1 DEF toggledLocalPrefix
  <2>3. CASE l = 0
    <3>1. toggledLocalPrefix(c) = Prefix(Local) + B
      BY <1>9, <2>2, <2>3
    <3>2. v[c + 1] \in Nat /\ q = v[c + 1] + 1
      BY <1>7, <2>3
    <3>3. \A x \in Nat : (x + 1) * B + r = x * B + r + B
      BY <1>2, <1>8
    <3> HIDE DEF q
    <3> QED
      BY <1>8, <3>1, <3>2, <3>3
  <2>4. CASE l = 1
    <3>1. toggledLocalPrefix(c) = Prefix(Local) - B
      BY <1>9, <2>2, <2>4
    <3>2. q = 2 * v[c] /\ q \in Nat /\ v[c + 1] = q + 1
      BY <1>7, <2>4
    <3>3. \A x \in Nat : (x + 1) * B + r - B = x * B + r
      BY <1>2, <1>8
    <3>4. Prefix(Local) = (q + 1) * B + r
      BY <1>8, <3>2
    <3>5. (q + 1) * B + r - B = q * B + r
      BY <3>2, <3>3
    <3> HIDE DEF q
    <3>6. Prefix(Local) - B = q * B + r
      BY <1>2, <1>8, <3>2, <3>4, <3>5
    <3> QED
      BY <3>1, <3>6
  <2> QED
    BY <1>6, <2>3, <2>4
<1>11. q \in Nat /\ q < weight[c + 1]
  BY <1>1, <1>2, <1>6, <1>7
<1> DEFINE target == q * B + m
<1>12. GenRandPeerID(c, randPrefix) = KeyHash[keyPrefixMap[target]]
  <2>1. toggledLocalPrefix(c) \div B = q
    BY <1>2, <1>8, <1>10, <1>11, Quotient
  <2>2. keptBits(c) = B
    BY DEF keptBits, B
  <2> QED
    BY <2>1, <2>2 DEF GenRandPeerID, m
<1> HIDE DEF q
<1>13. target \in Prefixes
  <2>1. weight[PrefixBits] = weight[c + 1] * B
    <3>1. (c + 1) + (PrefixBits - (c + 1)) = PrefixBits /\ c + 1 \in Nat
      BY <1>1
    <3>2. weight[(c + 1) + (PrefixBits - (c + 1))] = weight[c + 1] * weight[PrefixBits - (c + 1)]
      BY <1>1, <3>1, WeightSum
    <3> QED
      BY <3>1, <3>2 DEF B
  <2>2. \A w \in Nat : q < w => q * B + m <= w * B - 1
    <3> SUFFICES ASSUME NEW w \in Nat, q < w PROVE q * B + m <= w * B - 1
      OBVIOUS
    <3>1. PICK d \in Nat : w = q + 1 + d
      <4>1. w - q - 1 \in Nat /\ w = q + 1 + (w - q - 1)
        BY <1>11
      <4> QED
        BY <4>1
    <3>2. w * B = q * B + B + d * B
      BY <1>2, <1>11, <3>1
    <3>3. d * B \in Nat /\ q * B \in Nat /\ B \in Nat
      BY <1>2, <1>11, <3>1
    <3> QED
      BY <1>4, <3>2, <3>3
  <2>3. weight[c + 1] \in Nat
    BY <1>1, <1>2
  <2>4. q * B + m <= weight[c + 1] * B - 1
    BY <1>11, <2>2, <2>3
  <2>5. q * B + m \in Nat
    BY <1>2, <1>4, <1>11
  <2> QED
    BY <1>1, <1>2, <2>1, <2>4, <2>5 DEF Prefixes
<1>14. id \in IDs(Width) /\ Prefix(id) = q * B + m
  BY <1>12, <1>13, PrefixHasKey
<1> HIDE DEF id
\* Its first c bits are those of the local ID, and the next one is not.
<1>15. PICK u : Reads(u, bitsOf(id), PrefixBits) /\ Prefix(id) = u[PrefixBits]
  BY <1>14, PrefixParts
<1>16. bitsOf(id)[c + 1] \in {0, 1} /\ bitsOf(id)[c + 1] = id[c + 1]
  BY <1>1, <1>14, PrefixParts DEF IDs
<1>17. u[c] \in Nat /\ u[c + 1] = 2 * u[c] + id[c + 1]
  <2>1. c \in 0..PrefixBits /\ (c + 1) - 1 = c
    BY <1>1
  <2> QED
    BY <1>1, <1>15, <1>16, <2>1 DEF Reads
<1>18. u[c + 1] = q
  <2>1. c + 1 \in 0..PrefixBits
    BY <1>1
  <2>2. PICK s \in 0..(B - 1) : Prefix(id) = u[c + 1] * B + s
    BY <1>1, <1>14, <1>15, <2>1, PrefixParts, Upper DEF B
  <2>3. u[c + 1] \in Nat
    BY <1>16, <1>17
  <2>4. u[c + 1] * B + s = q * B + m
    BY <1>14, <2>2
  <2> QED
    BY <1>2, <1>4, <1>11, <2>3, <2>4, SameQuotient
<1>19. u[c] = v[c] /\ id[c + 1] = 1 - l
  BY <1>6, <1>7, <1>16, <1>17, <1>18 DEF q
<1>20. \A i \in 1..c : id[i] = Local[i]
  <2>1. c \in 0..PrefixBits /\ \A i \in 1..c : i \in 1..PrefixBits
    BY <1>1
  <2>2. \A i \in 1..c : bitsOf(id)[i] = bitsOf(Local)[i]
    BY <1>1, <1>5, <1>14, <1>15, <1>19, <2>1, PrefixParts, SameNumber
  <2> QED
    BY <1>1, <1>14, <2>1, <2>2, PrefixParts
<1>21. id[c + 1] # Local[c + 1]
  BY <1>6, <1>19 DEF l
<1> DEFINE x == CommonPrefixLen(id, Local)
<1>22. /\ x \in 0..Width
       /\ \A i \in 1..x : id[i] = Local[i]
       /\ x < Width => id[x + 1] # Local[x + 1]
  BY <1>1, <1>14, PrefixLen
<1> HIDE DEF x
<1>23. ~(x < c)
  <2> SUFFICES ASSUME x < c PROVE FALSE
    OBVIOUS
  <2>1. x + 1 \in 1..c /\ x < Width
    BY <1>1, <1>22
  <2> QED
    BY <1>20, <1>22, <2>1
<1>24. ~(x > c)
  <2> SUFFICES ASSUME x > c PROVE FALSE
    OBVIOUS
  <2>1. c + 1 \in 1..x
    BY <1>1, <1>22
  <2> QED
    BY <1>21, <1>22, <2>1
<1> QED
  BY <1>1, <1>22, <1>23, <1>24 DEF x, id

\* maxCommonPrefix reads the deepest peers: those of the last bucket that has any.
LEMMA DeepestLast ==
    ASSUME NEW bs, Good(bs), NEW p \in InTable(bs)
    PROVE  maxCommonPrefix(bs) \in 0..Width /\ Cpl(p) <= maxCommonPrefix(bs)
<1> DEFINE L == Len(bs)
           full == {i \in DOMAIN bs : bs[i].peers # {}}
           last == Max({1} \cup full)
           C == {0} \cup {Cpl(x) : x \in bs[last].peers}
<1>1. L \in Nat /\ L >= 1 /\ Width \in Nat /\ DOMAIN bs = 1..L
      /\ \A i \in 1..L : bs[i].peers \subseteq Peers
  BY Shape DEF Good
<1>2. PICK j \in 1..L : p \in bs[j].peers
  BY <1>1, InTableMeans
<1>3. last \in {1} \cup full /\ \A i \in {1} \cup full : i <= last
  <2>1. {1} \cup full \in SUBSET (0..L) /\ {1} \cup full # {}
    BY <1>1
  <2> HIDE DEF full
  <2> QED
    BY <1>1, <2>1, MaxExists
<1>4. last \in 1..L /\ j <= last /\ bs[last].peers # {}
  <2>1. j \in full
    BY <1>1, <1>2
  <2>2. \A i \in full : i \in 1..L /\ bs[i].peers # {}
    BY <1>1
  <2>3. j <= last
    BY <1>3, <2>1
  <2>4. CASE last \in full
    <3>1. last \in 1..L /\ bs[last].peers # {}
      BY <2>2, <2>4
    <3> QED
      BY <2>3, <3>1
  <2>5. CASE last = 1
    <3>1. j = last
      BY <1>1, <2>3, <2>5
    <3> QED
      BY <1>2, <2>3, <3>1
  <2> HIDE DEF last, full
  <2> QED
    BY <1>3, <2>4, <2>5
<1>6. maxCommonPrefix(bs) = Max(C)
  BY DEF maxCommonPrefix
<1> HIDE DEF last
<1>7. Max(C) \in C /\ \A x \in C : x <= Max(C)
  <2>1. C \in SUBSET (0..Width) /\ C # {}
    BY <1>1, <1>4, CplType
  <2> HIDE DEF C
  <2> QED
    BY <1>1, <2>1, MaxExists
<1>8. Max(C) \in 0..Width
  BY <1>1, <1>4, <1>7, CplType
<1>9. CASE j = last
  BY <1>2, <1>6, <1>7, <1>8, <1>9
<1>10. CASE j # last
  <2>1. PICK y \in bs[last].peers : TRUE
    BY <1>4
  <2>2. p \in Peers /\ y \in Peers /\ Cpl(p) \in 0..Width /\ Cpl(y) \in 0..Width
    BY <1>1, <1>2, <1>4, <2>1, CplType
  <2>3. j = bucketIdForPeer(bs, p) /\ last = bucketIdForPeer(bs, y)
    BY <1>1, <1>2, <1>4, <2>1 DEF Good, Placed
  <2>4. Cpl(p) <= Cpl(y)
    <3>1. j < last /\ last <= L
      BY <1>1, <1>4, <1>10
    <3>2. j = (IF Cpl(p) < L THEN Cpl(p) + 1 ELSE L) /\ last = (IF Cpl(y) < L THEN Cpl(y) + 1 ELSE L)
      BY <2>3 DEF bucketIdForPeer
    <3>3. \A x, z \in Nat, n \in Nat : j = (IF x < n THEN x + 1 ELSE n) /\ last = (IF z < n THEN z + 1 ELSE n)
                     /\ j < last /\ last <= n => x <= z
      BY <1>1, <1>4
    <3> HIDE DEF L, C, full
    <3> QED
      BY <1>1, <2>2, <3>1, <3>2, <3>3
  <2>5. Cpl(y) \in C
    BY <2>1
  <2>6. Cpl(y) <= Max(C)
    BY <1>7, <2>5
  <2> QED
    BY <1>1, <1>6, <1>8, <2>2, <2>4, <2>6
<1> QED
  BY <1>9, <1>10

\* The lesser of two naturals.
LEMMA LesserOf ==
    ASSUME NEW a \in Nat, NEW b \in Nat
    PROVE  Min({a, b}) = IF a <= b THEN a ELSE b
<1>1. \E x \in {a, b} : \A y \in {a, b} : x <= y
  OBVIOUS
<1>2. Min({a, b}) \in {a, b} /\ \A y \in {a, b} : Min({a, b}) <= y
  BY <1>1 DEF Min
<1> QED
  BY <1>2

\* The cpls that are tracked reach to the deepest peer, or to the longest prefix.
LEMMA TrackedRange ==
    ASSUME NEW bs, maxCommonPrefix(bs) \in Nat
    PROVE  \A cpl \in Nat : cpl \in trackedCpls(bs)
                             <=> cpl <= maxCommonPrefix(bs) /\ cpl <= maxCplForRefresh
<1>1. maxCplForRefresh \in Nat
  BY RefreshAssumption, RoutingTableAssumption DEF maxCplForRefresh
<1>2. trackedCpls(bs) = 0..(IF maxCommonPrefix(bs) <= maxCplForRefresh
                            THEN maxCommonPrefix(bs) ELSE maxCplForRefresh)
  BY <1>1, LesserOf DEF trackedCpls
<1> QED
  BY <1>1, <1>2

\* So it is a natural, also of an empty table.
LEMMA MaxCplType ==
    ASSUME NEW bs, Good(bs) PROVE maxCommonPrefix(bs) \in Nat
<1>1. CASE InTable(bs) # {}
  BY <1>1, DeepestLast, RoutingTableAssumption
<1>2. CASE InTable(bs) = {}
  <2> DEFINE full == {i \in DOMAIN bs : bs[i].peers # {}}
  <2>1. full = {}
    BY <1>2, InTableMeans
  <2>2. 1 \in DOMAIN bs /\ bs[1].peers = {}
    <3>1. DOMAIN bs = 1..Len(bs) /\ Len(bs) \in Nat /\ Len(bs) >= 1
      BY Shape DEF Good
    <3>2. 1 \in DOMAIN bs
      BY <3>1
    <3> QED
      BY <1>2, <3>2, InTableMeans
  <2>3. Max({1} \cup full) = 1
    <3>1. {1} \cup full = {1}
      BY <2>1
    <3>2. Max({1}) \in {1}
      <4>1. {1} \in SUBSET (0..1) /\ {1} # {}
        OBVIOUS
      <4> QED
        BY <4>1, MaxExists
    <3> HIDE DEF full
    <3> QED
      BY <3>1, <3>2
  <2>4. maxCommonPrefix(bs) = Max({0} \cup {Cpl(p) : p \in bs[1].peers})
    BY <2>3 DEF maxCommonPrefix
  <2>5. {0} \cup {Cpl(p) : p \in bs[1].peers} = {0}
    BY <2>2
  <2>6. Max({0}) \in {0}
    <3>1. {0} \in SUBSET (0..0) /\ {0} # {}
      OBVIOUS
    <3> QED
      BY <3>1, MaxExists
  <2> QED
    BY <2>4, <2>5, <2>6
<1> QED
  BY <1>1, <1>2

\* Whatever the table holds, the keys were generated from and the random bits are, a
\* refresh tracks the cpl of every peer of the table, as far as there are prefixes, and
\* looks up an ID of exactly the cpl it is for.
THEOREM RefreshCorrect == Spec => []RefreshHitsBucket
<1>1. ASSUME IInv PROVE RefreshHitsBucket
  <2>1. Good(buckets) /\ maxCommonPrefix(buckets) \in Nat
    BY <1>1, MaxCplType DEF IInv
  <2>2. ASSUME NEW p \in InTable(buckets), Cpl(p) <= maxCplForRefresh
        PROVE  Cpl(p) \in trackedCpls(buckets)
    <3>1. p \in Peers
      BY <2>1, InTableMeans, Shape DEF Good
    <3>2. Cpl(p) \in Nat /\ Cpl(p) <= maxCommonPrefix(buckets)
      BY <2>1, <3>1, DeepestLast, CplType, RoutingTableAssumption
    <3> QED
      BY <2>1, <2>2, <3>2, TrackedRange
  <2>3. ASSUME NEW cpl \in trackedCpls(buckets), NEW randPrefix \in Prefixes
        PROVE  CommonPrefixLen(GenRandPeerID(cpl, randPrefix), Local) = cpl
    <3>1. cpl \in Nat
      BY DEF trackedCpls
    <3>2. cpl <= maxCplForRefresh
      BY <2>1, <3>1, TrackedRange
    <3>3. cpl \in 0..maxCplForRefresh
      BY <3>1, <3>2, RefreshAssumption, RoutingTableAssumption DEF maxCplForRefresh
    <3> QED
      BY <3>3, GeneratedCpl
  <2> QED
    BY <2>2, <2>3 DEF RefreshHitsBucket
<1> QED
  BY <1>1, Inductive, PTL

-----------------------------------------------------------------------------
(***************************************************************************)
(* The table implements TableOutline                                       *)
(*                                                                         *)
(* Peer by peer, what TryAddPeer leaves in the buckets is one of the three *)
(* outcomes of TableAdd.  The lemmas above give the peers of the table     *)
(* after each of its branches; here they are put in terms of membership.   *)
(* That another peer stays when room is made rests on the capacities: they *)
(* are at least bucketsize, which is at least 2, so a bucket that discards *)
(* peers keeps two, and one that is full has two.                          *)
(***************************************************************************)

\* The state of TableOutline, peer by peer.
LEMMA Membership ==
    /\ membership \in [Peers -> {"out", "replaceable", "kept"}]
    /\ \A q \in Peers :
          membership[q] = IF q \notin InTable(buckets) THEN "out"
                          ELSE IF info[q].replaceable THEN "replaceable" ELSE "kept"
    /\ membership' \in [Peers -> {"out", "replaceable", "kept"}]
    /\ \A q \in Peers :
          membership'[q] = IF q \notin InTable(buckets') THEN "out"
                           ELSE IF info'[q].replaceable THEN "replaceable" ELSE "kept"
  BY DEF membership, InTable

\* What TryAddPeer leaves alone when it is done: the PeerInfo of every other peer of the
\* table that it found or made (bs).
LEMMA SettleLeaves ==
    ASSUME NEW bs, NEW r \in Requests, NEW pi, NEW added, NEW err,
           Settle(bs, r, pi, added, err)
    PROVE  /\ buckets' = bs /\ \A q \in Peers \ {r.peer} : q \in InTable(bs) => info'[q] = info[q]
           /\ r.peer \in InTable(bs) => info'[r.peer] = pi
<1>1. info' = [q \in Peers |-> IF q \notin InTable(bs) THEN NoInfo
                               ELSE IF q = r.peer THEN pi ELSE info[q]]
  BY DEF Settle
<1>2. r.peer \in Peers
  BY DEF Requests
<1> QED
  BY <1>1, <1>2 DEF Settle

\* After the resizing nothing has gone, or the bucket still has two peers.
LEMMA ResizeLeaves ==
    ASSUME NEW bs, Good(bs), Roomy(bs), NEW p \in Peers, NEW kf \in KMaps, NEW new \in resize(bs, p, kf)
    PROVE  \/ InTable(new) = InTable(bs)
           \/ /\ ~Plain
              /\ \A v : bucketForPeer(new, p).peers \ {v} # {}
<1>1. CASE Adder # "addPeerKadRTT"
  BY <1>1 DEF resize
<1>2. CASE Adder = "addPeerKadRTT"
  <2> DEFINE i == bucketIdForPeer(bs, p)
             S == bs[i].peers
             excess == Cardinality(S) - kf[i]
  <2>1. i \in 1..Len(bs)
    BY BucketId DEF Good
  <2>2. bs \in [1..Len(bs) -> Bucket] /\ Len(bs) \in 1..MaxBuckets /\ S \subseteq Peers
        /\ DOMAIN bs = 1..Len(bs)
    BY <2>1, Shape DEF Good
  <2>3. kf[i] \in Nat /\ kf[i] >= BucketSize /\ BucketSize \in Nat /\ BucketSize >= 2
    BY <2>1, <2>2, RoutingTableAssumption DEF MaxBuckets
  <2>4. PICK V \in (IF excess > 0 THEN DiscardChoices(S, excess) ELSE {{}}) :
            new = [bs EXCEPT ![i] = [peers |-> S \ V, k |-> kf[i]]]
    BY <1>2 DEF resize
  <2>5. IsFiniteSet(S) /\ Cardinality(S) \in Nat
    BY <2>1, <2>2, FS_CardinalityType DEF Roomy, RoomyBucket
  <2> HIDE DEF i, S
  <2>6. new[i].peers = S \ V
    BY <2>1, <2>2, <2>4
  <2>7. \A j \in 1..Len(bs) : j # i => new[j] = bs[j]
    BY <2>1, <2>2, <2>4
  <2>8. DOMAIN new = 1..Len(bs) /\ Len(new) = Len(bs)
    <3>1. [peers |-> S \ V, k |-> kf[i]] \in Bucket
      BY <2>2, <2>3 DEF Bucket
    <3>2. new \in [1..Len(bs) -> Bucket]
      BY <2>1, <2>2, <2>4, <3>1
    <3> QED
      BY <2>2, <3>2, Build
  <2>9. CASE ~(excess > 0)
    <3>1. V = {}
      BY <2>9
    <3>2. \A j \in 1..Len(bs) : new[j].peers = bs[j].peers
      BY <2>6, <2>7, <3>1 DEF S
    <3> QED
      BY <2>2, <2>8, <3>2 DEF InTable
  <2>10. CASE excess > 0
    <3>1. V \subseteq S /\ Cardinality(V) = excess
      BY <2>10 DEF DiscardChoices
    <3>2. IsFiniteSet(V) /\ Cardinality(S \ V) = Cardinality(S) - Cardinality(V)
      <4>1. IsFiniteSet(V)
        BY <2>5, <3>1, FS_Subset
      <4>2. S \cap V = V
        BY <3>1
      <4> QED
        BY <2>5, <4>1, <4>2, FS_Difference
    <3>3. Cardinality(S \ V) = kf[i]
      BY <2>3, <2>5, <3>1, <3>2
    <3>4. ASSUME NEW v, (S \ V) \ {v} = {} PROVE FALSE
      <4>1. S \ V = {} \/ S \ V = {v}
        BY <3>4
      <4>2. Cardinality({}) = 0 /\ Cardinality({v}) = 1
        BY FS_EmptySet, FS_Singleton
      <4>3. Cardinality(S \ V) = 0 \/ Cardinality(S \ V) = 1
        BY <4>1, <4>2
      <4>4. kf[i] >= 2
        BY <2>3
      <4> HIDE DEF excess
      <4> QED
        BY <2>3, <3>3, <4>3, <4>4
    <3>5. bucketForPeer(new, p).peers = S \ V
      BY <2>6, <2>8 DEF bucketForPeer, bucketIdForPeer, i
    <3> QED
      BY <1>2, <3>4, <3>5 DEF Plain
  <2> QED
    BY <2>9, <2>10
<1> QED
  BY <1>1, <1>2

\* A peer that finds a place, in the terms of TableOutline.
LEMMA EnterOutline ==
    ASSUME NEW p \in Peers, NEW b \in BOOLEAN, p \notin InTable(buckets),
           InTable(buckets') = InTable(buckets) \cup {p}, info'[p].replaceable = b,
           \A q \in InTable(buckets) \ {p} : info'[q] = info[q]
    PROVE  Outline!Enter(p, b)
<1>1. membership[p] = "out" /\ membership'[p] = Outline!asAsked(b)
  BY Membership DEF Outline!asAsked
<1>2. \A q \in Peers \ {p} : membership'[q] = membership[q]
  BY Membership
<1>3. membership' = [membership EXCEPT ![p] = Outline!asAsked(b)]
  BY <1>1, <1>2, Membership
<1> QED
  BY <1>1, <1>3 DEF Outline!Enter

\* What is asked of TryAddPeer when it makes room.
LEMMA RoomOutline ==
    ASSUME NEW p \in Peers, NEW b \in BOOLEAN,
           InTable(buckets') \ {p} \subseteq InTable(buckets),
           \A q \in InTable(buckets') \ {p} : info'[q] = info[q],
           \E q \in InTable(buckets') \ {p} : q \in Peers,
           ~Plain => \/ p \notin InTable(buckets')
                     \/ info'[p].replaceable \in {TRUE, b}
                     \/ p \in InTable(buckets) /\ info'[p].replaceable = info[p].replaceable,
           Plain => /\ p \notin InTable(buckets) /\ p \in InTable(buckets')
                    /\ info'[p].replaceable = b
                    /\ \E v \in InTable(buckets) : /\ v \in Peers /\ info[v].replaceable
                                                   /\ InTable(buckets) \ {v} \subseteq InTable(buckets')
    PROVE  Outline!MakeRoom(p, b)
<1>1. \A q \in Peers \ {p} : membership'[q] \in {membership[q], "out"}
  BY Membership
<1>2. \E q \in Peers \ {p} : membership'[q] # "out"
  BY Membership
<1>3. CASE ~Plain
  <2>1. membership'[p] \in {membership[p], "out", "replaceable", Outline!asAsked(b)}
    BY <1>3, Membership DEF Outline!asAsked
  <2> QED
    BY <1>1, <1>2, <1>3, <2>1, Membership DEF Outline!MakeRoom, Plain
<1>4. CASE Plain
  <2>1. membership[p] = "out" /\ membership'[p] = Outline!asAsked(b)
    BY <1>4, Membership DEF Outline!asAsked
  <2>2. PICK v \in InTable(buckets) : /\ v \in Peers /\ info[v].replaceable
                                      /\ InTable(buckets) \ {v} \subseteq InTable(buckets')
    BY <1>4
  <2>3. membership[v] = "replaceable"
    BY <2>2, Membership
  <2>4. \A q \in Peers \ {p, v} : membership'[q] = membership[q]
    BY <2>2, Membership
  <2> QED
    BY <1>1, <1>2, <1>4, <2>1, <2>2, <2>3, <2>4, Membership DEF Outline!MakeRoom, Plain
<1> QED
  BY <1>3, <1>4

\* Every outcome of TryAddPeer is one of TableOutline's.
LEMMA AddOutline ==
    ASSUME IInv, Roomy(buckets), NEW r \in Requests, NEW kf \in KMaps, NEW lat, NEW connected,
           TryAddPeer(r, kf, lat, connected)
    PROVE  Outline!TableAdd(r.peer, r.replaceable)
<1> DEFINE p == r.peer
           b == r.replaceable
<1>1. p \in Peers /\ b \in BOOLEAN
  BY DEF Requests
<1>2. PICK bs \in resize(buckets, p, kf) :
        \/ AlreadyThere(bs, r)
        \/ /\ p \notin bucketForPeer(bs, p).peers
           /\ \/ RejectHighLatency(bs, r, lat)
              \/ RejectByFilter(bs, r, connected)
              \/ AddWithSpace(bs, r)
              \/ /\ ~Fits(bucketForPeer(bs, p), bsize(bucketForPeer(bs, p)))
                 /\ FullBucket(bs, r, kf, lat)
  BY Zenon DEF TryAddPeer
<1>3. /\ Good(bs) /\ InTable(bs) \subseteq InTable(buckets)
      /\ bsize(bucketForPeer(bs, p)) \in Nat /\ bsize(bucketForPeer(bs, p)) >= 2
  BY <1>1, ResizeGood DEF IInv
<1> DEFINE T == InTable(bs)
<1>4. bucketIdForPeer(bs, p) \in DOMAIN bs /\ bucketForPeer(bs, p).peers \subseteq T /\ T \subseteq Peers
      /\ InTable(buckets) \subseteq Peers
  <2>1. bucketIdForPeer(bs, p) \in DOMAIN bs
    BY <1>1, <1>3, BucketId, Shape DEF Good
  <2>2. InTable(bs) \subseteq Peers /\ InTable(buckets) \subseteq Peers
    BY <1>3, Shape, InTableMeans DEF Good, IInv
  <2> QED
    BY <2>1, <2>2, InTableMeans DEF bucketForPeer
<1>5. \/ T = InTable(buckets)
      \/ ~Plain /\ \A v : bucketForPeer(bs, p).peers \ {v} # {}
  BY <1>1, ResizeLeaves DEF IInv
<1> HIDE DEF T, p, b
\* Nobody enters: those that are not discarded stay as they are.
<1>6. ASSUME InTable(buckets') = T, \A q \in T : info'[q].replaceable = info[q].replaceable,
             \A q \in T \ {p} : info'[q] = info[q]
      PROVE  Outline!TableAdd(p, b)
  <2>1. CASE T = InTable(buckets)
    <3>1. \A q \in Peers : membership'[q] = membership[q]
      BY <1>6, <2>1, Membership
    <3>2. membership' = membership
      BY <3>1, Membership
    <3> QED
      BY <3>2 DEF Outline!TableAdd
  <2>2. CASE ~Plain /\ \A v : bucketForPeer(bs, p).peers \ {v} # {}
    <3>1. \E q \in T \ {p} : q \in Peers
      BY <1>4, <2>2
    <3>2. Outline!MakeRoom(p, b)
      BY <1>1, <1>3, <1>6, <2>2, <3>1, RoomOutline DEF T
    <3> QED
      BY <3>2 DEF Outline!TableAdd
  <2> QED
    BY <1>5, <2>1, <2>2
\* The peer enters a bucket that is not full.
<1>7. ASSUME NEW wide, InTable(wide) = T, Good(wide), p \notin T,
             Push(wide, bucketIdForPeer(wide, p), r)
      PROVE  Outline!TableAdd(p, b)
  <2>1. InTable(buckets') = T \cup {p} /\ p \in InTable(buckets')
    BY <1>1, <1>7, PushGood DEF Push, Settle, p
  <2>2. info'[p].replaceable = b /\ \A q \in T : info'[q] = info[q]
    <3> DEFINE new == pushFront(wide, bucketIdForPeer(wide, p), p)
    <3>1. Settle(new, r, entry(r), TRUE, "nil")
      BY <1>7 DEF Push, p
    <3> HIDE DEF new
    <3>2. buckets' = new /\ (\A q \in Peers \ {p} : q \in InTable(new) => info'[q] = info[q])
          /\ (p \in InTable(new) => info'[p] = entry(r))
      BY <3>1, SettleLeaves DEF p
    <3>3. entry(r).replaceable = b
      BY DEF entry, b
    <3> QED
      BY <1>4, <1>7, <2>1, <3>2, <3>3
  <2>3. CASE T = InTable(buckets)
    <3>1. Outline!Enter(p, b)
      BY <1>1, <1>7, <2>1, <2>2, <2>3, EnterOutline
    <3> QED
      BY <3>1 DEF Outline!TableAdd
  <2>4. CASE ~Plain /\ \A v : bucketForPeer(bs, p).peers \ {v} # {}
    <3>1. \E q \in T \ {p} : q \in Peers
      BY <1>4, <2>4
    <3>2. Outline!MakeRoom(p, b)
      BY <1>1, <1>3, <1>7, <2>1, <2>2, <2>4, <3>1, RoomOutline DEF T
    <3> QED
      BY <3>2 DEF Outline!TableAdd
  <2> QED
    BY <1>5, <2>3, <2>4
\* The peer takes the place of v.
<1>8. ASSUME NEW wide, InTable(wide) = T, Good(wide), p \notin T,
             NEW v \in bucketForPeer(wide, p).peers, bucketForPeer(wide, p).peers \ {v} # {},
             info[v].replaceable, NEW pi, NEW added, NEW err,
             Settle(swapped(wide, p, v), r, pi, added, err),
             IF Plain THEN pi.replaceable = b ELSE pi.replaceable = TRUE
      PROVE  Outline!TableAdd(p, b)
  <2> DEFINE new == swapped(wide, p, v)
  <2>1. InTable(new) = (T \ {v}) \cup {p} /\ v \in T
    BY <1>1, <1>8, SwapGood
  <2>2. \E q \in T \ {v} : q # p
    <3>1. PICK q \in bucketForPeer(wide, p).peers \ {v} : TRUE
      BY <1>8
    <3>2. bucketIdForPeer(wide, p) \in DOMAIN wide
      BY <1>1, <1>8, BucketId, Shape DEF Good
    <3>3. q \in T
      BY <1>8, <3>1, <3>2, InTableMeans DEF bucketForPeer
    <3> QED
      BY <1>8, <3>1, <3>3
  <2> HIDE DEF new
  <2>3. /\ buckets' = new /\ (\A q \in Peers \ {p} : q \in InTable(new) => info'[q] = info[q])
        /\ (p \in InTable(new) => info'[p] = pi)
    <3>1. Settle(new, r, pi, added, err)
      BY <1>8 DEF new
    <3> QED
      BY <3>1, SettleLeaves DEF p
  <2>4. info'[p] = pi /\ InTable(buckets') = (T \ {v}) \cup {p}
    BY <2>1, <2>3
  <2>5. InTable(buckets') \ {p} \subseteq InTable(buckets)
        /\ \A q \in InTable(buckets') \ {p} : info'[q] = info[q]
    BY <1>3, <1>4, <2>1, <2>3, <2>4 DEF T
  <2>6. \E q \in InTable(buckets') \ {p} : q \in Peers
    BY <1>4, <2>2, <2>4
  <2>7. CASE Plain
    <3>1. T = InTable(buckets)
      BY <1>5, <2>7
    <3>2. /\ p \notin InTable(buckets) /\ p \in InTable(buckets') /\ info'[p].replaceable = b
          /\ v \in InTable(buckets) /\ v \in Peers /\ info[v].replaceable
          /\ InTable(buckets) \ {v} \subseteq InTable(buckets')
      BY <1>4, <1>8, <2>1, <2>4, <2>7, <3>1
    <3>3. Outline!MakeRoom(p, b)
      BY <1>1, <2>5, <2>6, <2>7, <3>2, RoomOutline
    <3> QED
      BY <3>3 DEF Outline!TableAdd
  <2>8. CASE ~Plain
    <3>1. info'[p].replaceable = TRUE
      BY <1>8, <2>4, <2>8
    <3>2. Outline!MakeRoom(p, b)
      BY <1>1, <2>5, <2>6, <2>8, <3>1, RoomOutline
    <3> QED
      BY <3>2 DEF Outline!TableAdd
  <2> QED
    BY <2>7, <2>8
<1>9. CASE AlreadyThere(bs, r)
  <2> DEFINE pi == [info[r.peer] EXCEPT !.useful = @ \/ r.queryPeer]
  <2>1. p \in T /\ Settle(bs, r, pi, FALSE, "nil")
    BY <1>4, <1>9 DEF AlreadyThere, p
  <2>2. pi.replaceable = info[p].replaceable
    <3>1. info[p] \in InfoType
      BY <1>1 DEF IInv, RestOK
    <3> QED
      BY <3>1 DEF InfoType, p
  <2> HIDE DEF pi
  <2>3. buckets' = bs /\ (\A q \in Peers \ {p} : q \in T => info'[q] = info[q])
        /\ (p \in T => info'[p] = pi)
    BY <2>1, SettleLeaves DEF p, T
  <2>4. InTable(buckets') = T /\ \A q \in T \ {p} : info'[q] = info[q]
    BY <1>4, <2>3 DEF T
  <2>5. \A q \in T : info'[q].replaceable = info[q].replaceable
    BY <2>1, <2>2, <2>3, <2>4
  <2>6. Outline!TableAdd(p, b)
    BY <1>6, <2>4, <2>5
  <2> QED
    BY <2>6 DEF p, b
<1>10. CASE p \notin bucketForPeer(bs, p).peers
  <2>1. p \notin T
    BY <1>3, <1>10, NotThere DEF T
  <2>2. ASSUME NEW wide, InTable(wide) = T, NEW err, Settle(wide, r, NoInfo, FALSE, err)
        PROVE  Outline!TableAdd(p, b)
    <3>1. buckets' = wide /\ \A q \in Peers \ {p} : q \in InTable(wide) => info'[q] = info[q]
      BY <2>2, SettleLeaves DEF p
    <3>2. InTable(buckets') = T /\ \A q \in T : info'[q] = info[q]
      BY <1>4, <2>1, <2>2, <3>1
    <3> QED
      BY <1>6, <3>2
  <2>3. CASE RejectHighLatency(bs, r, lat)
    BY <2>2, <2>3 DEF RejectHighLatency, T, p, b
  <2>4. CASE RejectByFilter(bs, r, connected)
    BY <2>2, <2>4 DEF RejectByFilter, T, p, b
  <2>5. CASE AddWithSpace(bs, r)
    <3>1. Push(bs, bucketIdForPeer(bs, r.peer), r)
      BY <2>5 DEF AddWithSpace
    <3>2. Outline!TableAdd(p, b)
      BY <1>3, <1>7, <2>1, <3>1 DEF T, p
    <3> QED
      BY <3>2 DEF p, b
  <2>6. CASE ~Fits(bucketForPeer(bs, p), bsize(bucketForPeer(bs, p))) /\ FullBucket(bs, r, kf, lat)
    <3> DEFINE wide == unfold(bs, p, kf)
    <3>1. /\ Good(wide) /\ InTable(wide) = T
          /\ \/ IsLastBucket(bs, p) /\ Fits(bucketForPeer(wide, p), blen(bucketForPeer(wide, p)))
             \/ \A v : bucketForPeer(wide, p).peers \ {v} # {}
      BY <1>1, <1>3, <2>6, WideGood DEF T, p
    <3>2. \/ AddUnfolded(bs, wide, r)
          \/ /\ ~(/\ IsLastBucket(bs, p)
                  /\ Fits(bucketForPeer(wide, p), blen(bucketForPeer(wide, p))))
             /\ \/ ReplacePeer(wide, r)
                \/ ExchangePeer(wide, r, lat)
                \/ RejectNoCapacity(wide, r, lat)
      BY <2>6, Zenon DEF FullBucket, p
    <3> HIDE DEF wide
    <3>3. CASE AddUnfolded(bs, wide, r)
      <4>1. Push(wide, bucketIdForPeer(wide, p), r)
        BY <3>3 DEF AddUnfolded, p
      <4> QED
        BY <1>7, <2>1, <3>1, <4>1 DEF p, b
    <3>4. CASE ReplacePeer(wide, r) /\ \A w : bucketForPeer(wide, p).peers \ {w} # {}
      <4>1. PICK v \in bucketForPeer(wide, p).peers :
              info[v].replaceable /\ Settle(swapped(wide, p, v), r, entry(r), TRUE, "nil")
        BY <3>4, Zenon DEF ReplacePeer, p
      <4>2. Plain /\ entry(r).replaceable = b
        BY <3>4 DEF ReplacePeer, Plain, entry, b
      <4>3. bucketForPeer(wide, p).peers \ {v} # {}
        BY <3>4
      <4>4. IF Plain THEN entry(r).replaceable = b ELSE entry(r).replaceable = TRUE
        BY <4>2
      <4>5. Outline!TableAdd(p, b)
        BY <1>8, <2>1, <3>1, <4>1, <4>3, <4>4
      <4> QED
        BY <4>5 DEF p, b
    <3>5. CASE ExchangePeer(wide, r, lat) /\ \A w : bucketForPeer(wide, p).peers \ {w} # {}
      <4> DEFINE pi == [rtt |-> r.rtt, replaceable |-> TRUE, useful |-> TRUE]
      <4>1. PICK v \in victims(wide, r, lat) :
              info[v].replaceable /\ Settle(swapped(wide, p, v), r, pi, FALSE, "no capacity")
        BY <3>5, Zenon DEF ExchangePeer, p
      <4>2. v \in bucketForPeer(wide, p).peers
        BY <4>1, Zenon DEF victims, ExchangeVictim, Neighboured, p
      <4>3. ~Plain /\ pi.replaceable = TRUE
        BY <3>5 DEF ExchangePeer, Plain
      <4> HIDE DEF pi
      <4>4. bucketForPeer(wide, p).peers \ {v} # {}
        BY <3>5
      <4>5. IF Plain THEN pi.replaceable = b ELSE pi.replaceable = TRUE
        BY <4>3
      <4>6. Outline!TableAdd(p, b)
        BY <1>8, <2>1, <3>1, <4>1, <4>2, <4>4, <4>5
      <4> QED
        BY <4>6 DEF p, b
    <3>6. CASE RejectNoCapacity(wide, r, lat)
      <4>1. Settle(wide, r, NoInfo, FALSE, "no capacity")
        BY <3>6 DEF RejectNoCapacity
      <4> QED
        BY <2>2, <3>1, <4>1 DEF p, b
    <3> QED
      BY <3>1, <3>2, <3>3, <3>4, <3>5, <3>6
  <2> QED
    BY <1>2, <1>9, <1>10, <2>3, <2>4, <2>5, <2>6
<1> QED
  BY <1>2, <1>9, <1>10

\* Every step of the table is one of TableOutline, or changes nothing there.
LEMMA OutlineStep ==
    ASSUME IInv, Roomy(buckets), [Next]_vars
    PROVE  [Outline!TableNext]_<<Adder = "addPeerKadRTT", membership>>
<1>1. CASE \E r \in Requests, kf \in KMaps, lat \in LatencyMaps, connected \in Connected :
                TryAddPeer(r, kf, lat, connected)
  <2>1. PICK r \in Requests, kf \in KMaps, lat \in LatencyMaps, connected \in Connected :
                TryAddPeer(r, kf, lat, connected)
    BY <1>1
  <2>2. Outline!TableAdd(r.peer, r.replaceable) /\ r.peer \in Peers /\ r.replaceable \in BOOLEAN
    BY <2>1, AddOutline DEF Requests
  <2> QED
    BY <2>2, Zenon DEF Outline!TableNext
<1>2. CASE \E p \in Peers : RemovePeer(p)
  <2>1. PICK p \in Peers : RemovePeer(p)
    BY <1>2
  <2>2. InTable(buckets') = InTable(buckets) \ {p}
    BY <2>1, RemoveOutcome
  <2>3. \A q \in Peers \ {p} : info'[q] = info[q]
    BY <2>1 DEF RemovePeer, IInv, RestOK
  <2>4. membership'[p] = "out" /\ \A q \in Peers \ {p} : membership'[q] = membership[q]
    BY <2>2, <2>3, Membership
  <2>5. membership' = [membership EXCEPT ![p] = "out"]
    BY <2>4, Membership
  <2> QED
    BY <2>5 DEF Outline!TableNext, Outline!TableRemove
<1>3. CASE MarkAllPeersIrreplaceable
  <2>1. \A q \in Peers : ~info'[q].replaceable
    BY <1>3 DEF MarkAllPeersIrreplaceable, IInv, RestOK, InfoType
  <2>2. membership' = [q \in Peers |-> IF membership[q] = "out" THEN "out" ELSE "kept"]
    BY <1>3, <2>1, Membership DEF MarkAllPeersIrreplaceable
  <2> QED
    BY <2>2 DEF Outline!TableNext, Outline!TableFreeze
<1>4. CASE \E p \in Peers : UpdateLastUsefulAt(p)
  <2>1. PICK p \in Peers : UpdateLastUsefulAt(p)
    BY <1>4
  <2>2. info \in [Peers -> InfoType] /\ info[p] \in InfoType
    BY DEF IInv, RestOK
  <2>3. info' = [info EXCEPT ![p] = [info[p] EXCEPT !.useful = TRUE]] /\ buckets' = buckets
    BY <2>1 DEF UpdateLastUsefulAt
  <2>4. [info[p] EXCEPT !.useful = TRUE].replaceable = info[p].replaceable
    BY <2>2 DEF InfoType
  <2>5. \A q \in Peers : info'[q].replaceable = info[q].replaceable
    BY <2>2, <2>3, <2>4
  <2>6. \A q \in Peers : membership'[q] = membership[q]
    BY <2>3, <2>5, Membership
  <2>7. membership' = membership
    BY <2>6, Membership
  <2> QED
    BY <2>7
<1>5. CASE UNCHANGED vars
  BY <1>5 DEF vars, membership
<1> QED
  BY <1>1, <1>2, <1>3, <1>4, <1>5 DEF Next

\* In all variants of TryAddPeer, for any IDs, capacities and filter, addPeer,
\* addPeerKadRTT, RemovePeer and MarkAllPeersIrreplaceable keep the promises that the
\* goroutines of RtPeerLoop are built on.
THEOREM TableImplements == Spec => ImplementsOutline
<1>1. Init => Outline!TableInit
  BY InitGood, Membership DEF Outline!TableInit, membership
<1>2. IInv /\ Roomy(buckets) /\ [Next]_vars
        => [Outline!TableNext]_<<Adder = "addPeerKadRTT", membership>>
  BY OutlineStep
<1> QED
  BY <1>1, <1>2, Inductive, AlwaysRoomy, PTL DEF Spec, ImplementsOutline, Outline!TableSpec
=============================================================================
