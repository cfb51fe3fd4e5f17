---------------------------- MODULE TableRefresh ----------------------------
(***************************************************************************)
(* How the table says what a refresh has to look for (table_refresh.go):   *)
(* the common prefix lengths it tracks, and for each of them a random peer *)
(* ID to look up.  GenRandPeerID cannot choose an ID, which is a hash, but *)
(* takes from keyPrefixMap, a generated table, a key whose hash begins     *)
(* with the bits it wants (generate/main.go).  A prefix is the integer     *)
(* that its bits make.                                                     *)
(***************************************************************************)
EXTENDS NearestPeers

CONSTANTS
    PrefixBits,     \* the bits of a prefix that has a key: 16 in the code
    LastKey,        \* bound: the keys are 0..LastKey
    KeyHash         \* KeyHash[key]: the ID that a key is hashed to

Prefixes == 0..(weight[PrefixBits] - 1)
Keys == 0..LastKey

\* The first bits of an ID.
Prefix(id) == KeyValue(SubSeq(id, 1, PrefixBits))

\* The generator ends when it has found a key for every prefix.
ASSUME RefreshAssumption ==
    /\ PrefixBits \in 1..Width
    /\ LastKey \in Nat /\ KeyHash \in [Keys -> IDs(Width)]
    /\ \A x \in Prefixes : \E key \in Keys : Prefix(KeyHash[key]) = x

maxCplForRefresh == PrefixBits - 1

\* The generator tries the keys in order and keeps the first one for each prefix.
firstKey(x) == Min({key \in Keys : Prefix(KeyHash[key]) = x})

keyPrefixMap == [x \in Prefixes |-> firstKey(x)]

\* Mutant: the last bucket is read even if it is empty.
maxCommonPrefixOfLast(bs) == Max({0} \cup {Cpl(p) : p \in bs[Len(bs)].peers})

\* maxCommonPrefix reads the last bucket that has a peer.
maxCommonPrefix(bs) ==
    LET last == Max({1} \cup {i \in DOMAIN bs : bs[i].peers # {}})
    IN  Max({0} \cup {Cpl(p) : p \in bs[last].peers})

\* The cpls of GetTrackedCplsForRefresh.
trackedCpls(bs) == 0..Min({maxCommonPrefix(bs), maxCplForRefresh})

\* The weight of the last bit that mask keeps, which is the one that is toggled.
keptBits(cpl) == weight[PrefixBits - (cpl + 1)]

\* The bit of the local prefix that follows its first cpl bits is toggled.
toggledLocalPrefix(cpl) ==
    LET bit == weight[PrefixBits - 1 - cpl]
    IN  IF (Prefix(Local) \div bit) % 2 = 0 THEN Prefix(Local) + bit ELSE Prefix(Local) - bit

\* GenRandPeerID, given the random bits it draws: the ID of the key it returns.
GenRandPeerID(cpl, randPrefix) ==
    LET low == keptBits(cpl)
        targetPrefix == (toggledLocalPrefix(cpl) \div low) * low + (randPrefix % low)
    IN  KeyHash[keyPrefixMap[targetPrefix]]
-----------------------------------------------------------------------------
\* A refresh reaches every bucket that it can: the cpl of each peer of the table is
\* tracked, unless no prefix is long enough for it, although maxCommonPrefix reads one
\* bucket only; and the ID generated for a tracked cpl has exactly that cpl, so that its
\* lookup ends in that bucket, whatever the random bits.
RefreshHitsBucket ==
    /\ \A p \in InTable(buckets) : Cpl(p) <= maxCplForRefresh => Cpl(p) \in trackedCpls(buckets)
    /\ \A cpl \in trackedCpls(buckets), randPrefix \in Prefixes :
          CommonPrefixLen(GenRandPeerID(cpl, randPrefix), Local) = cpl
=============================================================================
