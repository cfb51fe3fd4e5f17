------------------------------ MODULE Keyspace ------------------------------
(***************************************************************************)
(* The XOR key space (go-libp2p-kbucket/util.go, keyspace/xor.go).  An ID  *)
(* is a sequence of bits, most significant first; the SHA-256 hashing of   *)
(* names into IDs is left out: an ID is given for every peer.              *)
(***************************************************************************)
EXTENDS Integers, Sequences, FiniteSets, FiniteSetsExt

IDs(width) == [1..width -> {0, 1}]

\* How many leading bits two IDs share: ZeroPrefixLen of their XOR.
CommonPrefixLen(a, b) ==
    Cardinality({n \in DOMAIN a : \A i \in 1..n : a[i] = b[i]})

\* An ID read as an integer, as bytes.Compare and big.Int read it.
KeyValue(a) ==
    LET value[n \in 0..Len(a)] == IF n = 0 THEN 0 ELSE 2 * value[n - 1] + a[n]
    IN  value[Len(a)]

\* The XOR of two IDs read as an integer.
Distance(a, b) == KeyValue([i \in DOMAIN a |-> IF a[i] = b[i] THEN 0 ELSE 1])

\* What the bit that n others follow is worth.
weight[n \in Nat] == IF n = 0 THEN 1 ELSE 2 * weight[n - 1]

\* Whether a is closer to a key than b: the XORs with it are compared from the
\* most significant bit on.
Closer(a, b, key) ==
    \E i \in DOMAIN key :
        /\ \A j \in 1..(i - 1) : a[j] = b[j]
        /\ a[i] = key[i] /\ b[i] # key[i]
=============================================================================
