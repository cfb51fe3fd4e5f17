-------------------------------- MODULE Node --------------------------------
(***************************************************************************)
(* What the parts of a node (IpfsDHT in go-libp2p-kad-dht/dht.go) have in  *)
(* common: who it is, whom it may hear of, and how many peers it answers   *)
(* with or ends a lookup with.                                             *)
(***************************************************************************)
CONSTANTS
    Self,               \* dht.self, no member of Peers
    Peers,              \* the other peers
    bucketSize          \* dht.bucketSize
=============================================================================
