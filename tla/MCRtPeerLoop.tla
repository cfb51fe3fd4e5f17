---------------------------- MODULE MCRtPeerLoop ----------------------------
(* One peer of cpl 1, so that cpl 0 is a gap.  It is found by the lookups   *)
(* and by fixLowPeers without KadRTT, and by the notifee with KadRTT.       *)
EXTENDS RtPeerLoop, TLC

CONSTANTS p1, u1

MCCpl == [p \in Peers |-> 1]
FoundBy(S) == [s \in Finders |-> IF s \in S THEN Peers ELSE {}]
MCFinds == FALSE :> FoundBy({"lookup", "fix"}) @@ TRUE :> FoundBy({"event"})
=============================================================================
