------------------------------ MODULE MCLookup ------------------------------
(* Small instances of Lookup: three peers at distances 1, 2, 3; the nearest  *)
(* one is known only to the others, so that a lookup seeded without it has   *)
(* to iterate.                                                               *)
EXTENDS Lookup, TLC

CONSTANTS p1, p2, p3

MCPeers == {p1, p2, p3}
MCDist == (p1 :> 1) @@ (p2 :> 2) @@ (p3 :> 3)
MCReplies == (p1 :> {{p2}}) @@ (p2 :> {{}, {p1, p3}}) @@ (p3 :> {{p1}, {p1, p2}})
=============================================================================
