---------------------------- MODULE TableOutline ----------------------------
(***************************************************************************)
(* What the goroutines that use the routing table rely on: which peers are *)
(* in it and whether each of them may be replaced.  An addition may be     *)
(* refused or put other peers out, as the variant of TryAddPeer allows.    *)
(* RtPeerLoop is built from these operations, and RoutingTable implements  *)
(* them.                                                                   *)
(***************************************************************************)
CONSTANT Peers

VARIABLES
    isKadRTT,   \* the additions are those of addPeerKadRTT
    tab         \* tab[p]: "out", "replaceable" or "kept"

\* The entry of a new peer.
asAsked(isReplaceable) == IF isReplaceable THEN "replaceable" ELSE "kept"

\* p finds a place.
Enter(p, isReplaceable) ==
    /\ tab[p] = "out"
    /\ tab' = [tab EXCEPT ![p] = asAsked(isReplaceable)]

\* The bucket has too many peers: some go, but one more peer than p stays.  Without
\* KadRTT one replaceable peer makes place for p.  KadRTT may discard several, the
\* irreplaceable ones and p itself included, for a peer it then refuses, and enters a
\* peer that it exchanges as replaceable, whatever it was asked.
MakeRoom(p, isReplaceable) ==
    /\ tab' \in [Peers -> {"out", "replaceable", "kept"}]
    /\ \A q \in Peers \ {p} : tab'[q] \in {tab[q], "out"}
    /\ \E q \in Peers \ {p} : tab'[q] # "out"
    /\ IF isKadRTT
       THEN tab'[p] \in {tab[p], "out", "replaceable", asAsked(isReplaceable)}
       ELSE /\ tab[p] = "out" /\ tab'[p] = asAsked(isReplaceable)
            /\ \E v \in Peers : /\ tab[v] = "replaceable"
                                /\ \A q \in Peers \ {p, v} : tab'[q] = tab[q]

TableAdd(p, isReplaceable) ==
    \/ UNCHANGED tab
    \/ Enter(p, isReplaceable)
    \/ MakeRoom(p, isReplaceable)

TableRemove(p) == tab' = [tab EXCEPT ![p] = "out"]

TableFreeze == tab' = [p \in Peers |-> IF tab[p] = "out" THEN "out" ELSE "kept"]
-----------------------------------------------------------------------------
TableInit == tab = [p \in Peers |-> "out"]

TableNext ==
    /\ UNCHANGED isKadRTT
    /\ \/ \E p \in Peers, isReplaceable \in BOOLEAN : TableAdd(p, isReplaceable)
       \/ \E p \in Peers : TableRemove(p)
       \/ TableFreeze

TableSpec == TableInit /\ [][TableNext]_<<isKadRTT, tab>>
=============================================================================
