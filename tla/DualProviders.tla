--------------------------- MODULE DualProviders ---------------------------
(***************************************************************************)
(* FindProvidersAsync of the dual DHT (go-libp2p-kad-dht/dual/dual.go): a  *)
(* goroutine merges the channels of the searches of the WAN and of the LAN *)
(* DHT into one.  Both searches are known by their promise, ProviderStream *)
(* (which ProviderSearch keeps), and so is the merged one to its caller.   *)
(* Query events, which the goroutine passes on, are left out.              *)
(***************************************************************************)
EXTENDS ProviderCall, Sequences

ASSUME DualAssumption == ContextsEnd \in BOOLEAN

Parts == {"wan", "lan"}

VARIABLES
    wanSent, wanClosed,     \* wanCh, as its sender sees it
    lanSent, lanClosed,     \* lanCh
    read,                   \* read[d]: how much of the channel of d has been received
    open,                   \* the parts whose channel has not been set to nil
    pi,                     \* the provider that is being sent to outCh
    out,                    \* what has been sent to outCh
    merge                   \* where the goroutine is

wanVars == <<wanSent, wanClosed>>
lanVars == <<lanSent, lanClosed>>
mergeVars == <<read, open, pi, out, merge>>
provVars == <<count, wanVars, lanVars, mergeVars>>

WAN == INSTANCE ProviderStream WITH sent <- wanSent, closed <- wanClosed
LAN == INSTANCE ProviderStream WITH sent <- lanSent, closed <- lanClosed

SentBy(d) == IF d = "wan" THEN wanSent ELSE lanSent
ClosedBy(d) == IF d = "wan" THEN wanClosed ELSE lanClosed
Elems(s) == {s[i] : i \in DOMAIN s}
found == Elems(out)

MergeInit ==
    /\ ctxDone = FALSE
    /\ WAN!Init /\ LAN!Init
    /\ read = [d \in Parts |-> 0] /\ open = Parts
    /\ pi = NoProv /\ out = << >> /\ merge = "select"
-----------------------------------------------------------------------------
(* The two searches.  Their channels have the size FindProvidersAsync gives *)
(* them.                                                                    *)

HasRoom(d) == Len(SentBy(d)) - read[d] < chSize

WanSends ==
    /\ HasRoom("wan") /\ \E v \in Provs : WAN!Send(v)
    /\ UNCHANGED <<ctxDone, lanVars, mergeVars>>
LanSends ==
    /\ HasRoom("lan") /\ \E v \in Provs : LAN!Send(v)
    /\ UNCHANGED <<ctxDone, wanVars, mergeVars>>
WanCloses == WAN!Close /\ UNCHANGED <<ctxDone, lanVars, mergeVars>>
LanCloses == LAN!Close /\ UNCHANGED <<ctxDone, wanVars, mergeVars>>
-----------------------------------------------------------------------------
(* The goroutine.                                                           *)

GoesOn == (count = 0 \/ Len(out) < count) /\ open # {}

\* Mutant: whether the provider has been found is not looked at.
ReceiveAny(d) ==
    /\ merge = "select" /\ GoesOn /\ d \in open
    /\ read[d] < Len(SentBy(d))
    /\ read' = [read EXCEPT ![d] = @ + 1]
    /\ pi' = SentBy(d)[read'[d]] /\ merge' = "send"
    /\ UNCHANGED <<ctxDone, count, wanVars, lanVars, open, out>>

\* A provider that was found already is passed over.
Receive(d) ==
    /\ merge = "select" /\ GoesOn /\ d \in open
    /\ read[d] < Len(SentBy(d))
    /\ read' = [read EXCEPT ![d] = @ + 1]
    /\ LET v == SentBy(d)[read'[d]] IN
       IF v \in found THEN UNCHANGED <<pi, merge>> ELSE pi' = v /\ merge' = "send"
    /\ UNCHANGED <<ctxDone, count, wanVars, lanVars, open, out>>

\* Mutant: the end of one channel is taken for the end of both.
ReceiveClosedBoth(d) ==
    /\ merge = "select" /\ GoesOn /\ d \in open
    /\ read[d] = Len(SentBy(d)) /\ ClosedBy(d)
    /\ open' = {}
    /\ UNCHANGED <<ctxDone, count, wanVars, lanVars, read, pi, out, merge>>

\* Mutant: a closed channel is not set to nil, and is received from for ever.
ReceiveClosedOn(d) ==
    /\ merge = "select" /\ GoesOn /\ d \in open
    /\ read[d] = Len(SentBy(d)) /\ ClosedBy(d)
    /\ UNCHANGED <<ctxDone, provVars>>

\* The channel is closed and empty.
ReceiveClosed(d) ==
    /\ merge = "select" /\ GoesOn /\ d \in open
    /\ read[d] = Len(SentBy(d)) /\ ClosedBy(d)
    /\ open' = open \ {d}
    /\ UNCHANGED <<ctxDone, count, wanVars, lanVars, read, pi, out, merge>>

\* The caller takes the provider from outCh.
Deliver ==
    /\ merge = "send"
    /\ out' = Append(out, pi)
    /\ pi' = NoProv /\ merge' = "select"
    /\ UNCHANGED <<ctxDone, count, wanVars, lanVars, read, open>>

DeliverCancelled ==
    /\ merge = "send" /\ ctxDone
    /\ pi' = NoProv /\ merge' = "ended"
    /\ UNCHANGED <<ctxDone, count, wanVars, lanVars, read, open, out>>

\* outCh is closed and the context of both searches ends.
MergeEnds ==
    /\ merge = "select" /\ ~GoesOn
    /\ merge' = "ended"
    /\ UNCHANGED <<ctxDone, count, wanVars, lanVars, read, open, pi, out>>

MergeStep ==
    \/ \E d \in Parts : Receive(d) \/ ReceiveClosed(d)
    \/ DeliverCancelled \/ MergeEnds

MergeNext == MergeStep \/ Deliver \/ WanSends \/ LanSends \/ WanCloses \/ LanCloses

\* A search closes its channel at last, unless it waits for room in it: as
\* ProviderSearch!ProviderSearchEnds says.
EndsAtLast(d) == count > 0 \/ ctxDone \/ merge = "ended" \/ HasRoom(d)
-----------------------------------------------------------------------------
Merged == INSTANCE ProviderStream WITH sent <- out, closed <- (merge = "ended")

(* The caller of the dual DHT gets distinct providers, at most count of     *)
(* them, although both searches may find the same ones, and outCh is closed *)
(* after the last of them: what ProviderStream promises.                    *)
MergeKeepsPromise == Merged!Spec

(* A merged search that was not cancelled has passed on count providers, or *)
(* all that the two searches have found.                                    *)
NothingHeldBack ==
    merge = "ended" /\ ~ctxDone =>
        \/ count > 0 /\ Len(out) = count
        \/ wanClosed /\ lanClosed /\ found = Elems(wanSent) \cup Elems(lanSent)
=============================================================================
