-------------------------------- MODULE Dual --------------------------------
(***************************************************************************)
(* One call on the dual DHT (go-libp2p-kad-dht/dual/dual.go), which keeps  *)
(* a DHT for the global internet, WAN, and one for the local network, LAN: *)
(*    FindProvidersAsync   see DualProviders                               *)
(*    FindPeer             asks both at a time and combines their answers  *)
(*    GetValue             asks both at a time, prefers the WAN, and       *)
(*                         cancels the LAN when the WAN has answered       *)
(*    GetPublicKey         asks both at a time for the first key           *)
(*    Provide, PutValue    go to the WAN if it has peers, else to the LAN  *)
(*    Bootstrap, Close     go to one after the other                       *)
(* What a part does for its call is in Calls.                              *)
(***************************************************************************)
EXTENDS DualProviders, Calls

ASSUME DualParts == Dhts = Parts

VARIABLES
    wanActive,      \* the routing table of the WAN is not empty
    ret             \* what the call returned

dualVars == <<ctxDone, provVars, callVars, wanActive, ret>>

Parallel == {"FindPeer", "GetValue", "GetPublicKey"}
Forwarded == {"Provide", "PutValue"}
InTurn == {"Bootstrap", "Close"}
NoReturn == [err |-> "none", from |-> {}]

\* What a call does not look at has one value.
Relevant ==
    /\ call # "FindProvidersAsync" => count = 0
    /\ call # "Provide" => ~announce /\ ~deadline
    /\ call \notin {"FindPeer", "GetPublicKey"} => \A d \in Parts : ~local[d]
    /\ call # "GetPublicKey" => \A d \in Parts : "node" \notin knows[d]
    /\ call \in Forwarded \cup {"FindProvidersAsync"} => \A d \in Parts : knows[d] = {}
    /\ call \notin Forwarded => wanActive

DualInit ==
    /\ MergeInit /\ CallsInit
    /\ wanActive \in BOOLEAN
    /\ Relevant
    /\ part = [d \in Parts |-> IF call \in Parallel THEN "running" ELSE "idle"]
    /\ ret = NoReturn
-----------------------------------------------------------------------------
Answered == {d \in Parts : part[d] = nil}

\* The calls that are not made at once.
CallPart(d) ==
    /\ part[d] = "idle"
    /\ \/ call \in Forwarded /\ d = (IF wanActive THEN "wan" ELSE "lan")
       \/ call \in InTurn /\ (d = "lan" => Returned("wan"))
    /\ PartAt(d, "running")
    /\ UNCHANGED <<ctxDone, provVars, inputVars, ctxVars, sendVars, key, wanActive, ret>>

\* Mutant: the LAN is cancelled whatever the WAN has answered.
CancelLanAlways ==
    /\ call = "GetValue" /\ Returned("wan") /\ ~cancelled["lan"]
    /\ cancelled' = [cancelled EXCEPT !["lan"] = TRUE]
    /\ UNCHANGED <<ctxDone, provVars, inputVars, ctxErr, innerDone, part, sendVars, key, wanActive, ret>>

\* The WAN has a value: that of the LAN is no longer needed.
CancelLan ==
    /\ call = "GetValue" /\ part["wan"] = nil /\ ~cancelled["lan"]
    /\ cancelled' = [cancelled EXCEPT !["lan"] = TRUE]
    /\ UNCHANGED <<ctxDone, provVars, inputVars, ctxErr, innerDone, part, sendVars, key, wanActive, ret>>
-----------------------------------------------------------------------------
(* The returns.                                                             *)

combineErrors(a, b) ==
    IF a = b THEN a
    ELSE IF a = "ErrLookupFailure" THEN b
    ELSE IF b = "ErrLookupFailure" THEN a
    ELSE "multierror"

bothErrors == combineErrors(part["wan"], part["lan"])

Return(e, from) ==
    /\ ret = NoReturn
    /\ ret' = [err |-> e, from |-> from]
    /\ UNCHANGED <<ctxDone, provVars, callVars, wanActive>>

FindPeer ==
    /\ call = "FindPeer" /\ \A d \in Parts : Returned(d)
    /\ Return(IF Answered # {} THEN nil ELSE bothErrors, Answered)

GetValue ==
    /\ call = "GetValue" /\ \A d \in Parts : Returned(d)
    /\ part["wan"] = nil => cancelled["lan"]
    /\ IF Answered = {} THEN Return(bothErrors, {})
       ELSE Return(nil, IF "wan" \in Answered THEN {"wan"} ELSE {"lan"})

\* helper.Parallel returns the first key or when the context ends.  Nobody looks
\* at what still runs.
GetPublicKey ==
    /\ call = "GetPublicKey"
    /\ \/ \E d \in Answered : Return(nil, {d})
       \/ (\A d \in Parts : Returned(d)) /\ Answered = {} /\ Return(bothErrors, {})
       \/ ctxErr # nil /\ Return(ctxErr, {})

\* Provide and PutValue.
Forward ==
    /\ call \in Forwarded
    /\ \E d \in Parts : Returned(d) /\ Return(part[d], Answered)

\* Bootstrap and Close.
BothInTurn ==
    /\ call \in InTurn /\ Returned("lan")
    /\ Return(bothErrors, Answered)
-----------------------------------------------------------------------------
ProvidersNext ==
    /\ call = "FindProvidersAsync"
    /\ MergeNext
    /\ UNCHANGED <<callVars, wanActive, ret>>

PartNext(d) ==
    \/ CallPart(d)
    \/ PartStep(d) /\ UNCHANGED <<ctxDone, provVars, wanActive, ret>>

CallStep == CancelLan \/ FindPeer \/ GetValue \/ GetPublicKey \/ Forward \/ BothInTurn

\* The context of the caller ends: at its deadline, which is later than that
\* of the lookup in Provide, or because it is cancelled.
CancelCall(e) ==
    /\ ContextsEnd /\ ~ctxDone /\ ret = NoReturn /\ merge # "ended"
    /\ e = "DeadlineExceeded" => deadline /\ innerDone
    /\ ctxDone' = TRUE /\ ctxErr' = e
    /\ UNCHANGED <<provVars, inputVars, innerDone, cancelled, part, sendVars, key, wanActive, ret>>

TimeOut == InnerDeadline /\ UNCHANGED <<ctxDone, provVars, wanActive, ret>>

Over ==
    \/ ret # NoReturn /\ \A d \in Parts : part[d] = "idle" \/ Returned(d)
    \/ merge = "ended" /\ wanClosed /\ lanClosed

DualNext ==
    \/ ProvidersNext \/ CallStep \/ \E d \in Parts : PartNext(d)
    \/ TimeOut \/ \E e \in {"Canceled", "DeadlineExceeded"} : CancelCall(e)
    \/ Over /\ UNCHANGED dualVars

DualSpec == DualInit /\ [][DualNext]_dualVars

\* The goroutines run, and lookups, searches and messages end, as Lookup, ValueSearch,
\* ProviderSearch and MessageSender say of them.  The caller need not read outCh, and its
\* context need not end.
DualFairness ==
    /\ WF_dualVars(ProvidersNext /\ MergeStep)
    /\ WF_dualVars(ProvidersNext /\ EndsAtLast("wan") /\ WanCloses)
    /\ WF_dualVars(ProvidersNext /\ EndsAtLast("lan") /\ LanCloses)
    /\ WF_dualVars(CallStep) /\ \A d \in Parts : WF_dualVars(PartNext(d))
DualFairSpec == DualSpec /\ DualFairness
-----------------------------------------------------------------------------
(* What one of the parts has is not lost on the way: unless the caller      *)
(* cancels, FindPeer returns what either of them has, GetValue the value of *)
(* the WAN or else that of the LAN, although the LAN is cancelled while it  *)
(* is asked, and GetPublicKey a key if any of the four sources has one.     *)
AnswerNotLost ==
    ret # NoReturn /\ ~ctxDone =>
        /\ call = "FindPeer" => ret.from = {d \in Parts : Has(d)}
        /\ call = "GetValue" => ret.from = IF Has("wan") THEN {"wan"} ELSE {d \in {"lan"} : Has(d)}
        /\ call = "GetPublicKey" => (ret.from # {} <=> \E d \in Parts : Has(d))
        /\ call \in Parallel => (ret.err = nil <=> ret.from # {})

(* When Provide or PutValue has returned nothing is being sent any more,    *)
(* and the peers its lookup has found, all of them if there is no error,    *)
(* have been sent to: even if Provide has returned that the deadline of the *)
(* lookup was exceeded, as long as the caller's own context is good.        *)
AnnouncedToAll ==
    ret # NoReturn /\ call \in Forwarded =>
        LET d == IF wanActive THEN "wan" ELSE "lan" IN
        /\ todo[d] = {}
        /\ ret.err = nil /\ (call = "Provide" => announce) /\ ~ctxDone => closest[d] = Targets
        /\ ret.err = "DeadlineExceeded" /\ ~ctxDone => exceeded[d]

(* Every call on the dual DHT ends, and so do the searches it began, unless *)
(* the caller neither takes a provider from outCh nor ends its context.     *)
DualEnds == <>[](Over \/ (merge = "send" /\ ~ctxDone))
=============================================================================
