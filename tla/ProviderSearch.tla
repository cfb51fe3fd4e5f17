--------------------------- MODULE ProviderSearch ---------------------------
(***************************************************************************)
(* One FindProvidersAsync (go-libp2p-kad-dht/routing.go): the providers    *)
(* this node knows, then those the peers of a lookup answer with, are sent *)
(* to the caller through peerOut, each of them once and at most count of   *)
(* them.  The queries share ps, the set of the providers found, and look   *)
(* at the context of their path while they wait for room in peerOut.       *)
(*                                                                         *)
(* The lookup is that of LookupOutline.  The order of the providers in an  *)
(* answer is any order.  Addresses and query events are left out.          *)
(***************************************************************************)
EXTENDS ProviderCall, LookupOutline, Sequences

ASSUME ProviderSearchAssumption == Self \notin Peers

\* Those who find providers: Self stands for the ones known without a query.
Askers == Peers \cup {Self}

VARIABLES
    provides,       \* provides[w]: the providers w answers with
    ps,             \* the providers found
    rest,           \* rest[w]: the providers of w's answer that have still to be looked at
    pend,           \* pend[w]: the provider that w waits to send
    sent,           \* what has been sent to peerOut
    taken,          \* how many of them the caller has read
    main            \* where findProvidersAsyncRoutine is

inputs == <<count, provides>>
loopVars == <<ps, rest, pend>>
outVars == <<sent, taken>>
vars == <<inputs, ctxDone, loopVars, outVars, main, lookupVars>>

Sent == {sent[i] : i \in DOMAIN sent}
closed == main = "ended"

Enough == count > 0 /\ Cardinality(ps) >= count
-----------------------------------------------------------------------------
Init ==
    /\ count \in Counts /\ provides \in [Askers -> SUBSET Provs]
    /\ ctxDone = FALSE
    /\ ps = {} /\ sent = << >> /\ taken = 0
    /\ rest = [w \in Askers |-> IF w = Self THEN provides[Self] ELSE {}]
    /\ pend = [w \in Askers |-> NoProv]
    /\ main = "local"
    /\ lookup = "idle" /\ work = NothingAsked /\ result = {}
-----------------------------------------------------------------------------
(* The loops over providers, that of findProvidersAsyncRoutine itself over  *)
(* the local ones and that of every query over those of its answer.         *)

InLoop(w) == IF w = Self THEN main = "local" ELSE work[w] = "send"

\* Mutant: the loop ends with its first provider.
AdvanceOut(w, v) == rest' = [rest EXCEPT ![w] = {}]

\* The next provider, unless there are enough now.
Advance(w, v) == rest' = [rest EXCEPT ![w] = IF Enough THEN {} ELSE @ \ {v}]

\* Mutant: whether the provider is known is not looked at.
TryAddAgain(w, v) ==
    /\ InLoop(w) /\ pend[w] = NoProv /\ v \in rest[w]
    /\ IF Enough
       THEN Advance(w, v) /\ UNCHANGED <<ps, pend>>
       ELSE ps' = ps \cup {v} /\ pend' = [pend EXCEPT ![w] = v] /\ UNCHANGED rest
    /\ UNCHANGED <<inputs, ctxDone, outVars, main, lookupVars>>

\* TryAdd of peer.Set: the provider is new and the set has room for it.
TryAdd(w, v) ==
    /\ InLoop(w) /\ pend[w] = NoProv /\ v \in rest[w]
    /\ IF v \in ps \/ Enough
       THEN Advance(w, v) /\ UNCHANGED <<ps, pend>>
       ELSE ps' = ps \cup {v} /\ pend' = [pend EXCEPT ![w] = v] /\ UNCHANGED rest
    /\ UNCHANGED <<inputs, ctxDone, outVars, main, lookupVars>>

SendProvider(w) ==
    /\ InLoop(w) /\ pend[w] # NoProv
    /\ Len(sent) - taken < chSize
    /\ sent' = Append(sent, pend[w])
    /\ pend' = [pend EXCEPT ![w] = NoProv]
    /\ Advance(w, pend[w])
    /\ UNCHANGED <<inputs, ctxDone, ps, taken, main, lookupVars>>

\* The context of the query has ended: it gives up, and with it the provider it has.
SendCancelled(p) ==
    /\ work[p] = "send" /\ pend[p] # NoProv
    /\ Cancelled
    /\ rest' = [rest EXCEPT ![p] = {}]
    /\ pend' = [pend EXCEPT ![p] = NoProv]
    /\ Move(p, "failed")
    /\ UNCHANGED <<inputs, ctxDone, ps, outVars, main, lookup, result>>

LocalCancelled ==
    /\ main = "local" /\ pend[Self] # NoProv /\ ctxDone
    /\ main' = "ended"
    /\ UNCHANGED <<inputs, ctxDone, loopVars, outVars, lookupVars>>
-----------------------------------------------------------------------------
\* findProvidersSingle.
Answer(p) ==
    /\ work[p] = "asking"
    /\ Move(p, "send")
    /\ rest' = [rest EXCEPT ![p] = provides[p]]
    /\ UNCHANGED <<inputs, ctxDone, ps, pend, outVars, main, lookup, result>>

AnswerFails(p) ==
    /\ work[p] = "asking"
    /\ Move(p, "failed")
    /\ UNCHANGED <<inputs, ctxDone, loopVars, outVars, main, lookup, result>>

\* The closer peers are handed to the lookup, or none if there are enough providers.
Report(p) ==
    /\ work[p] = "send" /\ pend[p] = NoProv /\ rest[p] = {}
    /\ Move(p, "report")
    /\ UNCHANGED <<inputs, ctxDone, loopVars, outVars, main, lookup, result>>

\* There are enough local providers, or the lookup is started; without any peer in the
\* table it fails at once.
EndLocal ==
    /\ main = "local" /\ pend[Self] = NoProv /\ rest[Self] = {}
    /\ \/ Enough /\ main' = "ended" /\ UNCHANGED <<lookup, work>>
       \/ /\ ~Enough /\ main' = "search"
          /\ \/ lookup' = "run" /\ work' \in Starts
             \/ lookup' = "ended" /\ UNCHANGED work
    /\ UNCHANGED <<inputs, ctxDone, loopVars, outVars, result>>

LookupStep == LookupMove(Enough) /\ UNCHANGED <<inputs, ctxDone, loopVars, outVars, main>>

Close ==
    /\ main = "search" /\ lookup = "ended"
    /\ main' = "ended"
    /\ UNCHANGED <<inputs, ctxDone, loopVars, outVars, lookupVars>>

\* The caller.
Read ==
    /\ taken < Len(sent)
    /\ taken' = taken + 1
    /\ UNCHANGED <<inputs, ctxDone, loopVars, sent, main, lookupVars>>

Cancel ==
    /\ ContextsEnd /\ ~ctxDone /\ main # "ended"
    /\ ctxDone' = TRUE
    /\ UNCHANGED <<inputs, loopVars, outVars, main, lookupVars>>
-----------------------------------------------------------------------------
LoopStep(w) == SendProvider(w) \/ \E v \in Provs : TryAdd(w, v)
QueryStep(p) == LoopStep(p) \/ SendCancelled(p) \/ Answer(p) \/ AnswerFails(p) \/ Report(p)
MainStep == LoopStep(Self) \/ LocalCancelled \/ EndLocal \/ Close

\* peerOut is closed and read to the end.
Ended == main = "ended" /\ taken = Len(sent) /\ UNCHANGED vars

Next ==
    \/ MainStep \/ LookupStep \/ \E p \in Peers : QueryStep(p)
    \/ Read \/ Cancel \/ Ended

Spec == Init /\ [][Next]_vars

\* The goroutines run and queries end by an answer or a timeout.  The caller need not read
\* peerOut, and its context need not end.
Fairness ==
    /\ WF_vars(MainStep) /\ WF_vars(LookupStep)
    /\ \A p \in Peers : WF_vars(QueryStep(p))
FairSpec == Spec /\ Fairness
-----------------------------------------------------------------------------
(* Every variable holds a value of the type the code gives it.              *)
TypeOK ==
    /\ count \in Counts /\ provides \in [Askers -> SUBSET Provs]
    /\ ctxDone \in BOOLEAN
    /\ ps \subseteq Provs /\ rest \in [Askers -> SUBSET Provs]
    /\ pend \in [Askers -> Provs \cup {NoProv}]
    /\ sent \in Seq(Provs) /\ taken \in 0..Len(sent)
    /\ main \in {"local", "search", "ended"}
    /\ lookup \in {"idle", "run", "join", "followup", "drain", "ended"}
    /\ work \in [Peers -> {"heard", "asking", "send", "report", "failed", "done", "unreachable"}]
    /\ result \subseteq Peers

Stream == INSTANCE ProviderStream

(* The caller of FindProvidersAsync gets distinct providers, at most count  *)
(* of them, and peerOut is closed after the last of them was sent, although *)
(* many queries look for providers and send them at a time: what            *)
(* ProviderStream promises.                                                 *)
KeepsPromise == Stream!Spec

(* Unless the caller cancels it or has got what it asked for, a search ends *)
(* only when every provider that some peer of the lookup's result knows has *)
(* been found, as far as the peer could be asked, although queries are cut  *)
(* off when the lookup comes to its end.                                    *)
AllOfResultFound ==
    main = "ended" /\ ~ctxDone /\ ~Enough =>
        \A p \in result : work[p] = "done" => provides[p] \subseteq ps

(* peerOut is closed at last, whatever the peers do, unless all providers   *)
(* are wanted and the caller neither reads nor ends its context: with a     *)
(* count the buffer is large enough for whoever still sends.                *)
ProviderSearchEnds ==
    <>[](main = "ended" \/ (count = 0 /\ taken < Len(sent) /\ ~ctxDone))
=============================================================================
