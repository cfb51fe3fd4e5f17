-------------------------------- MODULE Calls --------------------------------
(***************************************************************************)
(* The calls on an IpfsDHT that wrap a lookup in steps of their own        *)
(* (go-libp2p-kad-dht/routing.go and records.go): FindPeer, Provide,       *)
(* PutValue once it has stored the record locally (ValueStore has that     *)
(* part), and GetPublicKey, which asks the peer itself and the DHT at a    *)
(* time.  The same call may run on several DHTs, as the dual DHT does it.  *)
(* What a lookup does is the matter of Lookup; here it ends with a result  *)
(* that is complete unless its context has ended.                          *)
(***************************************************************************)
EXTENDS Integers, FiniteSets

CONSTANTS
    Dhts,
    Targets             \* the peers a complete lookup ends with

Sources == {"node", "dht"}          \* where GetPublicKey asks

VARIABLES
    call,           \* the method that was called
    announce,       \* the argument brdcst of Provide
    deadline,       \* the context of the caller has a deadline
    ctxErr,         \* ctx.Err()
    innerDone,      \* the earlier deadline of closerCtx in Provide has passed
    local,          \* local[d]: d has the answer without asking anyone
    knows,          \* knows[d]: the sources of d that have the answer
    cancelled,      \* cancelled[d]: the caller has cancelled the call on d alone
    part,           \* part[d]: where the call on d is, at last its error
    closest,        \* closest[d]: the peers its lookup has found
    todo,           \* todo[d]: those of them that are being sent to
    exceeded,       \* exceeded[d]: exceededDeadline in Provide
    key             \* key[d]: what the goroutines of GetPublicKey have answered

inputVars == <<call, announce, deadline, local, knows>>
ctxVars == <<ctxErr, innerDone, cancelled>>
sendVars == <<closest, todo, exceeded>>
callVars == <<inputVars, ctxVars, part, sendVars, key>>

nil == "nil"
Errors == {"ErrLookupFailure", "ErrNotFound", "Canceled", "DeadlineExceeded", "no addresses"}
Methods ==
    {"FindProvidersAsync", "FindPeer", "GetPublicKey", "GetValue", "Provide", "PutValue",
     "Bootstrap", "Close"}

CallsInit ==
    /\ call \in Methods
    /\ announce \in BOOLEAN /\ deadline \in BOOLEAN
    /\ ctxErr = nil /\ innerDone = FALSE /\ cancelled = [d \in Dhts |-> FALSE]
    /\ local \in [Dhts -> BOOLEAN] /\ knows \in [Dhts -> SUBSET Sources]
    /\ closest = [d \in Dhts |-> {}] /\ todo = [d \in Dhts |-> {}]
    /\ exceeded = [d \in Dhts |-> FALSE]
    /\ key = [d \in Dhts |-> [w \in Sources |-> "asking"]]

Has(d) == local[d] \/ knows[d] # {}
Returned(d) == part[d] \in Errors \cup {nil}
CallErr(d) == IF cancelled[d] THEN "Canceled" ELSE ctxErr

PartAt(d, l) == part' = [part EXCEPT ![d] = l]
-----------------------------------------------------------------------------
(* FindPeer.  A lookup that is cancelled returns what it has and no error.  *)

FindLocal(d) ==
    /\ call = "FindPeer" /\ part[d] = "running"
    /\ PartAt(d, IF local[d] THEN nil ELSE "lookup")
    /\ UNCHANGED <<inputVars, ctxVars, sendVars, key>>

FindPeerReturns(d) ==
    /\ call = "FindPeer" /\ part[d] = "lookup"
    /\ \/ Has(d) /\ PartAt(d, nil)
       \/ (~Has(d) \/ CallErr(d) # nil) /\ PartAt(d, "ErrNotFound")
       \/ ~Has(d) /\ PartAt(d, "ErrLookupFailure")
    /\ UNCHANGED <<inputVars, ctxVars, sendVars, key>>
-----------------------------------------------------------------------------
(* GetPublicKey.                                                            *)

KeyLocal(d) ==
    /\ call = "GetPublicKey" /\ part[d] = "running"
    /\ PartAt(d, IF local[d] THEN nil ELSE "asking")
    /\ UNCHANGED <<inputVars, ctxVars, sendVars, key>>

\* getPublicKeyFromNode and getPublicKeyFromDHT.  The context of both ends
\* when the call returns; resp has room for both answers.
KeyAnswer(d, w) ==
    /\ call = "GetPublicKey" /\ part[d] \notin {"idle", "running"} /\ ~local[d]
    /\ key[d][w] = "asking"
    /\ \E a \in {"key", "error"} :
        /\ a = "key" => w \in knows[d]
        /\ a = "error" => w \notin knows[d] \/ CallErr(d) # nil \/ Returned(d)
        /\ key' = [key EXCEPT ![d][w] = a]
    /\ UNCHANGED <<inputVars, ctxVars, part, sendVars>>

KeyReturns(d) ==
    /\ call = "GetPublicKey" /\ part[d] = "asking"
    /\ \/ \E w \in Sources : key[d][w] = "key" /\ PartAt(d, nil)
       \/ (\A w \in Sources : key[d][w] = "error") /\ PartAt(d, "ErrNotFound")
    /\ UNCHANGED <<inputVars, ctxVars, sendVars, key>>
-----------------------------------------------------------------------------
(* Provide and PutValue.                                                    *)

\* Provide has recorded the node itself with the provider manager.  A deadline
\* that has passed ends it, an earlier one is set for the lookup.
ProvideLocal(d) ==
    /\ call = "Provide" /\ part[d] = "running"
    /\ PartAt(d, IF ~announce THEN nil
             ELSE IF ctxErr = "DeadlineExceeded" THEN ctxErr ELSE "lookup")
    /\ UNCHANGED <<inputVars, ctxVars, sendVars, key>>

PutLocal(d) ==
    /\ call = "PutValue" /\ part[d] = "running"
    /\ PartAt(d, "lookup")
    /\ UNCHANGED <<inputVars, ctxVars, sendVars, key>>

\* The deadline of closerCtx passes, some time before that of the caller.
InnerDeadline ==
    /\ call = "Provide" /\ deadline /\ ~innerDone /\ ctxErr = nil
    /\ innerDone' = TRUE
    /\ UNCHANGED <<inputVars, ctxErr, cancelled, part, sendVars, key>>

\* The error of the context the lookup was called with.
lookupErr == IF innerDone THEN "DeadlineExceeded" ELSE ctxErr

\* Mutant: the peers found before the inner deadline are given up.
WorthSendingInTime == lookupErr = nil

\* Whether the peers found are sent to: also those Provide found in time, if
\* only the inner deadline has passed.
WorthSending == lookupErr = nil \/ (call = "Provide" /\ innerDone /\ ctxErr = nil)

\* GetClosestPeers returns all peers it can find unless its context has ended.
GetClosestPeers(d) ==
    /\ call \in {"Provide", "PutValue"} /\ part[d] = "lookup"
    /\ \E ps \in SUBSET Targets :
        /\ lookupErr = nil => ps = Targets
        /\ closest' = [closest EXCEPT ![d] = ps]
        /\ IF WorthSending
           THEN /\ PartAt(d, "sending") /\ todo' = [todo EXCEPT ![d] = ps]
                /\ exceeded' = [exceeded EXCEPT ![d] = lookupErr # nil]
           ELSE /\ PartAt(d, IF innerDone /\ ctxErr # nil THEN ctxErr ELSE lookupErr)
                /\ UNCHANGED <<todo, exceeded>>
    /\ UNCHANGED <<inputVars, ctxVars, key>>

\* There are no peers to begin with, or makeProvRecord has no address to give.
NothingToSend(d) ==
    /\ call \in {"Provide", "PutValue"} /\ part[d] = "lookup"
    /\ \/ PartAt(d, "ErrLookupFailure")
       \/ call = "Provide" /\ WorthSending /\ PartAt(d, "no addresses")
    /\ UNCHANGED <<inputVars, ctxVars, sendVars, key>>

\* The goroutine that sends to p ends, whether or not the message arrived.
SentTo(d, p) ==
    /\ part[d] = "sending" /\ p \in todo[d]
    /\ todo' = [todo EXCEPT ![d] = @ \ {p}]
    /\ UNCHANGED <<inputVars, ctxVars, part, closest, exceeded, key>>

\* wg.Wait
SendingEnds(d) ==
    /\ part[d] = "sending" /\ todo[d] = {}
    /\ PartAt(d, IF call = "PutValue" THEN nil ELSE IF exceeded[d] THEN "DeadlineExceeded" ELSE ctxErr)
    /\ UNCHANGED <<inputVars, ctxVars, sendVars, key>>
-----------------------------------------------------------------------------
(* GetValue, which ValueSearch models, Bootstrap and Close.                 *)
OtherReturns(d) ==
    /\ call \in {"GetValue", "Bootstrap", "Close"} /\ part[d] = "running"
    /\ \E e \in Errors \cup {nil} :
        /\ e \in {"Canceled", "DeadlineExceeded"} => e = CallErr(d)
        /\ e = nil => Has(d)
        /\ e \in {"ErrLookupFailure", "ErrNotFound"} => ~Has(d)
        /\ e # "no addresses"
        /\ PartAt(d, e)
    /\ UNCHANGED <<inputVars, ctxVars, sendVars, key>>

PartStep(d) ==
    \/ FindLocal(d) \/ FindPeerReturns(d)
    \/ KeyLocal(d) \/ KeyReturns(d) \/ \E w \in Sources : KeyAnswer(d, w)
    \/ ProvideLocal(d) \/ PutLocal(d) \/ GetClosestPeers(d) \/ NothingToSend(d)
    \/ SendingEnds(d) \/ \E p \in Targets : SentTo(d, p)
    \/ OtherReturns(d)
=============================================================================
