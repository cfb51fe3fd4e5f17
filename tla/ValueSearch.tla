---------------------------- MODULE ValueSearch ----------------------------
(***************************************************************************)
(* One SearchValue (go-libp2p-kad-dht/routing.go): the goroutine that      *)
(* picks the best of the values that come in, streams every better one to  *)
(* the caller, stops the search when it has enough responses, and at the   *)
(* end corrects the peers that had a worse value; and the lookup that asks *)
(* the peers, whose queries pass the values on through valCh.              *)
(*                                                                         *)
(* The lookup is that of LookupOutline.  A value is its rank in the order  *)
(* of Validator.Select, which does not fail on two values that validate.   *)
(***************************************************************************)
EXTENDS LookupOutline, Sequences

CONSTANTS
    MaxVal,             \* bound: the best value
    Quorums             \* the values of nvals

Vals == 0..MaxVal
NoVal == -1             \* no value, the worst

ASSUME SearchAssumption ==
    /\ Self \notin Peers
    /\ MaxVal \in Nat /\ Quorums \subseteq Nat

VARIABLES
    holds,          \* holds[p]: the value p answers with, NoVal if it has none
    nvals,          \* the quorum: 0 if all responses are wanted
    valCh,          \* the buffer of valCh, of length 1
    stopCh,         \* it is closed
    main,           \* where SearchValue's goroutine is
    best, peersWithBest, numResponses,
    delivered,      \* the latest value the caller got
    corrected       \* the peers that are sent the best value

valueVars == <<best, peersWithBest, numResponses, delivered, corrected>>
mainVars == <<main, stopCh, valueVars>>
inputs == <<holds, nvals>>
vars == <<inputs, ctxDone, valCh, mainVars, lookupVars>>
-----------------------------------------------------------------------------
\* getLocal's record is the first value; the peers nearest to the key are asked.
\* Without any peer in the table the lookup fails at once.
Init ==
    /\ holds \in [Peers -> Vals \cup {NoVal}] /\ nvals \in Quorums
    /\ ctxDone = FALSE
    /\ valCh \in {<< >>} \cup {<<[val |-> v, from |-> Self]>> : v \in Vals}
    /\ \/ lookup = "run" /\ work \in Starts
       \/ lookup = "ended" /\ work = NothingAsked
    /\ result = {}
    /\ stopCh = FALSE
    /\ main = "recv"
    /\ best = NoVal /\ peersWithBest = {} /\ numResponses = 0
    /\ delivered = NoVal /\ corrected = {}
-----------------------------------------------------------------------------
(* The query of one peer.                                                   *)

\* getValueOrPeers: a record that validates, or closer peers only.
Answer(p) ==
    /\ work[p] = "asking"
    /\ Move(p, IF holds[p] = NoVal THEN "report" ELSE "send")
    /\ UNCHANGED <<inputs, ctxDone, valCh, mainVars, lookup, result>>

\* It fails, the peer has neither a record nor closer peers, or its record is invalid.
AnswerFails(p) ==
    /\ work[p] = "asking"
    /\ Move(p, "failed")
    /\ UNCHANGED <<inputs, ctxDone, valCh, mainVars, lookup, result>>

SendValue(p) ==
    /\ work[p] = "send"
    /\ valCh = << >>
    /\ valCh' = <<[val |-> holds[p], from |-> p]>>
    /\ Move(p, "report")
    /\ UNCHANGED <<inputs, ctxDone, mainVars, lookup, result>>

SendCancelled(p) ==
    /\ work[p] = "send"
    /\ Cancelled
    /\ Move(p, "failed")
    /\ UNCHANGED <<inputs, ctxDone, valCh, mainVars, lookup, result>>
-----------------------------------------------------------------------------
(* processValues and searchValueQuorum.                                     *)

Enough(n) == nvals > 0 /\ n > nvals

\* The callback's end: the search is stopped, and aborted, or goes on.
Counted(n) ==
    IF Enough(n) THEN stopCh' = TRUE /\ main' = "ended" ELSE UNCHANGED stopCh /\ main' = "recv"

\* Mutant: a peer that has the best value too is not noted.
ReceiveKnownUnnoted ==
    /\ main = "recv" /\ valCh # << >>
    /\ Head(valCh).val <= best
    /\ UNCHANGED peersWithBest
    /\ numResponses' = numResponses + 1
    /\ Counted(numResponses')
    /\ valCh' = << >>
    /\ UNCHANGED <<inputs, ctxDone, lookupVars, best, delivered, corrected>>

\* A value that is no better.
ReceiveKnown ==
    /\ main = "recv" /\ valCh # << >>
    /\ Head(valCh).val <= best
    /\ peersWithBest' = IF Head(valCh).val = best THEN peersWithBest \cup {Head(valCh).from}
                        ELSE peersWithBest
    /\ numResponses' = numResponses + 1
    /\ Counted(numResponses')
    /\ valCh' = << >>
    /\ UNCHANGED <<inputs, ctxDone, lookupVars, best, delivered, corrected>>

ReceiveBetter ==
    /\ main = "recv" /\ valCh # << >>
    /\ Head(valCh).val > best
    /\ best' = Head(valCh).val
    /\ peersWithBest' = {Head(valCh).from}
    /\ numResponses' = numResponses + 1
    /\ main' = "send"
    /\ valCh' = << >>
    /\ UNCHANGED <<inputs, ctxDone, lookupVars, stopCh, delivered, corrected>>

\* The caller takes the better value from out.
Deliver ==
    /\ main = "send"
    /\ delivered' = best
    /\ Counted(numResponses)
    /\ UNCHANGED <<inputs, ctxDone, valCh, lookupVars, best, peersWithBest, numResponses, corrected>>

DeliverCancelled ==
    /\ main = "send" /\ ctxDone
    /\ main' = "recv"
    /\ UNCHANGED <<inputs, ctxDone, valCh, lookupVars, stopCh, valueVars>>

\* Mutant: the last value, still in the buffer, is overlooked.
ReceiveEndEarly ==
    /\ main = "recv"
    /\ lookup = "ended" \/ ctxDone
    /\ main' = IF best = NoVal THEN "ended" ELSE "result"
    /\ UNCHANGED <<inputs, ctxDone, valCh, lookupVars, stopCh, valueVars>>

\* Mutant: valCh is never closed.
ReceiveEndUnclosed ==
    /\ main = "recv"
    /\ ctxDone
    /\ main' = IF best = NoVal THEN "ended" ELSE "result"
    /\ UNCHANGED <<inputs, ctxDone, valCh, lookupVars, stopCh, valueVars>>

\* valCh is closed, and empty, or the context has ended.
ReceiveEnd ==
    /\ main = "recv"
    /\ (lookup = "ended" /\ valCh = << >>) \/ ctxDone
    /\ main' = IF best = NoVal THEN "ended" ELSE "result"
    /\ UNCHANGED <<inputs, ctxDone, valCh, lookupVars, stopCh, valueVars>>

\* updatePeerValues: the peers of the result not known to have the best value.
updatePeerValues ==
    /\ main = "result" /\ lookup = "ended"
    /\ corrected' = result \ peersWithBest
    /\ main' = "ended"
    /\ UNCHANGED <<inputs, ctxDone, valCh, lookupVars, stopCh, best, peersWithBest, numResponses,
                   delivered>>

ResultCancelled ==
    /\ main = "result" /\ ctxDone
    /\ main' = "ended"
    /\ UNCHANGED <<inputs, ctxDone, valCh, lookupVars, stopCh, valueVars>>
-----------------------------------------------------------------------------
Cancel ==
    /\ ContextsEnd /\ ~ctxDone
    /\ ctxDone' = TRUE
    /\ UNCHANGED <<inputs, valCh, mainVars, lookupVars>>

MainStep ==
    \/ ReceiveKnown \/ ReceiveBetter \/ Deliver \/ DeliverCancelled \/ ReceiveEnd
    \/ updatePeerValues \/ ResultCancelled
QueryStep(p) == Answer(p) \/ AnswerFails(p) \/ SendValue(p) \/ SendCancelled(p)
LookupStep == LookupMove(stopCh) /\ UNCHANGED <<inputs, ctxDone, valCh, mainVars>>

\* SearchValue has closed out.
Ended == main = "ended" /\ UNCHANGED vars

Next ==
    \/ MainStep \/ LookupStep \/ \E p \in Peers : QueryStep(p)
    \/ Cancel \/ Ended

Spec == Init /\ [][Next]_vars

\* The goroutines run, queries end by an answer or a timeout, and the caller reads out,
\* as GetValue does.  The context need not end.
Fairness ==
    /\ WF_vars(MainStep) /\ WF_vars(LookupStep)
    /\ \A p \in Peers : WF_vars(QueryStep(p))
FairSpec == Spec /\ Fairness
-----------------------------------------------------------------------------
(* Every variable holds a value of the type the code gives it.              *)
TypeOK ==
    /\ holds \in [Peers -> Vals \cup {NoVal}] /\ nvals \in Quorums
    /\ ctxDone \in BOOLEAN /\ stopCh \in BOOLEAN
    /\ lookup \in {"run", "join", "followup", "drain", "ended"}
    /\ work \in [Peers -> {"heard", "asking", "send", "report", "failed", "done", "unreachable"}]
    /\ result \subseteq Peers
    /\ valCh = << >> \/ \E v \in Vals, f \in Peers \cup {Self} : valCh = <<[val |-> v, from |-> f]>>
    /\ main \in {"recv", "send", "result", "ended"}
    /\ best \in Vals \cup {NoVal} /\ delivered \in Vals \cup {NoVal}
    /\ peersWithBest \subseteq Peers \cup {Self}
    /\ numResponses \in Nat
    /\ corrected \subseteq Peers
    /\ \A p \in At("send") : holds[p] # NoVal

(* What the caller has got is the best value, or about to be replaced by it. *)
StreamInv ==
    /\ delivered <= best
    /\ main = "send" => delivered < best
    /\ ~ctxDone /\ main # "send" => delivered = best

(* The value of a peer that has been asked to the end is accounted for: the *)
(* peer is known to have the best value, its value is worse, or it is still *)
(* in the buffer of valCh.                                                  *)
Accounted(p) ==
    \/ holds[p] < best
    \/ holds[p] = NoVal
    \/ holds[p] = best /\ p \in peersWithBest
    \/ valCh = <<[val |-> holds[p], from |-> p]>>

AccountedInv == \A p \in Peers : work[p] \in {"report", "done"} => Accounted(p)

(* How processValues may have ended, and what is corrected then.            *)
EndInv ==
    /\ stopCh => main = "ended"
    /\ main = "result" => best # NoVal
    /\ main \in {"result", "ended"} /\ ~ctxDone /\ ~stopCh => lookup = "ended" /\ valCh = << >>
    /\ corrected # {} => main = "ended" /\ ~stopCh /\ best # NoVal
    /\ corrected \cap peersWithBest = {}

(* The values SearchValue streams to its caller get better and better.      *)
StreamImproves ==
    [][delivered' # delivered => delivered' > delivered]_vars

(* valCh is closed only when no query can send to it any more: a send on    *)
(* the closed channel would be a panic.                                     *)
NoSendAfterClose == lookup = "ended" => At("asking") = {} /\ At("send") = {}

(* Unless the search was stopped by its quorum or cancelled, its answer is  *)
(* at least as good as what any peer of the lookup's result has that could  *)
(* be asked, although queries are cut off and values dropped when the       *)
(* lookup comes to its end; and the caller has got that answer.             *)
BestOfResult ==
    main \in {"result", "ended"} /\ ~ctxDone /\ ~stopCh =>
        /\ delivered = best
        /\ \A p \in result : work[p] = "done" => best >= holds[p]

(* Only peers with a worse value, or none, are corrected, as far as they    *)
(* could be asked.                                                          *)
CorrectedHadWorse ==
    ~ctxDone => \A p \in corrected : work[p] = "done" => holds[p] < best

(* SearchValue closes out, whatever its peers and its context do, and its   *)
(* lookup ends with all goroutines that ask peers, unless the quorum was    *)
(* reached and the caller's context does not end.                           *)
SearchEnds == <>[](main = "ended" /\ (lookup = "ended" \/ (stopCh /\ ~ctxDone)))
=============================================================================
