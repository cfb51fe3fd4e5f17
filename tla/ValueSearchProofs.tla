------------------------- MODULE ValueSearchProofs -------------------------
(***************************************************************************)
(* Theorems about ValueSearch, for any number of peers and values, any     *)
(* alpha, beta and bucketSize, and any quorum.  AccountedInv is the reason *)
(* why the answer and the corrections are right: no value is lost between  *)
(* a query and processValues, whatever is cancelled.                       *)
(***************************************************************************)
EXTENDS ValueSearch, TLAPS

\* What the lookup and its queries do leaves SearchValue's goroutine alone.
LEMMA Apart ==
    (LookupStep \/ \E p \in Peers : QueryStep(p)) => UNCHANGED <<inputs, ctxDone, mainVars>>
    BY DEF LookupStep, QueryStep, Answer, AnswerFails, SendValue, SendCancelled, HandleUpdate,
           ReceiveFollowup, LookupCancelled, Join, Followup, CancelFollowup, Drain, Move

\* And the other way round.
LEMMA MainApart == MainStep => UNCHANGED <<inputs, ctxDone, lookupVars>>
    BY DEF MainStep, ReceiveKnown, ReceiveBetter, Deliver, DeliverCancelled, ReceiveEnd,
           updatePeerValues, ResultCancelled, Counted
-----------------------------------------------------------------------------
\* The steps of the lookup keep the types.
LEMMA LookupTypes == TypeOK /\ LookupStep => TypeOK'
<1> SUFFICES ASSUME TypeOK, LookupStep PROVE TypeOK'
    OBVIOUS
<1> USE SearchAssumption DEF TypeOK, mainVars, valueVars, inputs, Move, At
<1>0. UNCHANGED <<inputs, ctxDone, valCh, mainVars>>
    BY DEF LookupStep
<1> USE <1>0
<1>1. ASSUME NEW p \in Peers, HandleUpdate(p, stopCh) PROVE TypeOK'
    BY <1>1 DEF HandleUpdate
<1>2. ASSUME NEW p \in Peers, ReceiveFollowup(p, stopCh) PROVE TypeOK'
    BY <1>2 DEF ReceiveFollowup
<1>3. CASE LookupCancelled
    BY <1>3 DEF LookupCancelled
<1>4. CASE Join(stopCh)
    BY <1>4 DEF Join, Followup, Results
<1>5. CASE CancelFollowup
    BY <1>5 DEF CancelFollowup
<1>6. CASE Drain
    BY <1>6 DEF Drain
<1> QED
    BY <1>1, <1>2, <1>3, <1>4, <1>5, <1>6 DEF LookupStep, LookupMove

\* So do the steps of a query.
LEMMA QueryTypes == ASSUME TypeOK, NEW p \in Peers, QueryStep(p) PROVE TypeOK'
<1> USE SearchAssumption DEF TypeOK, mainVars, valueVars, inputs, Move, At
<1>1. CASE Answer(p)
    BY <1>1 DEF Answer
<1>2. CASE AnswerFails(p)
    BY <1>2 DEF AnswerFails
<1>3. CASE SendValue(p)
    BY <1>3 DEF SendValue
<1>4. CASE SendCancelled(p)
    BY <1>4 DEF SendCancelled
<1> QED
    BY <1>1, <1>2, <1>3, <1>4 DEF QueryStep

\* What is received is a value and its sender.
LEMMA Received ==
    ASSUME TypeOK, valCh # << >>
    PROVE  /\ Head(valCh).val \in Vals
           /\ Head(valCh).from \in Peers \cup {Self}
           /\ valCh = <<[val |-> Head(valCh).val, from |-> Head(valCh).from]>>
<1>1. PICK v \in Vals, f \in Peers \cup {Self} : valCh = <<[val |-> v, from |-> f]>>
    BY DEF TypeOK
<1> QED
    BY <1>1

\* So do those of SearchValue's goroutine.
LEMMA MainTypes == TypeOK /\ MainStep => TypeOK'
<1> SUFFICES ASSUME TypeOK, MainStep PROVE TypeOK'
    OBVIOUS
<1> USE SearchAssumption DEF TypeOK, lookupVars, valueVars, inputs, Counted, At
<1>1. CASE ReceiveKnown
    <2>1. peersWithBest' \subseteq Peers \cup {Self} /\ numResponses' \in Nat
        BY <1>1, Received DEF ReceiveKnown
    <2>2. stopCh' \in BOOLEAN /\ main' \in {"recv", "ended"}
        BY <1>1 DEF ReceiveKnown
    <2> QED
        BY <1>1, <2>1, <2>2 DEF ReceiveKnown
<1>2. CASE ReceiveBetter
    BY <1>2, Received DEF ReceiveBetter
<1>3. CASE Deliver
    BY <1>3 DEF Deliver
<1>4. CASE DeliverCancelled
    BY <1>4 DEF DeliverCancelled
<1>5. CASE ReceiveEnd
    BY <1>5 DEF ReceiveEnd
<1>6. CASE updatePeerValues
    BY <1>6 DEF updatePeerValues
<1>7. CASE ResultCancelled
    BY <1>7 DEF ResultCancelled
<1> QED
    BY <1>1, <1>2, <1>3, <1>4, <1>5, <1>6, <1>7 DEF MainStep

\* The types hold at the start and every step keeps them.
LEMMA TypeStep == (Init => TypeOK) /\ (TypeOK /\ [Next]_vars => TypeOK')
<1>1. ASSUME Init PROVE TypeOK
    BY <1>1, SearchAssumption DEF Init, TypeOK, Vals, NoVal, At, Starts, NothingAsked
<1>2. ASSUME TypeOK, Cancel PROVE TypeOK'
    BY <1>2 DEF TypeOK, At, Cancel, inputs, mainVars, valueVars, lookupVars
<1>3. ASSUME TypeOK, UNCHANGED vars PROVE TypeOK'
    BY <1>3 DEF TypeOK, At, vars, inputs, mainVars, valueVars, lookupVars
<1> QED
    BY <1>1, <1>2, <1>3, LookupTypes, QueryTypes, MainTypes DEF Next, Ended

\* Every variable of a search keeps its type.
THEOREM TypeCorrect == Spec => []TypeOK
    BY TypeStep, PTL DEF Spec
-----------------------------------------------------------------------------
\* A step leaves no query behind that could send when valCh is closed.
LEMMA CloseStep == TypeOK /\ NoSendAfterClose /\ [Next]_vars => NoSendAfterClose'
<1> SUFFICES ASSUME TypeOK, NoSendAfterClose, [Next]_vars PROVE NoSendAfterClose'
    OBVIOUS
<1> USE DEF TypeOK, NoSendAfterClose, At, Move
<1>1. ASSUME NEW p \in Peers, HandleUpdate(p, stopCh) PROVE NoSendAfterClose'
    BY <1>1 DEF HandleUpdate
<1>2. ASSUME NEW p \in Peers, ReceiveFollowup(p, stopCh) PROVE NoSendAfterClose'
    BY <1>2 DEF ReceiveFollowup, InFlight
<1>3. CASE LookupCancelled
    BY <1>3 DEF LookupCancelled
<1>4. CASE Join(stopCh)
    BY <1>4 DEF Join, Followup
<1>5. CASE CancelFollowup
    BY <1>5 DEF CancelFollowup
<1>6. CASE Drain
    BY <1>6 DEF Drain
<1>7. ASSUME NEW p \in Peers, QueryStep(p) PROVE NoSendAfterClose'
    BY <1>7 DEF QueryStep, Answer, AnswerFails, SendValue, SendCancelled
<1>8. CASE UNCHANGED lookupVars
    BY <1>8 DEF lookupVars
<1> QED
    BY <1>1, <1>2, <1>3, <1>4, <1>5, <1>6, <1>7, <1>8, MainApart
       DEF Next, LookupStep, LookupMove, Cancel, Ended, vars

\* No query can send to valCh once it is closed, although lookups are stopped and cancelled
\* at any moment: the join of the workers and of the follow-ups precedes the close.
THEOREM NeverSendsAfterClose == Spec => []NoSendAfterClose
<1>1. Init => NoSendAfterClose
    BY DEF Init, NoSendAfterClose, At, NothingAsked
<1> QED
    BY <1>1, CloseStep, TypeStep, PTL DEF Spec
-----------------------------------------------------------------------------
\* A step keeps what the caller has got behind the best value, or equal to it.
LEMMA StreamStep == TypeOK /\ StreamInv /\ [Next]_vars => StreamInv'
<1> SUFFICES ASSUME TypeOK, StreamInv, [Next]_vars PROVE StreamInv'
    OBVIOUS
<1> USE SearchAssumption DEF TypeOK, StreamInv, Vals, NoVal, Counted, valueVars, inputs
<1>1. CASE ReceiveKnown
    BY <1>1 DEF ReceiveKnown
<1>2. CASE ReceiveBetter
    BY <1>2, Received DEF ReceiveBetter
<1>3. CASE Deliver
    BY <1>3 DEF Deliver
<1>4. CASE DeliverCancelled
    BY <1>4 DEF DeliverCancelled
<1>5. CASE ReceiveEnd
    BY <1>5 DEF ReceiveEnd
<1>6. CASE updatePeerValues
    BY <1>6 DEF updatePeerValues
<1>7. CASE ResultCancelled
    BY <1>7 DEF ResultCancelled
<1>8. CASE UNCHANGED mainVars /\ (ctxDone => ctxDone')
    BY <1>8 DEF mainVars
<1> QED
    BY <1>1, <1>2, <1>3, <1>4, <1>5, <1>6, <1>7, <1>8, Apart DEF Next, MainStep, Cancel, Ended, vars

\* It holds always.
LEMMA StreamCorrect == Spec => [](TypeOK /\ StreamInv)
<1>1. Init => StreamInv
    BY DEF Init, StreamInv, NoVal
<1> QED
    BY <1>1, StreamStep, TypeStep, PTL DEF Spec

\* The values the caller of SearchValue gets only get better, in whatever order the peers
\* answer.
THEOREM StreamsImprove == Spec => StreamImproves
<1>1. ASSUME TypeOK, StreamInv, [Next]_vars
      PROVE  [delivered' # delivered => delivered' > delivered]_vars
    <2> USE <1>1 DEF valueVars, mainVars
    <2>1. CASE Deliver
        BY <2>1, SearchAssumption DEF Deliver, StreamInv, TypeOK, Vals, NoVal
    <2>2. CASE UNCHANGED delivered
        BY <2>2
    <2> QED
        BY <2>1, <2>2, Apart
           DEF Next, MainStep, ReceiveKnown, ReceiveBetter, DeliverCancelled, ReceiveEnd,
               updatePeerValues, ResultCancelled, Cancel, Ended, vars
<1> QED
    BY <1>1, StreamCorrect, PTL DEF Spec, StreamImproves
-----------------------------------------------------------------------------
\* A step of the lookup loses no value.
LEMMA LookupAccounts == TypeOK /\ AccountedInv /\ LookupStep => AccountedInv'
<1> SUFFICES ASSUME TypeOK, AccountedInv, LookupStep, NEW q \in Peers,
                    work'[q] \in {"report", "done"}
             PROVE  Accounted(q)'
    BY DEF AccountedInv
<1> USE DEF TypeOK, AccountedInv, Move
<1>1. UNCHANGED <<holds, best, peersWithBest, valCh>>
    BY DEF LookupStep, LookupMove, HandleUpdate, ReceiveFollowup, LookupCancelled, Join, Followup, CancelFollowup, Drain,
           inputs, mainVars, valueVars
<1>2. work[q] \in {"report", "done"}
    BY DEF LookupStep, LookupMove, HandleUpdate, ReceiveFollowup, LookupCancelled, Join, Followup, CancelFollowup, Drain
<1> QED
    BY <1>1, <1>2 DEF Accounted

\* Nor does a step of a query: what it has is in valCh when it reports.
LEMMA QueryAccounts == ASSUME TypeOK, AccountedInv, NEW p \in Peers, QueryStep(p) PROVE AccountedInv'
<1> SUFFICES ASSUME NEW q \in Peers, work'[q] \in {"report", "done"}
             PROVE  Accounted(q)'
    BY DEF AccountedInv
<1> USE DEF TypeOK, AccountedInv, Accounted, Move, inputs, mainVars, valueVars
<1>1. CASE Answer(p)
    BY <1>1 DEF Answer
<1>2. CASE AnswerFails(p)
    BY <1>2 DEF AnswerFails
<1>3. CASE SendValue(p)
    BY <1>3 DEF SendValue
<1>4. CASE SendCancelled(p)
    BY <1>4 DEF SendCancelled
<1> QED
    BY <1>1, <1>2, <1>3, <1>4 DEF QueryStep

\* processValues takes one value from the buffer and compares it with the best one.
LEMMA MainAccounts == TypeOK /\ AccountedInv /\ MainStep => AccountedInv'
<1> SUFFICES ASSUME TypeOK, AccountedInv, MainStep, NEW q \in Peers,
                    work'[q] \in {"report", "done"}
             PROVE  Accounted(q)'
    BY DEF AccountedInv
<1>1. Accounted(q) /\ holds' = holds
    BY MainApart DEF AccountedInv, lookupVars, inputs
<1> USE <1>1, SearchAssumption DEF TypeOK, Accounted, Vals, NoVal
<1>2. CASE ReceiveKnown
    BY <1>2, Received DEF ReceiveKnown
<1>3. CASE ReceiveBetter
    BY <1>3, Received DEF ReceiveBetter
<1>4. CASE UNCHANGED <<best, peersWithBest, valCh>>
    BY <1>4
<1> QED
    BY <1>2, <1>3, <1>4
       DEF MainStep, Deliver, DeliverCancelled, ReceiveEnd, updatePeerValues, ResultCancelled, valueVars

\* Every step accounts for every value.
LEMMA AccountedStep == TypeOK /\ AccountedInv /\ [Next]_vars => AccountedInv'
<1>1. ASSUME AccountedInv, UNCHANGED <<holds, best, peersWithBest, valCh, work>> PROVE AccountedInv'
    BY <1>1 DEF AccountedInv, Accounted
<1> QED
    BY <1>1, LookupAccounts, QueryAccounts, MainAccounts
       DEF Next, Cancel, Ended, vars, inputs, mainVars, valueVars, lookupVars
-----------------------------------------------------------------------------
\* Once processValues has ended by itself nothing is sent any more.
LEMMA EndStep == TypeOK /\ NoSendAfterClose /\ EndInv /\ [Next]_vars => EndInv'
<1> SUFFICES ASSUME TypeOK, NoSendAfterClose, EndInv, [Next]_vars PROVE EndInv'
    OBVIOUS
<1> USE SearchAssumption DEF TypeOK, EndInv, Vals, NoVal, Counted, lookupVars, mainVars, valueVars, inputs
<1>1. CASE ReceiveKnown
    BY <1>1 DEF ReceiveKnown
<1>2. CASE ReceiveBetter
    BY <1>2, Received DEF ReceiveBetter
<1>3. CASE Deliver
    BY <1>3 DEF Deliver
<1>4. CASE DeliverCancelled
    BY <1>4 DEF DeliverCancelled
<1>5. CASE ReceiveEnd
    BY <1>5 DEF ReceiveEnd
<1>6. CASE updatePeerValues
    BY <1>6 DEF updatePeerValues
<1>7. CASE ResultCancelled
    BY <1>7 DEF ResultCancelled
<1>8. ASSUME NEW p \in Peers, QueryStep(p) PROVE EndInv'
    BY <1>8 DEF QueryStep, Answer, AnswerFails, SendValue, SendCancelled, NoSendAfterClose, At
<1>9. CASE LookupStep
    <2>1. lookup # "ended" /\ UNCHANGED valCh
        BY <1>9
           DEF LookupStep, LookupMove, HandleUpdate, ReceiveFollowup, LookupCancelled, Join, Followup, CancelFollowup, Drain
    <2> QED
        BY <1>9, <2>1, Apart
<1>10. CASE Cancel
    BY <1>10 DEF Cancel
<1>11. CASE UNCHANGED vars
    BY <1>11 DEF vars
<1> QED
    BY <1>1, <1>2, <1>3, <1>4, <1>5, <1>6, <1>7, <1>8, <1>9, <1>10, <1>11 DEF Next, MainStep, Ended

\* The parts of the inductive invariant together.
LEMMA SearchCorrect == Spec => [](TypeOK /\ StreamInv /\ AccountedInv /\ EndInv)
<1>1. Init => NoSendAfterClose /\ AccountedInv /\ EndInv
    BY DEF Init, NoSendAfterClose, At, AccountedInv, EndInv, Starts, NothingAsked
<1> QED
    BY <1>1, StreamCorrect, AccountedStep, EndStep, CloseStep, TypeStep, PTL DEF Spec

\* A search that is neither cancelled nor stopped by its quorum ends with a value at least as
\* good as that of any peer of the result that could be asked, and the caller has got it.
THEOREM AnswerIsBest == Spec => []BestOfResult
<1>1. TypeOK /\ StreamInv /\ AccountedInv /\ EndInv => BestOfResult
    BY SearchAssumption DEF TypeOK, StreamInv, AccountedInv, Accounted, EndInv, BestOfResult, Vals, NoVal
<1> QED
    BY <1>1, SearchCorrect, PTL

\* updatePeerValues goes only to peers with a worse value or none, as far as they could be
\* asked.
THEOREM CorrectionsAreDue == Spec => []CorrectedHadWorse
<1>1. ASSUME TypeOK, AccountedInv, EndInv, ~ctxDone, NEW p \in corrected, work[p] = "done"
      PROVE  holds[p] < best
    <2>1. p \in Peers /\ p \notin peersWithBest /\ best # NoVal /\ valCh = << >>
        BY <1>1 DEF TypeOK, EndInv
    <2>2. Accounted(p)
        BY <1>1, <2>1 DEF AccountedInv
    <2>3. holds[p] \in Vals \cup {NoVal} /\ best \in Vals
        BY <1>1, <2>1 DEF TypeOK
    <2> QED
        BY <2>1, <2>2, <2>3, SearchAssumption DEF Accounted, Vals, NoVal
<1>2. TypeOK /\ AccountedInv /\ EndInv => CorrectedHadWorse
    BY <1>1 DEF CorrectedHadWorse
<1> QED
    BY <1>2, SearchCorrect, PTL
=============================================================================
