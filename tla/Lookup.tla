------------------------------- MODULE Lookup -------------------------------
(***************************************************************************)
(* One iterative Kademlia lookup: GetClosestPeers over                     *)
(* runLookupWithFollowup over runQuery (go-libp2p-kad-dht/lookup.go,       *)
(* query.go, qpeerset/qpeerset.go).                                        *)
(*                                                                         *)
(* Three kinds of goroutine meet here.  The main one runs the select loop  *)
(* of query.run, owns the QueryPeerset and spawns one worker per peer it   *)
(* wants to query.  A worker dials, sends the RPC and reports one update   *)
(* on the channel ch, whose buffer holds alpha updates; nobody reads ch    *)
(* after the lookup has terminated, yet run() returns only after every     *)
(* worker has (waitGroup.Wait).  Follow-up goroutines query the peers of   *)
(* the result that were not queried, and report on doneCh.                 *)
(*                                                                         *)
(* Peers are abstract; Dist is the XOR distance of a peer to the target.   *)
(* Values read from a k-bucket of the routing table (alpha, beta) change   *)
(* under the lookup and are chosen from a set each time they are read.     *)
(***************************************************************************)
EXTENDS Integers, Sequences, FiniteSets

CONSTANTS
    Peers,          \* every peer but self
    Dist,           \* distance of each peer to the target key
    Alpha,          \* dht.alpha, the Concurrency option
    Beta,           \* dht.beta, the Resiliency option
    BucketSize,     \* dht.bucketSize
    IsKadRTT,       \* dht.isKadRTT
    BucketAlphas,   \* what GetAlpha of the target's bucket may return
    MaxAlpha,       \* bound: the largest alpha, of dht and of a bucket
    BucketBetas,    \* what GetBeta of the target's bucket may return
    Replies,        \* Replies[p]: the sets of closer peers p may answer with
    CanStop,        \* stopFn may return true; it never does for GetClosestPeers
    Self            \* dht.self, the cause of the seed update

ASSUME LookupAssumption ==
    /\ IsFiniteSet(Peers)
    /\ Self \notin Peers
    /\ Dist \in [Peers -> Nat]
    /\ \A p, q \in Peers : Dist[p] = Dist[q] => p = q
    /\ MaxAlpha \in Nat /\ Alpha \in 1..MaxAlpha
    /\ Beta \in Nat \ {0}
    /\ BucketSize \in Nat \ {0}
    /\ IsKadRTT \in BOOLEAN /\ CanStop \in BOOLEAN
    /\ BucketAlphas \subseteq 1..MaxAlpha /\ BucketAlphas # {}
    /\ BucketBetas \in SUBSET (Nat \ {0}) /\ BucketBetas # {}
    /\ Replies \in [Peers -> SUBSET SUBSET Peers]

VARIABLES
    pc,         \* where the main goroutine is
    alpha,      \* the concurrency this lookup uses, and the buffer of ch
    qstate,     \* QueryPeerset: the state of every peer, "none" if absent
    ch,         \* the buffered channel of queryUpdates
    worker,     \* worker[p]: where the goroutine querying p is
    report,     \* report[p]: the update that worker is about to send
    cancelled,  \* the caller's context is cancelled
    stop,       \* what stopFn() returns now; it need not be sticky
    reason,     \* why the lookup terminated, "none" while it runs
    seeds,      \* q.seedPeers
    rtRemoved,  \* peers handed to peerStoppedDHT by a worker
    rtFound,    \* peers handed to peerFound by a worker
    rtUseful,   \* peers whose LastUsefulAt recordValuablePeers updated
    res,        \* lookupWithFollowupResult
    followup,   \* followup[p]: where the follow-up of p is, or its token from doneCh
    refreshed   \* ResetCplRefreshedAtForID was called

mainVars == <<pc, alpha, qstate, reason, seeds>>
workVars == <<ch, worker, report, rtRemoved, rtFound>>
envVars == <<cancelled, stop>>
endVars == <<rtUseful, res, followup, refreshed>>
vars == <<mainVars, workVars, envVars, endVars>>

PeerState == {"none", "heard", "waiting", "queried", "unreachable"}
WorkerState == {"idle", "dialing", "querying", "reporting"}
Reasons == {"none", "LookupStopped", "LookupCancelled", "LookupStarvation", "LookupCompleted"}
Pcs == {"start", "select", "panic", "join", "check", "followup", "drain", "return", "done"}

queryUpdate ==
    [cause : Peers \cup {Self}, heard : SUBSET Peers,
     queried : SUBSET Peers, unreachable : SUBSET Peers]

NoUpdate == [cause |-> Self, heard |-> {}, queried |-> {}, unreachable |-> {}]
NoResult == [peers |-> {}, pending |-> {}, completed |-> FALSE, failed |-> FALSE]

-----------------------------------------------------------------------------
(* QueryPeerset.  The sorted slice is a set of peers ordered by Dist, and   *)
(* the first n of them are the ones with fewer than n closer ones.          *)

InStates(qs, states) == {p \in Peers : qs[p] \in states}

Closest(n, S) == {p \in S : Cardinality({q \in S : Dist[q] < Dist[p]}) < n}

GetClosestNInStates(qs, n, states) == Closest(n, InStates(qs, states))

NumHeard(qs) == Cardinality(InStates(qs, {"heard"}))
NumWaiting(qs) == Cardinality(InStates(qs, {"waiting"}))

TryAdd(qs, heard) ==
    [p \in Peers |-> IF p \in heard /\ qs[p] = "none" THEN "heard" ELSE qs[p]]

SetState(qs, S, st) == [p \in Peers |-> IF p \in S THEN st ELSE qs[p]]

-----------------------------------------------------------------------------
(* query.go: the decisions of the main goroutine.                           *)

NotUnreachable == {"heard", "waiting", "queried"}

\* The closest b peers that are not unreachable have all answered.
AllQueried(qs, b) ==
    \A p \in GetClosestNInStates(qs, b, NotUnreachable) : qs[p] = "queried"

isLookupTermination(qs) == AllQueried(qs, Beta)

isLookupTerminationKadRTT(qs, bucketBeta) ==
    AllQueried(qs, IF bucketBeta > Beta THEN bucketBeta ELSE Beta)

isStarvationTermination(qs) == NumHeard(qs) = 0 /\ NumWaiting(qs) = 0

\* Mutant: the loop over the heard peers does not count.
PeersToQueryAll(qs, n) == InStates(qs, {"heard"})

\* The loop breaks when its count reaches n: for n = 0 and below it never breaks.
PeersToQuery(qs, n) ==
    IF n <= 0 THEN InStates(qs, {"heard"}) ELSE GetClosestNInStates(qs, n, {"heard"})

\* isReadyToTerminate, in the order of its tests; "none" when not ready.
TerminationReason(qs) ==
    IF stop THEN "LookupStopped"
    ELSE IF isStarvationTermination(qs) THEN "LookupStarvation"
    ELSE IF isLookupTermination(qs) THEN "LookupCompleted"
    ELSE "none"

\* updateState panics unless the peer it moves on is waiting.
ProtocolError(qs, up) == \E p \in up.queried \cup up.unreachable : qs[p] # "waiting"

updateState(qs, up) ==
    SetState(SetState(TryAdd(qs, up.heard), up.queried, "queried"),
             up.unreachable, "unreachable")

\* The context handed to the workers ends with the caller's or with terminate().
PathCancelled == cancelled \/ reason # "none"

-----------------------------------------------------------------------------
Init ==
    /\ pc = "start"
    /\ alpha = Alpha
    /\ qstate = [p \in Peers |-> "none"]
    /\ ch = << >>
    /\ worker = [p \in Peers |-> "idle"]
    /\ report = [p \in Peers |-> NoUpdate]
    /\ cancelled \in BOOLEAN
    /\ stop = FALSE
    /\ reason = "none"
    /\ seeds = {}
    /\ rtRemoved = {} /\ rtFound = {} /\ rtUseful = {}
    /\ res = NoResult
    /\ followup = [p \in Peers |-> "none"]
    /\ refreshed = FALSE

(* runQuery with no seed: kb.ErrLookupFailure.                              *)
RunQueryFails ==
    /\ pc = "start"
    /\ pc' = "done"
    /\ res' = [NoResult EXCEPT !.failed = TRUE]
    /\ UNCHANGED <<alpha, qstate, reason, seeds, workVars, envVars,
                   rtUseful, followup, refreshed>>

(* runQuery up to the select loop of run: seeds from the routing table, the *)
(* concurrency from the target's bucket, the seed update on the channel.    *)
RunQuery ==
    /\ pc = "start"
    /\ \E S \in (SUBSET Peers) \ {{}}, b \in BucketAlphas :
        /\ seeds' = S
        /\ alpha' = IF IsKadRTT /\ b > Alpha THEN b ELSE Alpha
        /\ ch' = << [NoUpdate EXCEPT !.heard = S] >>
    /\ pc' = "select"
    /\ UNCHANGED <<qstate, reason, worker, report, rtRemoved, rtFound, envVars, endVars>>

(* One iteration of run's loop that receives an update: updateState, the    *)
(* termination tests, and the new queries.                                  *)
HandleUpdate ==
    /\ pc = "select"
    /\ ch # << >>
    /\ ch' = Tail(ch)
    /\ LET up == Head(ch)
           qs == updateState(qstate, up)
           why == TerminationReason(qs)
           next == IF why = "none" THEN PeersToQuery(qs, alpha - NumWaiting(qs)) ELSE {}
       IN  /\ pc' = IF ProtocolError(qstate, up) THEN "panic"
                    ELSE IF why = "none" THEN "select" ELSE "join"
           /\ reason' = why
           /\ qstate' = SetState(qs, next, "waiting")
           /\ worker' = [p \in Peers |-> IF p \in next THEN "dialing" ELSE worker[p]]
    /\ UNCHANGED <<alpha, seeds, report, rtRemoved, rtFound, envVars, endVars>>

(* The other branch of the select: the caller's context is done.            *)
HandleCancel ==
    /\ pc = "select"
    /\ cancelled
    /\ reason' = "LookupCancelled"
    /\ pc' = "join"
    /\ UNCHANGED <<alpha, qstate, seeds, workVars, envVars, endVars>>

-----------------------------------------------------------------------------
(* queryPeer, the worker goroutine of peer p.                               *)

DialSucceeds(p) ==
    /\ worker[p] = "dialing"
    /\ worker' = [worker EXCEPT ![p] = "querying"]
    /\ UNCHANGED <<mainVars, ch, report, rtRemoved, rtFound, envVars, endVars>>

\* A failed dial or a failed RPC: the peer leaves the routing table, unless the
\* failure may be due to the cancellation.
QueryFails(p) ==
    /\ worker[p] \in {"dialing", "querying"}
    /\ worker' = [worker EXCEPT ![p] = "reporting"]
    /\ report' = [report EXCEPT ![p] = [NoUpdate EXCEPT !.cause = p, !.unreachable = {p}]]
    /\ rtRemoved' = IF PathCancelled THEN rtRemoved ELSE rtRemoved \cup {p}
    /\ UNCHANGED <<mainVars, ch, rtFound, envVars, endVars>>

QuerySucceeds(p) ==
    /\ worker[p] = "querying"
    /\ \E S \in Replies[p] :
        report' = [report EXCEPT ![p] = [NoUpdate EXCEPT !.cause = p, !.heard = S, !.queried = {p}]]
    /\ worker' = [worker EXCEPT ![p] = "reporting"]
    /\ rtFound' = rtFound \cup {p}
    /\ UNCHANGED <<mainVars, ch, rtRemoved, envVars, endVars>>

\* Mutant: the channel has one place too few.
ReportSmallBuffer(p) ==
    /\ worker[p] = "reporting"
    /\ Len(ch) < alpha - 1
    /\ ch' = Append(ch, report[p])
    /\ worker' = [worker EXCEPT ![p] = "idle"]
    /\ report' = [report EXCEPT ![p] = NoUpdate]
    /\ UNCHANGED <<mainVars, rtRemoved, rtFound, envVars, endVars>>

\* ch <- update, then the deferred waitGroup.Done.
Report(p) ==
    /\ worker[p] = "reporting"
    /\ Len(ch) < alpha
    /\ ch' = Append(ch, report[p])
    /\ worker' = [worker EXCEPT ![p] = "idle"]
    /\ report' = [report EXCEPT ![p] = NoUpdate]
    /\ UNCHANGED <<mainVars, rtRemoved, rtFound, envVars, endVars>>

queryPeer(p) == DialSucceeds(p) \/ QueryFails(p) \/ QuerySucceeds(p) \/ Report(p)

-----------------------------------------------------------------------------
(* waitGroup.Wait, recordValuablePeers and constructLookupResult.  Of the   *)
(* seeds that answered the fastest one is always marked useful, the others  *)
(* if they took less than twice as long.                                    *)
ConstructLookupResult ==
    /\ pc = "join"
    /\ \A p \in Peers : worker[p] = "idle"
    /\ LET answered == seeds \cap InStates(qstate, {"queried"})
       IN  IF cancelled THEN rtUseful' = rtUseful
           ELSE \E U \in SUBSET answered : (answered # {} => U # {}) /\ rtUseful' = U
    /\ \E b \in BucketBetas :
        LET top == GetClosestNInStates(qstate, BucketSize, NotUnreachable)
            ended == IF IsKadRTT THEN isLookupTerminationKadRTT(qstate, b)
                                 ELSE isLookupTermination(qstate)
        IN  res' = [peers |-> top,
                    pending |-> {p \in top : qstate[p] \in {"heard", "waiting"}},
                    completed |-> ended \/ isStarvationTermination(qstate),
                    failed |-> FALSE]
    /\ pc' = "check"
    /\ UNCHANGED <<alpha, qstate, reason, seeds, workVars, envVars, followup, refreshed>>

(* runLookupWithFollowup: nothing to follow up, externally stopped, or one  *)
(* goroutine per pending peer.                                              *)
StartFollowup ==
    /\ pc = "check"
    /\ \/ /\ res.pending = {}
          /\ pc' = "return"
          /\ UNCHANGED <<res, followup>>
       \/ /\ res.pending # {}
          /\ cancelled \/ stop
          /\ res' = [res EXCEPT !.completed = FALSE]
          /\ pc' = "return"
          /\ UNCHANGED followup
       \/ /\ res.pending # {}
          /\ ~(cancelled \/ stop)
          /\ followup' = [p \in Peers |-> IF p \in res.pending THEN "running" ELSE "none"]
          /\ pc' = "followup"
          /\ UNCHANGED res
    /\ UNCHANGED <<alpha, qstate, reason, seeds, workVars, envVars, rtUseful, refreshed>>

\* queryFn returns and the goroutine puts its token into doneCh, which has room for all.
FinishFollowup(p) ==
    /\ followup[p] = "running"
    /\ followup' = [followup EXCEPT ![p] = "finished"]
    /\ UNCHANGED <<mainVars, workVars, envVars, rtUseful, res, refreshed>>

\* The processFollowUp loop takes a token.
ReceiveFollowup ==
    /\ pc = "followup"
    /\ \E p \in Peers :
        /\ followup[p] = "finished"
        /\ followup' = [followup EXCEPT ![p] = "received"]
    /\ LET last == \A p \in res.pending : followup'[p] = "received"
       IN  \/ /\ stop
              /\ res' = [res EXCEPT !.completed = @ /\ last]
              /\ pc' = "drain"
           \/ /\ ~stop
              /\ pc' = IF last THEN "drain" ELSE "followup"
              /\ UNCHANGED res
    /\ UNCHANGED <<alpha, qstate, reason, seeds, workVars, envVars, rtUseful, refreshed>>

\* The processFollowUp loop sees the context done.
CancelFollowup ==
    /\ pc = "followup"
    /\ cancelled
    /\ res' = [res EXCEPT !.completed = FALSE]
    /\ pc' = "drain"
    /\ UNCHANGED <<alpha, qstate, reason, seeds, workVars, envVars, rtUseful, followup, refreshed>>

\* Mutant: an incomplete lookup does not wait for its follow-ups.
EndFollowupAtOnce ==
    /\ pc = "drain"
    /\ pc' = "return"
    /\ UNCHANGED <<alpha, qstate, reason, seeds, workVars, envVars, endVars>>

\* An incomplete lookup first takes the tokens of all follow-ups it has not heard from.
EndFollowup ==
    /\ pc = "drain"
    /\ res.completed \/ \A p \in Peers : followup[p] # "running"
    /\ pc' = "return"
    /\ UNCHANGED <<alpha, qstate, reason, seeds, workVars, envVars, endVars>>

(* Mutant: the refresh does not depend on the completed flag.               *)
GetClosestPeersReturnsRefreshed ==
    /\ pc = "return"
    /\ refreshed' = ~cancelled
    /\ pc' = "done"
    /\ UNCHANGED <<alpha, qstate, reason, seeds, workVars, envVars, rtUseful, res, followup>>

(* The end of GetClosestPeers.  FindPeer and FindProviders end alike        *)
(* (refreshRTIfNoShortcut).                                                 *)
GetClosestPeersReturns ==
    /\ pc = "return"
    /\ refreshed' = (~cancelled /\ res.completed)
    /\ pc' = "done"
    /\ UNCHANGED <<alpha, qstate, reason, seeds, workVars, envVars, rtUseful, res, followup>>

-----------------------------------------------------------------------------
(* The caller cancels its context; what stopFn reports changes.             *)

CancelContext ==
    /\ pc # "done"
    /\ ~cancelled
    /\ cancelled' = TRUE
    /\ UNCHANGED <<mainVars, workVars, stop, endVars>>

ChangeStop ==
    /\ CanStop
    /\ pc # "done"
    /\ stop' = ~stop
    /\ UNCHANGED <<mainVars, workVars, cancelled, endVars>>

Main ==
    \/ RunQueryFails \/ RunQuery \/ HandleUpdate \/ HandleCancel
    \/ ConstructLookupResult \/ StartFollowup
    \/ ReceiveFollowup \/ CancelFollowup \/ EndFollowup
    \/ GetClosestPeersReturns

\* The lookup has returned and nothing is left to do.
Returned ==
    /\ pc = "done"
    /\ UNCHANGED vars

Next ==
    \/ Main
    \/ Returned
    \/ \E p \in Peers : queryPeer(p) \/ FinishFollowup(p)
    \/ CancelContext
    \/ ChangeStop

Spec == Init /\ [][Next]_vars

\* The scheduler runs every goroutine that can run; dials and RPCs end, by an
\* answer or by their timeout.
Fairness ==
    /\ WF_vars(Main)
    /\ \A p \in Peers : WF_vars(queryPeer(p)) /\ WF_vars(FinishFollowup(p))

FairSpec == Spec /\ Fairness

-----------------------------------------------------------------------------
(* Every variable holds a value of the type the code gives it.              *)
TypeOK ==
    /\ pc \in Pcs
    /\ alpha \in 1..MaxAlpha
    /\ qstate \in [Peers -> PeerState]
    /\ ch \in Seq(queryUpdate)
    /\ worker \in [Peers -> WorkerState]
    /\ report \in [Peers -> queryUpdate]
    /\ cancelled \in BOOLEAN /\ stop \in BOOLEAN
    /\ reason \in Reasons
    /\ seeds \subseteq Peers
    /\ rtRemoved \subseteq Peers /\ rtFound \subseteq Peers /\ rtUseful \subseteq Peers
    /\ res \in [peers : SUBSET Peers, pending : SUBSET Peers,
                completed : BOOLEAN, failed : BOOLEAN]
    /\ followup \in [Peers -> {"none", "running", "finished", "received"}]
    /\ refreshed \in BOOLEAN

Waiting == InStates(qstate, {"waiting"})

\* The peers whose state an update changes.
Concerns(up) == up.queried \cup up.unreachable

(* What a worker, the channel and the QueryPeerset agree on: every worker   *)
(* and every buffered update belongs to one waiting peer, each waiting peer *)
(* has at most one of them, and at most alpha peers wait.  This is the      *)
(* inductive invariant behind NoWorkerBlocks and NoProtocolPanic.           *)
FlightInv ==
    /\ pc # "panic"
    /\ pc = "start" => ch = << >> /\ Waiting = {}
    /\ \A p \in Peers : worker[p] # "idle" => qstate[p] = "waiting"
    /\ \A p \in Peers : worker[p] = "reporting" =>
            report[p].cause = p /\ Concerns(report[p]) = {p}
    /\ \A i \in DOMAIN ch :
            IF ch[i].cause = Self THEN Concerns(ch[i]) = {} /\ Waiting = {}
            ELSE /\ Concerns(ch[i]) = {ch[i].cause}
                 /\ qstate[ch[i].cause] = "waiting"
                 /\ worker[ch[i].cause] = "idle"
    /\ \A i, j \in DOMAIN ch : ch[i].cause = ch[j].cause => i = j
    /\ NumWaiting(qstate) <= alpha

(* The send that ends a worker never waits: ch always has room for every    *)
(* worker's update, also after the loop has stopped reading it, so          *)
(* waitGroup.Wait at the end of run() cannot wait forever.                  *)
NoWorkerBlocks ==
    \A p \in Peers : worker[p] = "reporting" => Len(ch) < alpha

(* The panics of updateState ("kademlia protocol error") are unreachable:   *)
(* an update always finds the peer it is about in the waiting state.        *)
NoProtocolPanic == pc # "panic"

(* No more than alpha queries are outstanding, although the loop that picks *)
(* the peers to query breaks only when its count equals the quota.          *)
ConcurrencyBound == NumWaiting(qstate) <= alpha

(* A peer is queried at most once in a lookup: its state only moves from    *)
(* heard to waiting to queried or unreachable.                              *)
PeerProgress ==
    [][\A p \in Peers : qstate'[p] # qstate[p] =>
          <<qstate[p], qstate'[p]>> \in
              {<<"none", "heard">>, <<"none", "waiting">>, <<"heard", "waiting">>,
               <<"waiting", "queried">>, <<"waiting", "unreachable">>}]_vars

(* A peer whose query has ended is never queried again: the inductive       *)
(* invariant behind RemovedDidNotAnswer.                                    *)
AnswerInv ==
    /\ \A p \in rtRemoved \cup rtFound :
            worker[p] \in {"idle", "reporting"} /\ qstate[p] \notin {"none", "heard"}
    /\ rtRemoved \cap rtFound = {}

(* A peer removed from the routing table by a failed query is never one     *)
(* that answered in the same lookup.                                        *)
RemovedDidNotAnswer == rtRemoved \cap rtFound = {}

(* How the goroutines, the tokens taken from doneCh and the completed flag  *)
(* relate at each point of the main goroutine: the inductive invariant      *)
(* behind CompletedMeansAllQueried and NothingLeftRunning.                  *)
FollowInv ==
    /\ pc \notin {"select", "join", "panic"} => \A p \in Peers : worker[p] = "idle"
    /\ pc \in {"start", "select", "join", "check"} => \A p \in Peers : followup[p] = "none"
    /\ \A p \in Peers : followup[p] # "none" => p \in res.pending
    /\ pc \in {"followup", "drain"} => \A p \in res.pending : followup[p] # "none"
    /\ pc = "followup" => \E p \in res.pending : followup[p] # "received"
    /\ pc \in {"return", "done"} => \A p \in Peers : followup[p] # "running"
    /\ pc \in {"drain", "return", "done"} /\ res.completed =>
            \A p \in res.pending : followup[p] = "received"
    /\ pc \in {"check", "followup", "drain", "return", "done"} =>
            \A p \in res.peers \ res.pending : qstate[p] = "queried"

(* When the lookup returns complete, queryFn has been run against every     *)
(* peer of the result, by the lookup or by the follow-up, and has ended.    *)
CompletedMeansAllQueried ==
    (pc = "done" /\ res.completed) =>
        \A p \in res.peers : qstate[p] = "queried" \/ followup[p] = "received"

(* The lookup returns only when every goroutine it started has ended.       *)
NothingLeftRunning ==
    pc = "done" => \A p \in Peers : worker[p] = "idle" /\ followup[p] # "running"

(* The refresh time of the target's cpl is reset only by a lookup whose     *)
(* closest Beta peers not unreachable have all answered.                    *)
RefreshedMeansConverged ==
    refreshed => isLookupTermination(qstate) \/ isStarvationTermination(qstate)

(* What the searches that run on a lookup see of it.  It is idle until it   *)
(* has heard of a peer, and ended when the follow-ups it waits for have.    *)

NobodyHeard == \A p \in Peers : qstate[p] = "none"
AllReceived == \A p \in res.pending : followup[p] = "received"
Asked(p) == followup[p] # "none"

place ==
    IF pc \in {"return", "done"} \/ (pc = "drain" /\ AllReceived) THEN "ended"
    ELSE IF pc \in {"followup", "drain"} THEN pc
    ELSE IF NobodyHeard THEN "idle"
    ELSE IF pc = "select" THEN "run" ELSE "join"

\* The peers whose answers have not been handled yet.
Answered ==
    (UNION {ch[i].queried : i \in DOMAIN ch})
        \cup {p \in Peers : worker[p] = "reporting" /\ report[p].queried # {}}

QueryWork(p) ==
    IF worker[p] \in {"dialing", "querying"} THEN "asking"
    ELSE IF p \in Answered THEN "report" ELSE "failed"

FollowupWork == [running |-> "asking", finished |-> "report", received |-> "done"]
SettledWork ==
    [none |-> "heard", heard |-> "heard", queried |-> "done", unreachable |-> "unreachable"]

\* A query that was cut off counts no longer once its peer may be asked again.
queries ==
    [p \in Peers |-> IF Asked(p) THEN FollowupWork[followup[p]]
                     ELSE IF qstate[p] # "waiting" THEN SettledWork[qstate[p]]
                     ELSE IF \E q \in Peers : Asked(q) THEN "heard" ELSE QueryWork(p)]

outcome == IF pc \in {"followup", "drain", "return", "done"} THEN res.peers ELSE {}

Outline == INSTANCE LookupOutline WITH
    alpha <- MaxAlpha, beta <- Beta, bucketSize <- BucketSize,
    ContextsEnd <- TRUE, ctxDone <- cancelled,
    lookup <- place, work <- queries, result <- outcome

(* The lookup is what the searches take it for, LookupOutline: at most as   *)
(* many queries at a time as the largest alpha allows, new ones only when   *)
(* an update arrives, no end before they and the follow-ups are joined, and *)
(* of the result every peer it has is asked again that was not asked to the *)
(* end, unless the lookup was cancelled or stopped.                         *)
KeepsOutline == Outline!LookupInit /\ [][Outline!LookupNext(stop)]_(Outline!lookupVars)

(* A lookup that has started returns: cancellation, a stop function that    *)
(* changes its mind, unreachable peers and late answers do not hang it.     *)
LookupReturns == (pc = "select") ~> (pc = "done")
=============================================================================
