---------------------------- MODULE LookupProofs ----------------------------
(* Proofs about Lookup, for every set of peers, every concurrency, resiliency *)
(* and bucket size, and every answer of the network.                          *)
EXTENDS Lookup, FiniteSetTheorems, WellFoundedInduction, TLAPS

-----------------------------------------------------------------------------
(* The n closest peers of a set are at most n: the number of closer peers is *)
(* an injection into 0..n-1, because no two peers are at the same distance.  *)
LEMMA ClosestBound ==
    ASSUME NEW S \in SUBSET Peers, NEW n \in Nat
    PROVE  /\ Closest(n, S) \subseteq S
           /\ IsFiniteSet(Closest(n, S))
           /\ Cardinality(Closest(n, S)) <= n
<1> DEFINE closer(p) == {q \in S : Dist[q] < Dist[p]}
           f == [p \in Closest(n, S) |-> Cardinality(closer(p))]
<1>1. IsFiniteSet(S)
    BY FS_Subset, LookupAssumption DEF LookupAssumption
<1>2. Closest(n, S) \subseteq S /\ IsFiniteSet(Closest(n, S))
    BY <1>1, FS_Subset DEF Closest
<1>3. \A p \in S : IsFiniteSet(closer(p)) /\ Cardinality(closer(p)) \in Nat
    BY <1>1, FS_Subset, FS_CardinalityType
<1>4. f \in [Closest(n, S) -> 0..(n-1)]
    <2> SUFFICES ASSUME NEW p \in Closest(n, S)
                 PROVE  Cardinality(closer(p)) \in 0..(n-1)
        OBVIOUS
    <2>1. p \in S /\ Cardinality(closer(p)) < n
        BY DEF Closest
    <2> QED
        BY <2>1, <1>3
<1>5. ASSUME NEW p \in Closest(n, S), NEW q \in Closest(n, S), Dist[p] < Dist[q]
      PROVE  Cardinality(closer(p)) < Cardinality(closer(q))
    <2>1. p \in S /\ q \in S /\ p \in Peers /\ q \in Peers
        BY <1>2
    <2>2. /\ \A r \in Peers : Dist[r] \in Nat
          /\ closer(p) \cup {p} \subseteq closer(q)
          /\ p \notin closer(p)
        BY <2>1, <1>5, LookupAssumption DEF LookupAssumption
    <2>3. Cardinality(closer(p) \cup {p}) = Cardinality(closer(p)) + 1
        BY <2>1, <2>2, <1>3, FS_AddElement
    <2>4. Cardinality(closer(p) \cup {p}) <= Cardinality(closer(q))
        BY <2>1, <2>2, <1>3, FS_Subset
    <2> HIDE DEF closer
    <2> QED
        BY <2>1, <2>3, <2>4, <1>3
<1>6. f \in Injection(Closest(n, S), 0..(n-1))
    <2> SUFFICES ASSUME NEW p \in Closest(n, S), NEW q \in Closest(n, S), f[p] = f[q]
                 PROVE  p = q
        BY <1>4 DEF Injection, IsInjective
    <2>1. Dist[p] \in Nat /\ Dist[q] \in Nat /\ p \in Peers /\ q \in Peers
        BY <1>2, LookupAssumption DEF LookupAssumption
    <2>2. ~(Dist[p] < Dist[q]) /\ ~(Dist[q] < Dist[p])
        <3>1. Cardinality(closer(p)) = Cardinality(closer(q)) /\ Cardinality(closer(p)) \in Nat
            BY <1>2, <1>3
        <3> HIDE DEF closer
        <3> QED
            BY <3>1, <1>5
    <2> QED
        BY <2>1, <2>2, LookupAssumption DEF LookupAssumption
<1>7. Cardinality(Closest(n, S)) <= Cardinality(0..(n-1))
    BY <1>6, FS_Injection, FS_Interval
<1>8. Cardinality(0..(n-1)) = n
    BY FS_Interval
<1> QED
    BY <1>2, <1>7, <1>8
-----------------------------------------------------------------------------
(* What one received update does to the QueryPeerset.                        *)

\* updateState moves the peers the update concerns, enters new ones, and leaves the others.
LEMMA UpdateShape ==
    ASSUME NEW qs \in [Peers -> PeerState], NEW up \in queryUpdate
    PROVE  /\ updateState(qs, up) \in [Peers -> PeerState]
           /\ \A p \in Peers : p \notin Concerns(up) /\ qs[p] # "none" =>
                    updateState(qs, up)[p] = qs[p]
           /\ \A p \in Concerns(up) : updateState(qs, up)[p] \in {"queried", "unreachable"}
           /\ \A p \in Peers : updateState(qs, up)[p] = "waiting" =>
                    qs[p] = "waiting" /\ p \notin Concerns(up)
           /\ \A p \in Peers : p \notin Concerns(up) /\ qs[p] = "none" =>
                    updateState(qs, up)[p] \in {"none", "heard"}
BY DEF updateState, SetState, TryAdd, Concerns, PeerState, queryUpdate

(* The peers run() spawns queries for have only been heard of.               *)
LEMMA PeersToQueryHeard ==
    ASSUME NEW qs \in [Peers -> PeerState], NEW n \in Int
    PROVE  PeersToQuery(qs, n) \subseteq InStates(qs, {"heard"})
BY DEF PeersToQuery, GetClosestNInStates, Closest

\* The peers in given states are a finite set, so counting them makes sense.
LEMMA WaitingFinite ==
    ASSUME NEW qs, NEW states
    PROVE  /\ InStates(qs, states) \subseteq Peers
           /\ IsFiniteSet(InStates(qs, states))
           /\ Cardinality(InStates(qs, states)) \in Nat
<1>1. InStates(qs, states) \subseteq Peers
    BY DEF InStates
<1> QED
    BY <1>1, FS_Subset, FS_CardinalityType, LookupAssumption DEF LookupAssumption

\* isReadyToTerminate gives one of the reasons the code names.
LEMMA ReasonType ==
    ASSUME NEW qs PROVE TerminationReason(qs) \in Reasons
BY DEF TerminationReason, Reasons

-----------------------------------------------------------------------------
(* Type correctness.                                                         *)

\* The initial state is well typed.
LEMMA TypeInit == Init => TypeOK
<1> SUFFICES ASSUME Init PROVE TypeOK
    OBVIOUS
<1>1. NoUpdate \in queryUpdate
    BY DEF NoUpdate, queryUpdate
<1>2. res \in [peers : SUBSET Peers, pending : SUBSET Peers,
              completed : BOOLEAN, failed : BOOLEAN]
    BY DEF Init, NoResult
<1>3. ch \in Seq(queryUpdate)
    BY DEF Init
<1>4. alpha \in 1..MaxAlpha
    BY LookupAssumption DEF LookupAssumption, Init
<1> QED
    BY <1>1, <1>2, <1>3, <1>4 DEF Init, TypeOK, Pcs, PeerState, WorkerState, Reasons

\* Starting the query keeps the types.
LEMMA TypeRunQuery == TypeOK /\ RunQuery => TypeOK'
<1> SUFFICES ASSUME TypeOK, RunQuery PROVE TypeOK'
    OBVIOUS
<1>1. PICK S \in (SUBSET Peers) \ {{}}, b \in BucketAlphas :
        /\ seeds' = S
        /\ alpha' = IF IsKadRTT /\ b > Alpha THEN b ELSE Alpha
        /\ ch' = << [NoUpdate EXCEPT !.heard = S] >>
    BY DEF RunQuery
<1>2. alpha' \in 1..MaxAlpha
    BY <1>1, LookupAssumption DEF LookupAssumption
<1>3. [NoUpdate EXCEPT !.heard = S] \in queryUpdate
    BY DEF NoUpdate, queryUpdate
<1>4. ch' \in Seq(queryUpdate)
    BY <1>1, <1>3
<1> QED
    BY <1>1, <1>2, <1>4 DEF RunQuery, TypeOK, Pcs, envVars, endVars

\* An iteration of the select loop keeps the types.
LEMMA TypeHandleUpdate == TypeOK /\ HandleUpdate => TypeOK'
<1> SUFFICES ASSUME TypeOK, HandleUpdate PROVE TypeOK'
    OBVIOUS
<1> DEFINE up == Head(ch)
           qs == updateState(qstate, up)
           why == TerminationReason(qs)
           nxt == IF why = "none" THEN PeersToQuery(qs, alpha - NumWaiting(qs)) ELSE {}
<1>1. up \in queryUpdate /\ ch' \in Seq(queryUpdate)
    BY DEF TypeOK, HandleUpdate
<1>2. qs \in [Peers -> PeerState]
    BY <1>1, UpdateShape DEF TypeOK
<1>3. qstate' \in [Peers -> PeerState]
    <2>1. qstate' = SetState(qs, nxt, "waiting")
        BY DEF HandleUpdate
    <2> HIDE DEF qs, nxt
    <2> QED
        BY <2>1, <1>2 DEF SetState, PeerState
<1>4. worker' \in [Peers -> WorkerState]
    BY DEF HandleUpdate, TypeOK, WorkerState
<1>5. reason' \in Reasons /\ pc' \in Pcs
    BY ReasonType DEF HandleUpdate, Pcs
<1> QED
    BY <1>1, <1>3, <1>4, <1>5 DEF HandleUpdate, TypeOK, envVars, endVars

\* A step of a worker (queryPeer) keeps the types.
LEMMA TypeWorker == \A p \in Peers : TypeOK /\ queryPeer(p) => TypeOK'
<1> SUFFICES ASSUME NEW p \in Peers, TypeOK, queryPeer(p) PROVE TypeOK'
    OBVIOUS
<1>1. CASE DialSucceeds(p)
    BY <1>1 DEF DialSucceeds, TypeOK, mainVars, envVars, endVars, WorkerState
<1>2. CASE QueryFails(p)
    <2>1. [NoUpdate EXCEPT !.cause = p, !.unreachable = {p}] \in queryUpdate
        BY DEF NoUpdate, queryUpdate
    <2> QED
        BY <1>2, <2>1 DEF QueryFails, TypeOK, mainVars, envVars, endVars, WorkerState
<1>3. CASE QuerySucceeds(p)
    <2>1. PICK S \in Replies[p] :
            report' = [report EXCEPT ![p] = [NoUpdate EXCEPT !.cause = p, !.heard = S, !.queried = {p}]]
        BY <1>3 DEF QuerySucceeds
    <2>2. S \in SUBSET Peers
        BY LookupAssumption DEF LookupAssumption
    <2>3. [NoUpdate EXCEPT !.cause = p, !.heard = S, !.queried = {p}] \in queryUpdate
        BY <2>2 DEF NoUpdate, queryUpdate
    <2> QED
        BY <1>3, <2>1, <2>3 DEF QuerySucceeds, TypeOK, mainVars, envVars, endVars, WorkerState
<1>4. CASE Report(p)
    <2>1. NoUpdate \in queryUpdate
        BY DEF NoUpdate, queryUpdate
    <2> QED
        BY <1>4, <2>1 DEF Report, TypeOK, mainVars, envVars, endVars, WorkerState
<1> QED
    BY <1>1, <1>2, <1>3, <1>4 DEF queryPeer

\* Constructing the result and following it up keeps the types.
LEMMA TypeEnd ==
    TypeOK /\ (ConstructLookupResult \/ StartFollowup \/ ReceiveFollowup \/ CancelFollowup
               \/ EndFollowup \/ GetClosestPeersReturns) => TypeOK'
<1> SUFFICES ASSUME TypeOK PROVE
        (ConstructLookupResult \/ StartFollowup \/ ReceiveFollowup \/ CancelFollowup
         \/ EndFollowup \/ GetClosestPeersReturns) => TypeOK'
    OBVIOUS
<1>1. CASE ConstructLookupResult
    <2>1. rtUseful' \subseteq Peers
        BY <1>1 DEF ConstructLookupResult, TypeOK, InStates
    <2>2. res' \in [peers : SUBSET Peers, pending : SUBSET Peers,
                    completed : BOOLEAN, failed : BOOLEAN]
        <3>1. \A b : /\ isLookupTerminationKadRTT(qstate, b) \in BOOLEAN
                     /\ isLookupTermination(qstate) \in BOOLEAN
                     /\ isStarvationTermination(qstate) \in BOOLEAN
            BY DEF isLookupTerminationKadRTT, isLookupTermination, AllQueried,
                   isStarvationTermination
        <3>2. GetClosestNInStates(qstate, BucketSize, NotUnreachable) \subseteq Peers
            BY DEF GetClosestNInStates, Closest, InStates
        <3> QED
            BY <1>1, <3>1, <3>2 DEF ConstructLookupResult
    <2> QED
        BY <1>1, <2>1, <2>2 DEF ConstructLookupResult, TypeOK, Pcs, workVars, envVars
<1>2. CASE StartFollowup
    <2>1. pc' \in Pcs /\ followup' \in [Peers -> {"none", "running", "finished", "received"}]
        BY <1>2 DEF StartFollowup, TypeOK, Pcs
    <2>2. res' \in [peers : SUBSET Peers, pending : SUBSET Peers,
                    completed : BOOLEAN, failed : BOOLEAN]
        BY <1>2 DEF StartFollowup, TypeOK
    <2> QED
        BY <1>2, <2>1, <2>2 DEF StartFollowup, TypeOK, workVars, envVars
<1>3. CASE ReceiveFollowup
    <2> DEFINE c == res.completed /\ \A p \in res.pending : followup'[p] = "received"
    <2>1. c \in BOOLEAN
        OBVIOUS
    <2>2. res' = [res EXCEPT !.completed = c] \/ res' = res
        BY <1>3 DEF ReceiveFollowup
    <2> HIDE DEF c
    <2>3. res' \in [peers : SUBSET Peers, pending : SUBSET Peers,
                    completed : BOOLEAN, failed : BOOLEAN]
        BY <2>1, <2>2 DEF TypeOK
    <2>4. pc' \in Pcs /\ followup' \in [Peers -> {"none", "running", "finished", "received"}]
        BY <1>3 DEF ReceiveFollowup, TypeOK, Pcs
    <2> QED
        BY <1>3, <2>3, <2>4 DEF ReceiveFollowup, TypeOK, workVars, envVars
<1>4. CASE CancelFollowup
    BY <1>4 DEF CancelFollowup, TypeOK, Pcs, workVars, envVars
<1>5. CASE EndFollowup
    BY <1>5 DEF EndFollowup, TypeOK, Pcs, workVars, envVars, endVars
<1>6. CASE GetClosestPeersReturns
    BY <1>6 DEF GetClosestPeersReturns, TypeOK, Pcs, workVars, envVars
<1> QED
    BY <1>1, <1>2, <1>3, <1>4, <1>5, <1>6

\* Every step keeps the types.
LEMMA TypeNext == TypeOK /\ [Next]_vars => TypeOK'
<1> SUFFICES ASSUME TypeOK, [Next]_vars PROVE TypeOK'
    OBVIOUS
<1>1. CASE RunQueryFails
    BY <1>1 DEF RunQueryFails, TypeOK, Pcs, workVars, envVars, NoResult
<1>2. CASE RunQuery
    BY <1>2, TypeRunQuery
<1>3. CASE HandleUpdate
    BY <1>3, TypeHandleUpdate
<1>4. CASE HandleCancel
    BY <1>4 DEF HandleCancel, TypeOK, Pcs, Reasons, workVars, envVars, endVars
<1>5. CASE ConstructLookupResult \/ StartFollowup \/ ReceiveFollowup \/ CancelFollowup
           \/ EndFollowup \/ GetClosestPeersReturns
    BY <1>5, TypeEnd
<1>6. CASE \E p \in Peers : queryPeer(p)
    BY <1>6, TypeWorker
<1>7. CASE \E p \in Peers : FinishFollowup(p)
    BY <1>7 DEF FinishFollowup, TypeOK, mainVars, workVars, envVars
<1>8. CASE CancelContext \/ ChangeStop
    BY <1>8 DEF CancelContext, ChangeStop, TypeOK, mainVars, workVars, endVars
<1>9. CASE UNCHANGED vars
    BY <1>9 DEF TypeOK, vars, mainVars, workVars, envVars, endVars
<1> QED
    BY <1>1, <1>2, <1>3, <1>4, <1>5, <1>6, <1>7, <1>8, <1>9 DEF Next, Main, Returned

(* Every behaviour of the lookup is type correct.                            *)
THEOREM TypeCorrect == Spec => []TypeOK
BY TypeInit, TypeNext, PTL DEF Spec
-----------------------------------------------------------------------------
(* The channel has room for every update.  Waiting peers are the resource:   *)
(* each worker and each buffered update owns one of them.                    *)

\* The elements of ch are updates, indexed from 1 to its length.
LEMMA ChannelElements ==
    ASSUME TypeOK
    PROVE  /\ DOMAIN ch = 1..Len(ch) /\ Len(ch) \in Nat
           /\ \A i \in 1..Len(ch) : ch[i] \in queryUpdate /\ ch[i].cause \in Peers \cup {Self}
<1>1. ch \in Seq(queryUpdate)
    BY DEF TypeOK
<1>2. DOMAIN ch = 1..Len(ch) /\ Len(ch) \in Nat /\ \A i \in 1..Len(ch) : ch[i] \in queryUpdate
    BY <1>1
<1> QED
    BY <1>2 DEF queryUpdate

\* Nothing is in flight at first.
LEMMA FlightInit == Init => FlightInv
<1> SUFFICES ASSUME Init PROVE FlightInv
    OBVIOUS
<1>1. Waiting = {}
    BY DEF Init, Waiting, InStates
<1>2. NumWaiting(qstate) = 0
    BY <1>1, FS_EmptySet DEF NumWaiting, Waiting
<1> QED
    BY <1>1, <1>2, LookupAssumption DEF Init, FlightInv, LookupAssumption

\* A step that touches neither the workers nor what they share.
LEMMA FlightFrame ==
    ASSUME FlightInv, UNCHANGED <<alpha, qstate, ch, worker, report>>,
           pc' # "panic", pc' = "start" => pc = "start"
    PROVE  FlightInv'
BY DEF FlightInv, Waiting, InStates, NumWaiting, Concerns

\* The seed update is the only one in ch when the query starts.
LEMMA FlightRunQuery == TypeOK /\ FlightInv /\ RunQuery => FlightInv'
<1> SUFFICES ASSUME TypeOK, FlightInv, RunQuery PROVE FlightInv'
    OBVIOUS
<1>1. Waiting = {} /\ Waiting' = {}
    BY DEF FlightInv, RunQuery, Waiting, InStates
<1>2. PICK S \in SUBSET Peers : ch' = << [NoUpdate EXCEPT !.heard = S] >>
    BY DEF RunQuery
<1>3. DOMAIN ch' = {1} /\ ch'[1].cause = Self /\ Concerns(ch'[1]) = {}
    BY <1>2 DEF NoUpdate, Concerns
<1>4. NumWaiting(qstate') = 0
    BY <1>1, FS_EmptySet DEF NumWaiting, Waiting
<1>5. alpha' \in Nat
    BY TypeRunQuery DEF TypeOK
<1>6. pc' = "select" /\ 0 <= alpha' /\ UNCHANGED <<qstate, worker, report>>
    BY <1>5 DEF RunQuery
<1> QED
    BY <1>1, <1>3, <1>4, <1>6 DEF FlightInv

\* The update an iteration of the select loop handles, and what it makes of the QueryPeerset.
Update == Head(ch)
Updated == updateState(qstate, Update)
NextPeers ==
    IF TerminationReason(Updated) = "none"
    THEN PeersToQuery(Updated, alpha - NumWaiting(Updated)) ELSE {}

\* It frees the peer it is about, and no more peers are picked than may wait.
LEMMA UpdateFacts ==
    ASSUME TypeOK, FlightInv, HandleUpdate
    PROVE  LET W == InStates(Updated, {"waiting"}) IN
           /\ /\ Update \in queryUpdate
              /\ Updated \in [Peers -> PeerState]
              /\ qstate' = SetState(Updated, NextPeers, "waiting")
              /\ worker' = [p \in Peers |-> IF p \in NextPeers THEN "dialing" ELSE worker[p]]
              /\ ch' = Tail(ch)
              /\ Len(ch) >= 1
              /\ Update = ch[1]
              /\ DOMAIN ch = 1..Len(ch)
           /\ /\ \A p \in Peers : p \notin Concerns(Update) /\ qstate[p] # "none" =>
                        Updated[p] = qstate[p]
              /\ W = Waiting \ Concerns(Update)
           /\ /\ IsFiniteSet(Waiting) /\ Cardinality(Waiting) \in Nat /\ Cardinality(Waiting) <= alpha
              /\ IsFiniteSet(W) /\ Cardinality(W) \in Nat /\ NumWaiting(Updated) = Cardinality(W)
           /\ /\ ~ProtocolError(qstate, Update)
              /\ Cardinality(W) <= alpha - 1
           /\ /\ NextPeers \subseteq InStates(Updated, {"heard"})
              /\ IsFiniteSet(NextPeers) /\ Cardinality(NextPeers) <= alpha - Cardinality(W)
              /\ Cardinality(NextPeers) \in Nat
<1> DEFINE up == Head(ch)
           qs == updateState(qstate, up)
           W == InStates(qs, {"waiting"})
           why == TerminationReason(qs)
           nxt == IF why = "none" THEN PeersToQuery(qs, alpha - NumWaiting(qs)) ELSE {}
<1>1. /\ up \in queryUpdate
      /\ qs \in [Peers -> PeerState]
      /\ qstate' = SetState(qs, nxt, "waiting")
      /\ worker' = [p \in Peers |-> IF p \in nxt THEN "dialing" ELSE worker[p]]
      /\ ch' = Tail(ch)
      /\ Len(ch) >= 1
      /\ up = ch[1]
      /\ DOMAIN ch = 1..Len(ch)
    <2>1. ch \in Seq(queryUpdate) /\ ch # << >>
        BY DEF HandleUpdate, TypeOK
    <2>2. up \in queryUpdate /\ Len(ch) >= 1 /\ up = ch[1] /\ DOMAIN ch = 1..Len(ch)
        BY <2>1
    <2>3. qs \in [Peers -> PeerState]
        BY <2>2, UpdateShape DEF TypeOK
    <2>4. /\ qstate' = SetState(qs, nxt, "waiting")
          /\ worker' = [p \in Peers |-> IF p \in nxt THEN "dialing" ELSE worker[p]]
          /\ ch' = Tail(ch)
        BY DEF HandleUpdate
    <2> QED
        BY <2>2, <2>3, <2>4
<1>2. /\ \A p \in Peers : p \notin Concerns(up) /\ qstate[p] # "none" => qs[p] = qstate[p]
      /\ W = Waiting \ Concerns(up)
    <2>1. /\ \A p \in Peers : p \notin Concerns(up) /\ qstate[p] # "none" => qs[p] = qstate[p]
          /\ \A p \in Peers : qs[p] = "waiting" => qstate[p] = "waiting" /\ p \notin Concerns(up)
        BY <1>1, UpdateShape DEF TypeOK
    <2> HIDE DEF qs, up
    <2> QED
        BY <2>1 DEF Waiting, InStates
<1>3. /\ IsFiniteSet(Waiting) /\ Cardinality(Waiting) \in Nat /\ Cardinality(Waiting) <= alpha
      /\ IsFiniteSet(W) /\ Cardinality(W) \in Nat /\ NumWaiting(qs) = Cardinality(W)
    BY WaitingFinite DEF Waiting, FlightInv, NumWaiting
<1>4. /\ ~ProtocolError(qstate, up)
      /\ Cardinality(W) <= alpha - 1
    <2>1. CASE up.cause = Self
        <3>1. Concerns(up) = {} /\ Waiting = {}
            BY <1>1, <2>1 DEF FlightInv
        <3>2. Cardinality(W) = 0
            BY <3>1, <1>2, FS_EmptySet
        <3> QED
            BY <3>1, <3>2 DEF ProtocolError, Concerns, TypeOK
    <2>2. CASE up.cause # Self
        <3>1. /\ Concerns(up) = {up.cause} /\ qstate[up.cause] = "waiting"
              /\ up.cause \in Peers
            BY <1>1, <2>2 DEF FlightInv, queryUpdate
        <3>2. up.cause \in Waiting
            BY <3>1 DEF Waiting, InStates
        <3>3. Cardinality(W) = Cardinality(Waiting) - 1
            BY <3>1, <3>2, <1>2, <1>3, FS_RemoveElement
        <3> QED
            BY <3>1, <3>3, <1>3 DEF ProtocolError, Concerns, TypeOK
    <2> QED
        BY <2>1, <2>2
<1>5. /\ nxt \subseteq InStates(qs, {"heard"})
      /\ IsFiniteSet(nxt) /\ Cardinality(nxt) <= alpha - Cardinality(W)
      /\ Cardinality(nxt) \in Nat
    <2>1. alpha - NumWaiting(qs) \in Nat \ {0}
        BY <1>3, <1>4 DEF TypeOK
    <2>2. CASE why = "none"
        <3>1. nxt = Closest(alpha - NumWaiting(qs), InStates(qs, {"heard"}))
            BY <2>1, <2>2 DEF PeersToQuery, GetClosestNInStates
        <3>2. InStates(qs, {"heard"}) \in SUBSET Peers
            BY WaitingFinite
        <3> DEFINE n == alpha - NumWaiting(qs)
        <3>3. n \in Nat /\ n = alpha - Cardinality(W)
            BY <2>1, <1>3
        <3> HIDE DEF n, nxt, W
        <3>4. nxt \subseteq InStates(qs, {"heard"}) /\ IsFiniteSet(nxt) /\ Cardinality(nxt) <= n
            BY <3>1, <3>2, <3>3, ClosestBound DEF n
        <3> QED
            BY <3>3, <3>4, FS_CardinalityType
    <2>3. CASE why # "none"
        <3>1. nxt = {}
            BY <2>3
        <3> QED
            <4>1. IsFiniteSet(nxt) /\ Cardinality(nxt) = 0
                BY <3>1, FS_EmptySet
            <4>2. alpha \in Nat
                BY DEF TypeOK
            <4> HIDE DEF nxt, W
            <4> QED
                BY <3>1, <4>1, <4>2, <1>3, <1>4
    <2> QED
        BY <2>2, <2>3
<1> HIDE DEF up, qs, W, why, nxt
<1>6. up = Update /\ qs = Updated /\ nxt = NextPeers /\ W = InStates(Updated, {"waiting"})
    BY DEF up, qs, W, why, nxt, Update, Updated, NextPeers
<1> QED
    BY <1>1, <1>2, <1>3, <1>4, <1>5, <1>6

\* Receiving an update frees its peer, and at most alpha peers wait afterwards.
LEMMA FlightUpdate == TypeOK /\ FlightInv /\ HandleUpdate => FlightInv'
<1> SUFFICES ASSUME TypeOK, FlightInv, HandleUpdate PROVE FlightInv'
    OBVIOUS
<1> DEFINE up == Head(ch)
           qs == updateState(qstate, up)
           W == InStates(qs, {"waiting"})
           why == TerminationReason(qs)
           nxt == IF why = "none" THEN PeersToQuery(qs, alpha - NumWaiting(qs)) ELSE {}
<1>1. /\ up \in queryUpdate
      /\ qs \in [Peers -> PeerState]
      /\ qstate' = SetState(qs, nxt, "waiting")
      /\ worker' = [p \in Peers |-> IF p \in nxt THEN "dialing" ELSE worker[p]]
      /\ ch' = Tail(ch)
      /\ Len(ch) >= 1
      /\ up = ch[1]
      /\ DOMAIN ch = 1..Len(ch)
    BY UpdateFacts DEF Update, Updated, NextPeers
<1>2. /\ \A p \in Peers : p \notin Concerns(up) /\ qstate[p] # "none" => qs[p] = qstate[p]
      /\ W = Waiting \ Concerns(up)
    BY UpdateFacts DEF Update, Updated, NextPeers
<1>3. /\ IsFiniteSet(Waiting) /\ Cardinality(Waiting) \in Nat /\ Cardinality(Waiting) <= alpha
      /\ IsFiniteSet(W) /\ Cardinality(W) \in Nat /\ NumWaiting(qs) = Cardinality(W)
    BY UpdateFacts DEF Update, Updated, NextPeers
<1>4. /\ ~ProtocolError(qstate, up)
      /\ Cardinality(W) <= alpha - 1
    BY UpdateFacts DEF Update, Updated, NextPeers
<1>5. /\ nxt \subseteq InStates(qs, {"heard"})
      /\ IsFiniteSet(nxt) /\ Cardinality(nxt) <= alpha - Cardinality(W)
      /\ Cardinality(nxt) \in Nat
    BY UpdateFacts DEF Update, Updated, NextPeers
<1>6. Waiting' = W \cup nxt
    <2> HIDE DEF qs, nxt
    <2> QED
        BY <1>1, <1>5 DEF Waiting, InStates, SetState
<1>7. NumWaiting(qstate') <= alpha'
    <2>1. Cardinality(W \cup nxt) <= Cardinality(W) + Cardinality(nxt)
        <3>1. Cardinality(W \cap nxt) \in Nat
            BY <1>3, FS_Intersection, FS_CardinalityType
        <3> HIDE DEF W, nxt
        <3>2. Cardinality(W \cup nxt) = Cardinality(W) + Cardinality(nxt) - Cardinality(W \cap nxt)
            BY <1>3, <1>5, FS_Union
        <3> QED
            BY <3>1, <3>2, <1>3, <1>5
    <2>2. alpha' = alpha /\ alpha \in Nat /\ Cardinality(W \cup nxt) \in Nat
        <3>1. alpha' = alpha /\ alpha \in Nat
            BY DEF HandleUpdate, TypeOK
        <3> HIDE DEF W, nxt
        <3> QED
            BY <3>1, <1>3, <1>5, FS_Union, FS_CardinalityType
    <2>3. NumWaiting(qstate') = Cardinality(W \cup nxt)
        BY <1>6 DEF NumWaiting, Waiting
    <2> HIDE DEF W, nxt
    <2> QED
        BY <2>1, <2>2, <2>3, <1>3, <1>5
<1>8. /\ DOMAIN ch' = 1..(Len(ch) - 1)
      /\ \A i \in DOMAIN ch' : i + 1 \in DOMAIN ch /\ ch'[i] = ch[i + 1]
    BY <1>1 DEF TypeOK
<1>9. ASSUME NEW p \in Peers, qstate[p] = "waiting", p \notin Concerns(up)
      PROVE  qstate'[p] = "waiting" /\ worker'[p] = worker[p]
    <2>1. qs[p] = "waiting"
        BY <1>2, <1>9
    <2>2. p \notin nxt
        BY <2>1, <1>5 DEF InStates
    <2> HIDE DEF qs, nxt
    <2> QED
        BY <2>1, <2>2, <1>1 DEF SetState
<1>10. pc' # "panic" /\ pc' # "start"
    BY <1>4 DEF HandleUpdate
<1>11. \A p \in Peers : worker'[p] # "idle" => qstate'[p] = "waiting"
    <2> SUFFICES ASSUME NEW p \in Peers, worker'[p] # "idle" PROVE qstate'[p] = "waiting"
        OBVIOUS
    <2>1. CASE p \in nxt
        <3> HIDE DEF qs, nxt
        <3> QED
            BY <2>1, <1>1 DEF SetState
    <2>2. CASE p \notin nxt
        <3>1. worker[p] # "idle" /\ qstate[p] = "waiting"
            <4> HIDE DEF nxt
            <4> QED
                BY <2>2, <1>1 DEF FlightInv
        <3>2. p \notin Concerns(up)
            BY <3>1, <1>1 DEF FlightInv, Concerns
        <3> QED
            BY <3>1, <3>2, <1>9
    <2> QED
        BY <2>1, <2>2
<1>12. \A p \in Peers : worker'[p] = "reporting" =>
            report'[p].cause = p /\ Concerns(report'[p]) = {p}
    <2> HIDE DEF qs, nxt
    <2> QED
        BY <1>1 DEF FlightInv, HandleUpdate
<1>13. \A i \in DOMAIN ch' :
            /\ ch'[i].cause # Self
            /\ Concerns(ch'[i]) = {ch'[i].cause}
            /\ qstate'[ch'[i].cause] = "waiting"
            /\ worker'[ch'[i].cause] = "idle"
    <2> SUFFICES ASSUME NEW i \in DOMAIN ch'
                 PROVE  /\ ch'[i].cause # Self
                        /\ Concerns(ch'[i]) = {ch'[i].cause}
                        /\ qstate'[ch'[i].cause] = "waiting"
                        /\ worker'[ch'[i].cause] = "idle"
        OBVIOUS
    <2> DEFINE m == ch[i + 1]
    <2>1. ch'[i] = m /\ i + 1 \in DOMAIN ch /\ i + 1 # 1 /\ m \in queryUpdate /\ 1 \in DOMAIN ch
        BY <1>1, <1>8 DEF TypeOK
    <2>2. m.cause # up.cause
        BY <1>1, <2>1 DEF FlightInv
    <2>3. m.cause # Self
        <3> SUFFICES ASSUME m.cause = Self PROVE FALSE
            OBVIOUS
        <3>1. Waiting = {} /\ up.cause # Self
            BY <2>1, <2>2 DEF FlightInv
        <3>2. qstate[up.cause] = "waiting" /\ up.cause \in Peers
            BY <3>1, <2>1, <1>1 DEF FlightInv, queryUpdate
        <3> QED
            BY <3>1, <3>2 DEF Waiting, InStates
    <2>4. /\ Concerns(m) = {m.cause} /\ qstate[m.cause] = "waiting" /\ worker[m.cause] = "idle"
          /\ m.cause \in Peers
        BY <2>1, <2>3 DEF FlightInv, queryUpdate
    <2>5. m.cause \notin Concerns(up)
        BY <2>1, <2>2, <1>1 DEF FlightInv
    <2> QED
        BY <2>1, <2>3, <2>4, <2>5, <1>9
<1>14. \A i, j \in DOMAIN ch' : ch'[i].cause = ch'[j].cause => i = j
    <2> SUFFICES ASSUME NEW i \in DOMAIN ch', NEW j \in DOMAIN ch', ch'[i].cause = ch'[j].cause
                 PROVE  i = j
        OBVIOUS
    <2>1. i + 1 = j + 1
        BY <1>8 DEF FlightInv
    <2> QED
        BY <2>1, <1>8
<1> HIDE DEF up, qs, W, why, nxt
<1> QED
    BY <1>7, <1>10, <1>11, <1>12, <1>13, <1>14 DEF FlightInv

\* A worker keeps its waiting peer until the main goroutine receives its update.
LEMMA FlightWorker == \A p \in Peers : TypeOK /\ FlightInv /\ queryPeer(p) => FlightInv'
<1> SUFFICES ASSUME NEW p \in Peers, TypeOK, FlightInv, queryPeer(p) PROVE FlightInv'
    OBVIOUS
<1>1. UNCHANGED <<pc, alpha, qstate>> /\ Waiting' = Waiting /\ NumWaiting(qstate') = NumWaiting(qstate)
    BY DEF queryPeer, DialSucceeds, QueryFails, QuerySucceeds, Report, mainVars,
           Waiting, InStates, NumWaiting
<1>2. worker[p] # "idle" /\ qstate[p] = "waiting" /\ p # Self /\ pc # "start"
    BY LookupAssumption
    DEF queryPeer, DialSucceeds, QueryFails, QuerySucceeds, Report, FlightInv,
        LookupAssumption, Waiting, InStates
<1>3. \A i \in DOMAIN ch : ch[i].cause # Self /\ ch[i].cause # p /\ ch[i].cause \in Peers
    <2> SUFFICES ASSUME NEW i \in DOMAIN ch
                 PROVE  ch[i].cause # Self /\ ch[i].cause # p /\ ch[i].cause \in Peers
        OBVIOUS
    <2>1. Waiting # {}
        BY <1>2 DEF Waiting, InStates
    <2>2. ch[i].cause # Self
        BY <2>1 DEF FlightInv
    <2> QED
        BY <2>2, <1>2, ChannelElements DEF FlightInv
<1>4. CASE DialSucceeds(p) \/ QueryFails(p) \/ QuerySucceeds(p)
    <2>1. /\ ch' = ch
          /\ worker'[p] # "idle"
          /\ \A q \in Peers : q # p => worker'[q] = worker[q] /\ report'[q] = report[q]
        BY <1>4 DEF DialSucceeds, QueryFails, QuerySucceeds, TypeOK
    <2>2. worker'[p] = "reporting" => report'[p].cause = p /\ Concerns(report'[p]) = {p}
        <3>1. CASE DialSucceeds(p)
            BY <3>1 DEF DialSucceeds, TypeOK
        <3>2. CASE QueryFails(p)
            <4>1. report'[p] = [NoUpdate EXCEPT !.cause = p, !.unreachable = {p}]
                BY <3>2 DEF QueryFails, TypeOK
            <4> QED
                BY <4>1 DEF Concerns, NoUpdate
        <3>3. CASE QuerySucceeds(p)
            <4>1. \E S \in Replies[p] :
                    report'[p] = [NoUpdate EXCEPT !.cause = p, !.heard = S, !.queried = {p}]
                BY <3>3 DEF QuerySucceeds, TypeOK
            <4> QED
                BY <4>1 DEF Concerns, NoUpdate
        <3> QED
            BY <1>4, <3>1, <3>2, <3>3
    <2> QED
        BY <1>1, <1>2, <1>3, <2>1, <2>2 DEF FlightInv
<1>5. CASE Report(p)
    <2>1. /\ worker'[p] = "idle"
          /\ \A q \in Peers : q # p => worker'[q] = worker[q] /\ report'[q] = report[q]
          /\ report[p].cause = p /\ Concerns(report[p]) = {p}
        BY <1>5 DEF Report, TypeOK, FlightInv
    <2>2. /\ DOMAIN ch' = 1..(Len(ch) + 1) /\ DOMAIN ch = 1..Len(ch) /\ Len(ch) \in Nat
          /\ ch'[Len(ch) + 1] = report[p]
          /\ \A i \in DOMAIN ch : ch'[i] = ch[i]
        BY <1>5 DEF Report, TypeOK
    <2>3. \A i \in DOMAIN ch' : i \in DOMAIN ch \/ i = Len(ch) + 1
        BY <2>2
    <2>4. \A i, j \in DOMAIN ch' : ch'[i].cause = ch'[j].cause => i = j
        BY <2>1, <2>2, <2>3, <1>3 DEF FlightInv
    <2>5. \A i \in DOMAIN ch' :
            /\ ch'[i].cause # Self
            /\ Concerns(ch'[i]) = {ch'[i].cause}
            /\ qstate'[ch'[i].cause] = "waiting"
            /\ worker'[ch'[i].cause] = "idle"
        BY <2>1, <2>2, <2>3, <1>1, <1>2, <1>3 DEF FlightInv
    <2> QED
        BY <1>1, <1>2, <2>1, <2>4, <2>5 DEF FlightInv
<1> QED
    BY <1>4, <1>5 DEF queryPeer

\* Every step keeps FlightInv.
LEMMA FlightNext == TypeOK /\ FlightInv /\ [Next]_vars => FlightInv'
<1> SUFFICES ASSUME TypeOK, FlightInv, [Next]_vars PROVE FlightInv'
    OBVIOUS
<1>1. CASE RunQuery
    BY <1>1, FlightRunQuery
<1>2. CASE HandleUpdate
    BY <1>2, FlightUpdate
<1>3. CASE \E p \in Peers : queryPeer(p)
    BY <1>3, FlightWorker
<1>4. CASE RunQueryFails \/ HandleCancel \/ ConstructLookupResult \/ StartFollowup
    BY <1>4, FlightFrame
    DEF RunQueryFails, HandleCancel, ConstructLookupResult, StartFollowup, workVars
<1>5. CASE ReceiveFollowup \/ CancelFollowup \/ EndFollowup \/ GetClosestPeersReturns
    BY <1>5, FlightFrame
    DEF ReceiveFollowup, CancelFollowup, EndFollowup, GetClosestPeersReturns, workVars
<1>6. CASE (\E p \in Peers : FinishFollowup(p)) \/ CancelContext \/ ChangeStop
           \/ UNCHANGED vars
    <2>1. pc' = pc /\ UNCHANGED <<alpha, qstate, ch, worker, report>>
        BY <1>6 DEF FinishFollowup, CancelContext, ChangeStop, mainVars,
                    workVars, vars
    <2> QED
        BY <2>1, FlightFrame DEF FlightInv
<1> QED
    BY <1>1, <1>2, <1>3, <1>4, <1>5, <1>6 DEF Next, Main, Returned

(* In every lookup, each worker and each buffered update owns a waiting peer *)
(* and at most alpha peers wait.                                             *)
THEOREM FlightCorrect == Spec => []FlightInv
BY TypeInit, TypeNext, FlightInit, FlightNext, PTL DEF Spec

\* Updates in ch and the reporting worker own different waiting peers, at most alpha in all.
LEMMA FlightRoom == TypeOK /\ FlightInv => NoWorkerBlocks
<1> SUFFICES ASSUME TypeOK, FlightInv, NEW p \in Peers, worker[p] = "reporting"
             PROVE  Len(ch) < alpha
    BY DEF NoWorkerBlocks
<1> DEFINE T == Waiting \ {p}
           f == [i \in 1..Len(ch) |-> ch[i].cause]
<1>1. p \in Waiting
    BY DEF FlightInv, Waiting, InStates
<1>2. \A i \in 1..Len(ch) : ch[i].cause \in T
    <2> SUFFICES ASSUME NEW i \in 1..Len(ch) PROVE ch[i].cause \in T
        OBVIOUS
    <2>1. ch[i].cause # Self /\ i \in DOMAIN ch /\ ch[i].cause \in Peers
        BY <1>1, ChannelElements DEF FlightInv
    <2>2. qstate[ch[i].cause] = "waiting" /\ worker[ch[i].cause] = "idle"
        BY <2>1 DEF FlightInv
    <2> QED
        BY <2>1, <2>2 DEF Waiting, InStates
<1>3. f \in Injection(1..Len(ch), T)
    BY <1>2 DEF Injection, IsInjective, FlightInv, TypeOK
<1>4. /\ IsFiniteSet(Waiting) /\ Cardinality(Waiting) \in Nat /\ Cardinality(Waiting) <= alpha
    BY WaitingFinite DEF Waiting, FlightInv, NumWaiting
<1>5. IsFiniteSet(T) /\ Cardinality(T) = Cardinality(Waiting) - 1
    BY <1>1, <1>4, FS_RemoveElement
<1>6. Cardinality(1..Len(ch)) <= Cardinality(T)
    BY <1>3, <1>5, FS_Injection
<1>7. Cardinality(1..Len(ch)) = Len(ch) /\ Len(ch) \in Nat
    <2>1. Len(ch) \in Nat
        BY ChannelElements
    <2>2. 1 \in Int /\ Len(ch) \in Int
        BY <2>1
    <2>3. Cardinality(1..Len(ch)) = IF 1 > Len(ch) THEN 0 ELSE Len(ch) - 1 + 1
        BY <2>2, FS_Interval
    <2> QED
        BY <2>1, <2>3
<1> HIDE DEF T
<1> QED
    BY <1>4, <1>5, <1>6, <1>7 DEF TypeOK

(* A worker's last send never blocks, so run() can always join its workers.  *)
THEOREM WorkersNeverBlock == Spec => []NoWorkerBlocks
BY TypeCorrect, FlightCorrect, FlightRoom, PTL

(* updateState never panics.                                                 *)
THEOREM NeverPanics == Spec => []NoProtocolPanic
<1>1. FlightInv => NoProtocolPanic
    BY DEF FlightInv, NoProtocolPanic
<1> QED
    BY <1>1, FlightCorrect, PTL

(* At most alpha queries are outstanding.                                    *)
THEOREM ConcurrencyIsBounded == Spec => []ConcurrencyBound
<1>1. FlightInv => ConcurrencyBound
    BY DEF FlightInv, ConcurrencyBound
<1> QED
    BY <1>1, FlightCorrect, PTL
-----------------------------------------------------------------------------
(* A peer is queried at most once.                                           *)

\* How one iteration of the select loop moves a single peer.
LEMMA UpdateMoves ==
    ASSUME TypeOK, FlightInv, HandleUpdate, NEW p \in Peers
    PROVE  \/ qstate'[p] = qstate[p] /\ worker'[p] = worker[p]
           \/ qstate[p] = "none" /\ qstate'[p] = "heard" /\ worker'[p] = worker[p]
           \/ qstate[p] \in {"none", "heard"} /\ qstate'[p] = "waiting" /\ worker'[p] = "dialing"
           \/ /\ qstate[p] = "waiting" /\ qstate'[p] \in {"queried", "unreachable"}
              /\ worker'[p] = worker[p]
<1> DEFINE up == Head(ch)
           qs == updateState(qstate, up)
           why == TerminationReason(qs)
           nxt == IF why = "none" THEN PeersToQuery(qs, alpha - NumWaiting(qs)) ELSE {}
<1>1. ch \in Seq(queryUpdate) /\ ch # << >>
    BY DEF HandleUpdate, TypeOK
<1>2. up \in queryUpdate /\ up = ch[1] /\ 1 \in DOMAIN ch
    BY <1>1
<1>3. \A q \in Concerns(up) : qstate[q] = "waiting"
    BY <1>2 DEF FlightInv
<1>4. /\ qs \in [Peers -> PeerState]
      /\ p \notin Concerns(up) /\ qstate[p] # "none" => qs[p] = qstate[p]
      /\ p \in Concerns(up) => qs[p] \in {"queried", "unreachable"}
      /\ p \notin Concerns(up) /\ qstate[p] = "none" => qs[p] \in {"none", "heard"}
    BY <1>2, UpdateShape DEF TypeOK
<1>5. p \in nxt => qs[p] = "heard"
    <2>1. alpha - NumWaiting(qs) \in Int
        BY WaitingFinite DEF NumWaiting, TypeOK
    <2>2. PeersToQuery(qs, alpha - NumWaiting(qs)) \subseteq InStates(qs, {"heard"})
        BY <2>1, <1>4, PeersToQueryHeard
    <2> QED
        BY <2>2 DEF InStates
<1>6. /\ qstate'[p] = IF p \in nxt THEN "waiting" ELSE qs[p]
      /\ worker'[p] = IF p \in nxt THEN "dialing" ELSE worker[p]
    BY DEF HandleUpdate, SetState
<1> HIDE DEF up, qs, why, nxt
<1> QED
    BY <1>3, <1>4, <1>5, <1>6

\* Only the select loop changes the QueryPeerset.
LEMMA OnlyUpdateMoves == [Next]_vars => HandleUpdate \/ qstate' = qstate
BY DEF Next, Main, vars, mainVars, RunQueryFails, RunQuery, HandleCancel,
       ConstructLookupResult, StartFollowup, ReceiveFollowup, CancelFollowup,
       EndFollowup, GetClosestPeersReturns, Returned, queryPeer, DialSucceeds, QueryFails,
       QuerySucceeds, Report, FinishFollowup, CancelContext, ChangeStop

(* A peer's state only moves from heard to waiting to queried or unreachable, *)
(* so no lookup queries a peer twice.                                         *)
THEOREM PeersProgress == Spec => PeerProgress
<1> DEFINE Moves == {<<"none", "heard">>, <<"none", "waiting">>, <<"heard", "waiting">>,
                     <<"waiting", "queried">>, <<"waiting", "unreachable">>}
           Step == \A p \in Peers : qstate'[p] # qstate[p] => <<qstate[p], qstate'[p]>> \in Moves
<1>1. TypeOK /\ FlightInv /\ [Next]_vars => Step
    <2> SUFFICES ASSUME TypeOK, FlightInv, [Next]_vars,
                        NEW p \in Peers, qstate'[p] # qstate[p]
                 PROVE  <<qstate[p], qstate'[p]>> \in Moves
        OBVIOUS
    <2>1. HandleUpdate
        BY OnlyUpdateMoves
    <2> QED
        BY <2>1, UpdateMoves
<1>2. TypeOK /\ FlightInv /\ [Next]_vars => [Step]_vars
    BY <1>1
<1> HIDE DEF Step
<1>3. Spec => [][Step]_vars
    BY <1>2, TypeCorrect, FlightCorrect, PTL DEF Spec
<1> QED
    BY <1>3 DEF PeerProgress, Step

\* Every step keeps AnswerInv.
LEMMA AnswerNext == TypeOK /\ FlightInv /\ AnswerInv /\ [Next]_vars => AnswerInv'
<1> SUFFICES ASSUME TypeOK, FlightInv, AnswerInv, [Next]_vars PROVE AnswerInv'
    OBVIOUS
<1>1. CASE HandleUpdate
    <2>1. UNCHANGED <<rtRemoved, rtFound>>
        BY <1>1 DEF HandleUpdate
    <2> SUFFICES ASSUME NEW p \in rtRemoved \cup rtFound
                 PROVE  worker'[p] \in {"idle", "reporting"} /\ qstate'[p] \notin {"none", "heard"}
        BY <2>1 DEF AnswerInv
    <2>2. p \in Peers /\ worker[p] \in {"idle", "reporting"} /\ qstate[p] \notin {"none", "heard"}
        BY DEF AnswerInv, TypeOK
    <2> QED
        BY <1>1, <2>2, UpdateMoves
<1>2. CASE \E p \in Peers : queryPeer(p)
    <2> PICK p \in Peers : queryPeer(p)
        BY <1>2
    <2>0. qstate' = qstate
        BY DEF queryPeer, DialSucceeds, QueryFails, QuerySucceeds, Report, mainVars
    <2>1. CASE worker[p] \in {"dialing", "querying"}
        <3>1. p \notin rtRemoved \cup rtFound /\ qstate[p] = "waiting"
            BY <2>1 DEF AnswerInv, FlightInv
        <3>2. CASE DialSucceeds(p)
            BY <3>1, <3>2, <2>0 DEF DialSucceeds, AnswerInv, TypeOK
        <3>3. CASE QueryFails(p)
            BY <3>1, <3>3, <2>0 DEF QueryFails, AnswerInv, TypeOK
        <3>4. CASE QuerySucceeds(p)
            BY <3>1, <3>4, <2>0 DEF QuerySucceeds, AnswerInv, TypeOK
        <3> QED
            BY <2>1, <3>2, <3>3, <3>4 DEF queryPeer, Report
    <2>2. CASE worker[p] \notin {"dialing", "querying"}
        <3>1. Report(p)
            BY <2>2 DEF queryPeer, DialSucceeds, QueryFails, QuerySucceeds
        <3> QED
            BY <3>1, <2>0 DEF Report, AnswerInv, TypeOK
    <2> QED
        BY <2>1, <2>2
<1>3. CASE UNCHANGED <<qstate, worker, rtRemoved, rtFound>>
    BY <1>3 DEF AnswerInv
<1> QED
    BY <1>1, <1>2, <1>3
    DEF Next, Main, vars, mainVars, workVars, RunQueryFails, RunQuery, HandleCancel,
        ConstructLookupResult, StartFollowup, ReceiveFollowup, CancelFollowup,
        EndFollowup, GetClosestPeersReturns, Returned, FinishFollowup, CancelContext, ChangeStop

(* No lookup removes from the routing table a peer that answered it.         *)
THEOREM RemovedNeverAnswered == Spec => []RemovedDidNotAnswer
<1>1. Init => AnswerInv
    BY DEF Init, AnswerInv
<1>2. AnswerInv => RemovedDidNotAnswer
    BY DEF AnswerInv, RemovedDidNotAnswer
<1> QED
    BY <1>1, <1>2, TypeInit, TypeNext, FlightInit, FlightNext, AnswerNext, PTL DEF Spec
-----------------------------------------------------------------------------
(* The follow-up: every goroutine is joined before the lookup returns.       *)

\* No follow-up runs at first.
LEMMA FollowInit == Init => FollowInv
BY DEF Init, FollowInv, NoResult

\* The workers of the lookup do not touch the follow-up.
LEMMA FollowWorkers == \A p \in Peers : TypeOK /\ FollowInv /\ queryPeer(p) => FollowInv'
<1> SUFFICES ASSUME NEW p \in Peers, TypeOK, FollowInv, queryPeer(p) PROVE FollowInv'
    OBVIOUS
<1>1. worker[p] # "idle"
    BY DEF queryPeer, DialSucceeds, QueryFails, QuerySucceeds, Report
<1>2. pc \in {"select", "join", "panic"}
    BY <1>1 DEF FollowInv
<1>3. UNCHANGED <<pc, qstate, res, followup>>
    BY DEF queryPeer, DialSucceeds, QueryFails, QuerySucceeds, Report, mainVars, endVars
<1> QED
    BY <1>2, <1>3 DEF FollowInv

\* The lookup itself does not touch the follow-up.
LEMMA FollowLookup ==
    TypeOK /\ FollowInv /\ (RunQueryFails \/ RunQuery \/ HandleUpdate \/ HandleCancel) => FollowInv'
<1> SUFFICES ASSUME TypeOK, FollowInv,
                    RunQueryFails \/ RunQuery \/ HandleUpdate \/ HandleCancel
             PROVE  FollowInv'
    OBVIOUS
<1>1. CASE RunQueryFails
    BY <1>1 DEF RunQueryFails, FollowInv, NoResult, workVars
<1>2. CASE RunQuery
    BY <1>2 DEF RunQuery, FollowInv, endVars
<1>3. CASE HandleUpdate
    <2>1. pc = "select" /\ pc' \in {"select", "join", "panic"} /\ UNCHANGED <<res, followup>>
        BY <1>3 DEF HandleUpdate, endVars
    <2> QED
        BY <2>1 DEF FollowInv
<1>4. CASE HandleCancel
    BY <1>4 DEF HandleCancel, FollowInv, endVars
<1> QED
    BY <1>1, <1>2, <1>3, <1>4

\* Every peer of the result that is not pending has been queried.
LEMMA FollowConstruct == TypeOK /\ FollowInv /\ ConstructLookupResult => FollowInv'
<1> SUFFICES ASSUME TypeOK, FollowInv, ConstructLookupResult PROVE FollowInv'
    OBVIOUS
<1>1. /\ pc = "join" /\ pc' = "check"
      /\ UNCHANGED <<qstate, worker, followup>>
      /\ \A p \in Peers : worker[p] = "idle"
    BY DEF ConstructLookupResult, workVars
<1>2. \A p \in res'.peers \ res'.pending : qstate[p] = "queried"
    <2> DEFINE top == GetClosestNInStates(qstate, BucketSize, NotUnreachable)
    <2>1. res'.peers = top /\ res'.pending = {p \in top : qstate[p] \in {"heard", "waiting"}}
        BY DEF ConstructLookupResult
    <2>2. \A p \in top : qstate[p] \in {"heard", "waiting", "queried"}
        BY DEF GetClosestNInStates, Closest, InStates, NotUnreachable
    <2> HIDE DEF top
    <2> QED
        BY <2>1, <2>2
<1>3. \A p \in Peers : followup[p] = "none"
    BY <1>1 DEF FollowInv
<1> QED
    BY <1>1, <1>2, <1>3 DEF FollowInv

\* One follow-up is started for each pending peer, or none.
LEMMA FollowStart == TypeOK /\ FollowInv /\ StartFollowup => FollowInv'
<1> SUFFICES ASSUME TypeOK, FollowInv, StartFollowup PROVE FollowInv'
    OBVIOUS
<1>1. /\ pc = "check" /\ UNCHANGED <<qstate, worker>>
      /\ \A p \in Peers : worker[p] = "idle" /\ followup[p] = "none"
      /\ \A p \in res.peers \ res.pending : qstate[p] = "queried"
    BY DEF StartFollowup, FollowInv, workVars
<1>2. CASE pc' = "return"
    <2>1. /\ followup' = followup /\ res'.pending = res.pending /\ res'.peers = res.peers
          /\ res'.completed => res.pending = {}
        BY <1>2 DEF StartFollowup, TypeOK
    <2> QED
        BY <1>1, <1>2, <2>1 DEF FollowInv
<1>3. CASE pc' # "return"
    <2>1. /\ pc' = "followup" /\ res' = res /\ res.pending # {}
          /\ followup' = [p \in Peers |-> IF p \in res.pending THEN "running" ELSE "none"]
        BY <1>3 DEF StartFollowup
    <2>2. res.pending \subseteq Peers
        BY DEF TypeOK
    <2> QED
        BY <1>1, <2>1, <2>2 DEF FollowInv
<1> QED
    BY <1>2, <1>3

\* A token is taken from doneCh, or the loop that takes them ends.
LEMMA FollowReceive ==
    TypeOK /\ FollowInv /\ (ReceiveFollowup \/ CancelFollowup) => FollowInv'
<1> SUFFICES ASSUME TypeOK, FollowInv, ReceiveFollowup \/ CancelFollowup
             PROVE  FollowInv'
    OBVIOUS
<1>1. /\ UNCHANGED <<qstate, worker>>
      /\ pc = "followup"
      /\ res'.pending = res.pending /\ res'.peers = res.peers
      /\ res.pending \subseteq Peers
    BY DEF ReceiveFollowup, CancelFollowup, workVars, mainVars, TypeOK
<1>2. CASE ReceiveFollowup
    <2>1. PICK p \in Peers : /\ followup[p] = "finished"
                            /\ followup' = [followup EXCEPT ![p] = "received"]
        BY <1>2 DEF ReceiveFollowup
    <2>2. \A q \in Peers : followup'[q] # "none" <=> followup[q] # "none"
        BY <2>1 DEF TypeOK
    <2> DEFINE last == \A q \in res.pending : followup'[q] = "received"
    <2>3. \/ pc' = "drain" /\ res' = [res EXCEPT !.completed = @ /\ last]
          \/ pc' = IF last THEN "drain" ELSE "followup"
        BY <1>2 DEF ReceiveFollowup
    <2> HIDE DEF last
    <2>4. \/ pc' = "followup" /\ ~last
          \/ pc' = "drain" /\ (res'.completed => last)
        BY <2>3 DEF TypeOK
    <2> QED
        BY <1>1, <2>2, <2>4 DEF FollowInv, last
<1>3. CASE CancelFollowup
    <2>1. pc' = "drain" /\ ~res'.completed /\ followup' = followup
        BY <1>3 DEF CancelFollowup, TypeOK
    <2> QED
        BY <1>1, <2>1 DEF FollowInv
<1> QED
    BY <1>2, <1>3

\* The main goroutine leaves the follow-up only when all of it has ended.
LEMMA FollowEnd == TypeOK /\ FollowInv /\ (EndFollowup \/ GetClosestPeersReturns) => FollowInv'
<1> SUFFICES ASSUME TypeOK, FollowInv, EndFollowup \/ GetClosestPeersReturns PROVE FollowInv'
    OBVIOUS
<1>1. CASE EndFollowup
    <2>1. \A p \in Peers : followup[p] # "running"
        BY <1>1 DEF EndFollowup, FollowInv
    <2> QED
        BY <1>1, <2>1 DEF EndFollowup, FollowInv, workVars, endVars
<1>2. CASE GetClosestPeersReturns
    BY <1>2 DEF GetClosestPeersReturns, FollowInv, workVars
<1> QED
    BY <1>1, <1>2

\* A follow-up that ends leaves its token.
LEMMA FollowFinish ==
    \A p \in Peers : TypeOK /\ FlightInv /\ FollowInv /\ FinishFollowup(p) => FollowInv'
<1> SUFFICES ASSUME NEW p \in Peers, TypeOK, FlightInv, FollowInv, FinishFollowup(p)
             PROVE  FollowInv'
    OBVIOUS
<1>1. /\ UNCHANGED <<pc, qstate, worker, res>>
      /\ followup[p] = "running"
      /\ followup' = [followup EXCEPT ![p] = "finished"]
    BY DEF FinishFollowup, mainVars, workVars
<1>2. \A q \in Peers : /\ followup'[q] # "none" <=> followup[q] # "none"
                       /\ followup'[q] = "received" <=> followup[q] = "received"
    BY <1>1 DEF TypeOK
<1>3. pc \in {"followup", "drain"}
    <2>1. pc \notin {"start", "select", "join", "check", "return", "done"}
        BY <1>1 DEF FollowInv
    <2>2. pc # "panic"
        BY DEF FlightInv
    <2> QED
        BY <2>1, <2>2 DEF TypeOK, Pcs
<1>4. res.pending \subseteq Peers
    BY DEF TypeOK
<1> QED
    BY <1>1, <1>2, <1>3, <1>4 DEF FollowInv

\* Every step keeps FollowInv.
LEMMA FollowNext == TypeOK /\ FlightInv /\ FollowInv /\ [Next]_vars => FollowInv'
<1> SUFFICES ASSUME TypeOK, FlightInv, FollowInv, [Next]_vars PROVE FollowInv'
    OBVIOUS
<1>1. CASE CancelContext \/ ChangeStop \/ UNCHANGED vars
    <2>1. UNCHANGED <<pc, qstate, worker, res, followup>>
        BY <1>1 DEF CancelContext, ChangeStop, vars, mainVars, workVars, endVars
    <2> QED
        BY <2>1 DEF FollowInv
<1> QED
    BY <1>1, FollowWorkers, FollowLookup, FollowConstruct, FollowStart, FollowReceive, FollowEnd,
       FollowFinish
    DEF Next, Main, Returned

(* The tokens taken from doneCh and the completed flag always tell which     *)
(* follow-ups have ended.                                                    *)
THEOREM FollowCorrect == Spec => []FollowInv
BY TypeInit, TypeNext, FlightInit, FlightNext, FollowInit, FollowNext, PTL DEF Spec

(* The lookup joins every worker and every follow-up before it returns.      *)
THEOREM LookupJoinsAll == Spec => []NothingLeftRunning
<1>1. FollowInv => NothingLeftRunning
    BY DEF FollowInv, NothingLeftRunning
<1> QED
    BY <1>1, FollowCorrect, PTL

(* Of a result reported complete, every peer has been queried to the end.    *)
THEOREM CompletedIsQueried == Spec => []CompletedMeansAllQueried
<1>1. TypeOK /\ FollowInv => CompletedMeansAllQueried
    BY DEF FollowInv, CompletedMeansAllQueried, TypeOK
<1> QED
    BY <1>1, TypeCorrect, FollowCorrect, PTL
-----------------------------------------------------------------------------
(* Convergence.                                                              *)

\* What has converged for more peers has for fewer.
LEMMA AllQueriedFewer ==
    ASSUME NEW qs, NEW m \in Nat, NEW n \in Nat, n <= m, AllQueried(qs, m)
    PROVE  AllQueried(qs, n)
<1> DEFINE S == InStates(qs, NotUnreachable)
           closer(p) == {q \in S : Dist[q] < Dist[p]}
<1>1. \A p \in S : Cardinality(closer(p)) \in Nat
    <2>1. IsFiniteSet(S)
        BY WaitingFinite
    <2> QED
        BY <2>1, FS_Subset, FS_CardinalityType
<1>2. \A p \in S : Cardinality(closer(p)) < n => Cardinality(closer(p)) < m
    <2> HIDE DEF closer
    <2> QED
        BY <1>1
<1>3. Closest(n, S) \subseteq Closest(m, S)
    BY <1>2 DEF Closest
<1> QED
    BY <1>3 DEF AllQueried, GetClosestNInStates

Converged(qs) == isLookupTermination(qs) \/ isStarvationTermination(qs)

(* The completed flag is set only when the lookup has converged, and the     *)
(* QueryPeerset does not change after that.                                  *)
ConvergeInv ==
    /\ res.completed =>
            pc \in {"check", "followup", "drain", "return", "done"} /\ Converged(qstate)
    /\ refreshed => pc = "done" /\ res.completed

\* The result is complete only if the lookup has converged, also with the beta of a bucket.
LEMMA ConvergeConstruct ==
    ASSUME TypeOK, ConvergeInv, ConstructLookupResult
    PROVE  ConvergeInv'
<1>1. pc = "join" /\ pc' = "check" /\ UNCHANGED <<qstate, refreshed>>
    BY DEF ConstructLookupResult
<1> DEFINE top == GetClosestNInStates(qstate, BucketSize, NotUnreachable)
           ended(c) == IF IsKadRTT THEN isLookupTerminationKadRTT(qstate, c)
                                   ELSE isLookupTermination(qstate)
<1>2. PICK b \in BucketBetas :
        res' = [peers |-> top,
                pending |-> {p \in top : qstate[p] \in {"heard", "waiting"}},
                completed |-> ended(b) \/ isStarvationTermination(qstate),
                failed |-> FALSE]
    BY Zenon DEF ConstructLookupResult
<1>3. res'.completed = (ended(b) \/ isStarvationTermination(qstate))
    BY <1>2, Zenon
<1>4. Beta \in Nat /\ b \in Nat
    BY LookupAssumption DEF LookupAssumption
<1>5. isLookupTerminationKadRTT(qstate, b) => isLookupTermination(qstate)
    <2>1. CASE b > Beta
        BY <1>4, <2>1, AllQueriedFewer DEF isLookupTerminationKadRTT, isLookupTermination
    <2>2. CASE ~(b > Beta)
        BY <2>2 DEF isLookupTerminationKadRTT, isLookupTermination
    <2> QED
        BY <2>1, <2>2
<1> QED
    BY <1>1, <1>5, <1>3 DEF ConvergeInv, Converged

\* Every step keeps ConvergeInv.
LEMMA ConvergeNext == TypeOK /\ ConvergeInv /\ [Next]_vars => ConvergeInv'
<1> SUFFICES ASSUME TypeOK, ConvergeInv, [Next]_vars PROVE ConvergeInv'
    OBVIOUS
<1> USE DEF mainVars, endVars, TypeOK
<1>1. CASE RunQueryFails
    BY <1>1 DEF RunQueryFails, ConvergeInv, NoResult
<1>2. CASE RunQuery \/ HandleUpdate \/ HandleCancel
    BY <1>2 DEF RunQuery, HandleUpdate, HandleCancel, ConvergeInv
<1>3. CASE StartFollowup
    BY <1>3 DEF StartFollowup, ConvergeInv
<1>4. CASE ReceiveFollowup
    BY <1>4 DEF ReceiveFollowup, ConvergeInv
<1>5. CASE CancelFollowup \/ EndFollowup \/ GetClosestPeersReturns
    BY <1>5 DEF CancelFollowup, EndFollowup, GetClosestPeersReturns, ConvergeInv
<1>6. CASE CancelContext \/ ChangeStop \/ UNCHANGED vars
    BY <1>6 DEF CancelContext, ChangeStop, vars, ConvergeInv
<1>7. ASSUME NEW p \in Peers, queryPeer(p) \/ FinishFollowup(p) PROVE ConvergeInv'
    <2>1. UNCHANGED <<pc, qstate, res, refreshed>>
        BY <1>7 DEF queryPeer, DialSucceeds, QueryFails, QuerySucceeds, Report, FinishFollowup
    <2> QED
        BY <2>1 DEF ConvergeInv
<1> QED
    BY <1>1, <1>2, <1>3, <1>4, <1>5, <1>6, <1>7, ConvergeConstruct DEF Next, Main, Returned

(* The refresh time of the target's cpl is reset only by a lookup that has   *)
(* converged, whichever beta its bucket had when the result was made.        *)
THEOREM RefreshedHasConverged == Spec => []RefreshedMeansConverged
<1>1. Init => ConvergeInv
    BY DEF Init, ConvergeInv, NoResult
<1>2. ConvergeInv => RefreshedMeansConverged
    BY DEF ConvergeInv, Converged, RefreshedMeansConverged
<1> QED
    BY <1>1, <1>2, ConvergeNext, TypeCorrect, PTL DEF Spec
-----------------------------------------------------------------------------
(* The lookup implements LookupOutline: as the searches that run on it see   *)
(* it, every step of its goroutines is a step of the outline or none.        *)

\* A set of natural numbers has a least one.
LEMMA LeastNumber ==
    ASSUME NEW S \in SUBSET Nat, S # {}
    PROVE  \E x \in S : \A y \in S : x <= y
<1>1. PICK x \in S : \A y \in S : ~(<<y, x>> \in OpToRel(<, Nat))
    BY WFMin, NatLessThanWellFounded
<1>2. \A y \in S : ~(y < x)
    BY <1>1 DEF OpToRel
<1> QED
    BY <1>2

\* The n closest peers of a set are n, unless there are fewer.
LEMMA ClosestFull ==
    ASSUME NEW S \in SUBSET Peers, NEW n \in Nat, Closest(n, S) # S
    PROVE  Cardinality(Closest(n, S)) = n
<1> DEFINE C == Closest(n, S)
           closer(p) == {q \in S : Dist[q] < Dist[p]}
           D == {Dist[p] : p \in S \ C}
<1>1. /\ C \subseteq S /\ IsFiniteSet(C) /\ Cardinality(C) <= n /\ Cardinality(C) \in Nat
      /\ \A p \in S : Dist[p] \in Nat
    BY ClosestBound, FS_CardinalityType, LookupAssumption DEF LookupAssumption
<1>2. PICK p \in S \ C : \A q \in S \ C : Dist[p] <= Dist[q]
    <2>1. D \in SUBSET Nat /\ D # {}
        BY <1>1
    <2>2. PICK x \in D : \A y \in D : x <= y
        <3> HIDE DEF D
        <3> QED
            BY <2>1, LeastNumber
    <2> QED
        BY <2>2
<1>3. closer(p) \subseteq C
    BY <1>1, <1>2
<1>4. IsFiniteSet(closer(p)) /\ Cardinality(closer(p)) <= Cardinality(C) /\ Cardinality(closer(p)) \in Nat
    <2> HIDE DEF C, closer
    <2> QED
        BY <1>1, <1>3, FS_Subset, FS_CardinalityType
<1>5. ~(Cardinality(closer(p)) < n)
    BY <1>2 DEF Closest
<1> HIDE DEF C, closer
<1>6. Cardinality(C) = n
    BY <1>1, <1>4, <1>5
<1> QED
    BY <1>6 DEF C

(* What the outline relies on: nobody is heard of before the seed update is  *)
(* handled, which comes first; an update says of a peer that it answered or  *)
(* that it did not; and the result follows from the QueryPeerset.            *)
OutlineInv ==
    /\ pc = "start" => NobodyHeard
    /\ pc = "select" /\ NobodyHeard =>
            \E S \in (SUBSET Peers) \ {{}} : ch = << [NoUpdate EXCEPT !.heard = S] >>
    /\ ~NobodyHeard => \A i \in DOMAIN ch : ch[i].cause # Self
    /\ \A p \in Peers : worker[p] = "reporting" =>
            report[p].queried = {} \/ report[p].unreachable = {}
    /\ \A i \in DOMAIN ch : ch[i].queried = {} \/ ch[i].unreachable = {}
    /\ pc = "check" =>
            /\ res.peers = GetClosestNInStates(qstate, BucketSize, NotUnreachable)
            /\ res.pending = {p \in res.peers : qstate[p] \in {"heard", "waiting"}}

\* The first update to be handled is the seed update.
LEMMA SeedUpdate ==
    ASSUME TypeOK, OutlineInv, HandleUpdate, NobodyHeard
    PROVE  /\ Concerns(Update) = {} /\ ch' = << >>
           /\ \E S \in (SUBSET Peers) \ {{}} :
                Updated = [p \in Peers |-> IF p \in S THEN "heard" ELSE "none"]
<1>1. PICK S \in (SUBSET Peers) \ {{}} : ch = << [NoUpdate EXCEPT !.heard = S] >>
    BY DEF HandleUpdate, OutlineInv
<1>2. Update = [NoUpdate EXCEPT !.heard = S] /\ ch' = << >>
    BY <1>1 DEF Update, HandleUpdate
<1>3. Update.heard = S /\ Update.queried = {} /\ Update.unreachable = {}
    BY <1>2 DEF NoUpdate
<1>4. Updated = [p \in Peers |-> IF p \in S THEN "heard" ELSE "none"]
    BY <1>3 DEF Updated, updateState, TryAdd, SetState, NobodyHeard
<1> QED
    BY <1>2, <1>3, <1>4 DEF Concerns

\* After an update somebody has been heard of.
LEMMA HeardAfterUpdate ==
    ASSUME TypeOK, FlightInv, OutlineInv, HandleUpdate
    PROVE  ~NobodyHeard'
<1>1. CASE NobodyHeard
    <2>1. PICK S \in (SUBSET Peers) \ {{}} :
                Updated = [p \in Peers |-> IF p \in S THEN "heard" ELSE "none"]
        BY <1>1, SeedUpdate
    <2>2. PICK p \in Peers : p \in S
        OBVIOUS
    <2>3. qstate' = SetState(Updated, NextPeers, "waiting")
        BY UpdateFacts
    <2>4. Updated[p] = "heard"
        BY <2>1, <2>2
    <2>5. qstate'[p] # "none"
        BY <2>2, <2>3, <2>4 DEF SetState
    <2> QED
        BY <2>2, <2>5 DEF NobodyHeard
<1>2. CASE ~NobodyHeard
    <2>1. PICK p \in Peers : qstate[p] # "none"
        BY <1>2 DEF NobodyHeard
    <2>2. qstate'[p] # "none"
        BY <2>1, UpdateMoves
    <2> QED
        BY <2>2 DEF NobodyHeard
<1> QED
    BY <1>1, <1>2

\* Receiving an update keeps OutlineInv.
LEMMA OutlineUpdate == TypeOK /\ FlightInv /\ OutlineInv /\ HandleUpdate => OutlineInv'
<1> SUFFICES ASSUME TypeOK, FlightInv, OutlineInv, HandleUpdate PROVE OutlineInv'
    OBVIOUS
<1>1. ~NobodyHeard'
    BY HeardAfterUpdate
<1>2. pc' \in {"select", "join", "panic"} /\ UNCHANGED report
    BY DEF HandleUpdate
<1>3. \A p \in Peers : worker'[p] = "reporting" => worker[p] = "reporting"
    BY UpdateMoves
<1>4. /\ \A i \in DOMAIN ch' : i + 1 \in DOMAIN ch /\ ch'[i] = ch[i + 1]
      /\ NobodyHeard => ch' = << >>
    <2>1. ch' = Tail(ch) /\ ch \in Seq(queryUpdate) /\ ch # << >>
        BY DEF HandleUpdate, TypeOK
    <2> QED
        BY <2>1, SeedUpdate
<1>5. \A i \in DOMAIN ch' :
        ch'[i].cause # Self /\ (ch'[i].queried = {} \/ ch'[i].unreachable = {})
    <2>1. CASE NobodyHeard
        BY <1>4, <2>1
    <2>2. CASE ~NobodyHeard
        BY <1>4, <2>2 DEF OutlineInv
    <2> QED
        BY <2>1, <2>2
<1> QED
    BY <1>1, <1>2, <1>3, <1>5 DEF OutlineInv

\* So does a step of a worker.
LEMMA OutlineWorker ==
    \A p \in Peers : TypeOK /\ FlightInv /\ OutlineInv /\ queryPeer(p) => OutlineInv'
<1> SUFFICES ASSUME NEW p \in Peers, TypeOK, FlightInv, OutlineInv, queryPeer(p)
             PROVE  OutlineInv'
    OBVIOUS
<1>1. UNCHANGED <<pc, qstate, res>> /\ NobodyHeard' = NobodyHeard
    BY DEF queryPeer, DialSucceeds, QueryFails, QuerySucceeds, Report, mainVars, endVars, NobodyHeard
<1>2. ~NobodyHeard
    BY DEF queryPeer, DialSucceeds, QueryFails, QuerySucceeds, Report, FlightInv, NobodyHeard
<1>3. CASE DialSucceeds(p)
    BY <1>1, <1>2, <1>3 DEF DialSucceeds, OutlineInv, TypeOK
<1>4. CASE QueryFails(p)
    <2>1. report'[p].queried = {}
        BY <1>4 DEF QueryFails, NoUpdate, TypeOK
    <2> QED
        BY <1>1, <1>2, <1>4, <2>1 DEF QueryFails, OutlineInv, TypeOK
<1>5. CASE QuerySucceeds(p)
    <2>1. report'[p].unreachable = {}
        BY <1>5 DEF QuerySucceeds, NoUpdate, TypeOK
    <2> QED
        BY <1>1, <1>2, <1>5, <2>1 DEF QuerySucceeds, OutlineInv, TypeOK
<1>6. CASE Report(p)
    <2>1. /\ worker[p] = "reporting" /\ report[p].cause = p /\ p # Self
          /\ worker'[p] = "idle"
          /\ \A q \in Peers : q # p => worker'[q] = worker[q] /\ report'[q] = report[q]
        BY <1>6, LookupAssumption DEF Report, FlightInv, TypeOK, LookupAssumption
    <2>2. /\ \A i \in DOMAIN ch' : i \in DOMAIN ch \/ i = Len(ch) + 1
          /\ ch'[Len(ch) + 1] = report[p]
          /\ \A i \in DOMAIN ch : ch'[i] = ch[i]
        BY <1>6 DEF Report, TypeOK
    <2> QED
        BY <1>1, <1>2, <2>1, <2>2 DEF OutlineInv
<1> QED
    BY <1>3, <1>4, <1>5, <1>6 DEF queryPeer

\* Every step keeps OutlineInv.
LEMMA OutlineNext == TypeOK /\ FlightInv /\ OutlineInv /\ [Next]_vars => OutlineInv'
<1> SUFFICES ASSUME TypeOK, FlightInv, OutlineInv, [Next]_vars PROVE OutlineInv'
    OBVIOUS
<1>1. CASE RunQuery
    <2>1. PICK S \in (SUBSET Peers) \ {{}} : ch' = << [NoUpdate EXCEPT !.heard = S] >>
        BY <1>1 DEF RunQuery
    <2>2. NobodyHeard /\ NobodyHeard' /\ pc' = "select" /\ UNCHANGED <<worker, report>>
        BY <1>1 DEF RunQuery, OutlineInv, NobodyHeard
    <2>3. DOMAIN ch' = {1} /\ ch'[1].queried = {}
        BY <2>1 DEF NoUpdate
    <2> QED
        BY <2>1, <2>2, <2>3 DEF OutlineInv
<1>2. CASE ConstructLookupResult
    <2>1. /\ pc' = "check" /\ UNCHANGED <<qstate, ch, worker, report>>
          /\ res'.peers = GetClosestNInStates(qstate, BucketSize, NotUnreachable)
          /\ res'.pending = {p \in res'.peers : qstate[p] \in {"heard", "waiting"}}
        BY <1>2 DEF ConstructLookupResult, workVars
    <2> QED
        BY <2>1 DEF OutlineInv, NobodyHeard
<1>3. CASE RunQueryFails \/ HandleCancel \/ StartFollowup
           \/ ReceiveFollowup \/ CancelFollowup \/ EndFollowup \/ GetClosestPeersReturns
    <2>1. pc' \notin {"start", "select", "check"} /\ UNCHANGED <<qstate, ch, worker, report>>
        BY <1>3 DEF RunQueryFails, HandleCancel, StartFollowup, ReceiveFollowup, CancelFollowup,
                    EndFollowup, GetClosestPeersReturns, workVars
    <2> QED
        BY <2>1 DEF OutlineInv, NobodyHeard
<1>4. CASE (\E p \in Peers : FinishFollowup(p)) \/ CancelContext \/ ChangeStop \/ UNCHANGED vars
    <2>1. UNCHANGED <<pc, qstate, ch, worker, report, res>>
        BY <1>4 DEF FinishFollowup, CancelContext, ChangeStop, mainVars, workVars, endVars, vars
    <2> QED
        BY <2>1 DEF OutlineInv, NobodyHeard
<1> QED
    BY <1>1, <1>2, <1>3, <1>4, OutlineUpdate, OutlineWorker DEF Next, Main, Returned

\* How the outline sees the queries before the follow-up.
LEMMA QueriesOfLookup ==
    ASSUME TypeOK, \A p \in Peers : followup[p] = "none", NEW p \in Peers
    PROVE  queries[p] = IF qstate[p] = "waiting" THEN QueryWork(p)
                        ELSE IF qstate[p] = "queried" THEN "done"
                        ELSE IF qstate[p] = "unreachable" THEN "unreachable" ELSE "heard"
<1>1. /\ qstate[p] \in {"none", "heard", "waiting", "queried", "unreachable"}
      /\ \A q \in Peers : ~Asked(q)
    BY DEF TypeOK, PeerState, Asked
<1>2. /\ SettledWork["none"] = "heard" /\ SettledWork["heard"] = "heard"
      /\ SettledWork["queried"] = "done" /\ SettledWork["unreachable"] = "unreachable"
    BY DEF SettledWork
<1> QED
    BY <1>1, <1>2 DEF queries

\* The sets of peers it distinguishes, there and then.
LEMMA OutlineSets ==
    ASSUME TypeOK, \A p \in Peers : followup[p] = "none"
    PROVE  /\ Outline!InFlight = Waiting
           /\ Outline!At("heard") = InStates(qstate, {"none", "heard"})
           /\ Outline!At("done") = InStates(qstate, {"queried"})
           /\ Outline!At("unreachable") = InStates(qstate, {"unreachable"})
           /\ Outline!At("send") = {}
<1>1. \A p \in Peers :
        /\ queries[p] = IF qstate[p] = "waiting" THEN QueryWork(p)
                        ELSE IF qstate[p] = "queried" THEN "done"
                        ELSE IF qstate[p] = "unreachable" THEN "unreachable" ELSE "heard"
        /\ qstate[p] \in {"none", "heard", "waiting", "queried", "unreachable"}
        /\ QueryWork(p) \in {"asking", "report", "failed"}
    BY QueriesOfLookup DEF TypeOK, PeerState, QueryWork
<1> QED
    BY <1>1 DEF Outline!InFlight, Outline!At, Waiting, InStates

\* A step that leaves the queries alone.
LEMMA QueriesKept ==
    ASSUME UNCHANGED <<qstate, followup>>,
           \A p \in Peers : qstate[p] = "waiting" => QueryWork(p)' = QueryWork(p)
    PROVE  UNCHANGED queries
BY DEF queries, Asked

\* No follow-up, and no lookup with a worker, before the one and after the other.
LEMMA LookupPhase ==
    ASSUME FlightInv, FollowInv
    PROVE  /\ pc \in {"start", "select", "join", "check"} => \A p \in Peers : followup[p] = "none"
           /\ \A p \in Peers : worker[p] # "idle" => pc \in {"select", "join"} /\ ~NobodyHeard
<1>1. \A p \in Peers : worker[p] # "idle" => pc \in {"select", "join"}
    BY DEF FlightInv, FollowInv
<1>2. \A p \in Peers : worker[p] # "idle" => ~NobodyHeard
    BY DEF FlightInv, NobodyHeard
<1> QED
    BY <1>1, <1>2 DEF FollowInv

\* What the outline does not show.
OutlineStep == Outline!LookupNext(stop) \/ UNCHANGED <<place, queries, outcome>>

LEMMA OutlineRunQuery == TypeOK /\ FlightInv /\ FollowInv /\ OutlineInv /\ RunQuery => OutlineStep
<1> SUFFICES ASSUME TypeOK, FlightInv, FollowInv, OutlineInv, RunQuery PROVE OutlineStep
    OBVIOUS
<1>1. /\ pc = "start" /\ pc' = "select" /\ UNCHANGED <<qstate, followup>> /\ NobodyHeard
    BY DEF RunQuery, endVars, OutlineInv
<1>2. NobodyHeard' = NobodyHeard
    BY <1>1 DEF NobodyHeard
<1>3. UNCHANGED queries
    BY <1>1, QueriesKept DEF NobodyHeard
<1>4. place = "idle" /\ place' = "idle" /\ UNCHANGED outcome
    BY <1>1, <1>2 DEF place, outcome
<1> QED
    BY <1>3, <1>4 DEF OutlineStep

\* Without a seed the lookup ends at once.
LEMMA OutlineFails == TypeOK /\ FollowInv /\ OutlineInv /\ RunQueryFails => OutlineStep
<1> SUFFICES ASSUME TypeOK, FollowInv, OutlineInv, RunQueryFails PROVE OutlineStep
    OBVIOUS
<1>1. /\ pc = "start" /\ pc' = "done" /\ UNCHANGED <<qstate, followup, ch, worker, report>>
      /\ NobodyHeard /\ res'.peers = {}
    BY DEF RunQueryFails, workVars, OutlineInv, NoResult
<1>2. UNCHANGED queries
    BY <1>1, QueriesKept DEF NobodyHeard
<1>3. place = "idle" /\ place' = "ended" /\ UNCHANGED outcome
    BY <1>1 DEF place, outcome
<1> QED
    BY <1>2, <1>3 DEF OutlineStep, Outline!LookupNext, Outline!LookupStart

\* Cancelled while it runs, or before it has heard of anybody.
LEMMA OutlineCancel == TypeOK /\ OutlineInv /\ HandleCancel => OutlineStep
<1> SUFFICES ASSUME TypeOK, OutlineInv, HandleCancel PROVE OutlineStep
    OBVIOUS
<1>1. /\ pc = "select" /\ pc' = "join" /\ cancelled
      /\ UNCHANGED <<qstate, followup, ch, worker, report>>
    BY DEF HandleCancel, workVars, endVars
<1>2. NobodyHeard' = NobodyHeard /\ UNCHANGED queries
    BY <1>1, QueriesKept DEF NobodyHeard, QueryWork, Answered
<1>3. /\ place = IF NobodyHeard THEN "idle" ELSE "run"
      /\ place' = IF NobodyHeard THEN "idle" ELSE "join"
      /\ UNCHANGED outcome
    BY <1>1, <1>2 DEF place, outcome
<1> QED
    BY <1>1, <1>2, <1>3
    DEF OutlineStep, Outline!LookupNext, Outline!LookupMove, Outline!LookupCancelled

\* The result is made, the lookup returns, or something changes that it does not see.
LEMMA OutlineQuiet ==
    TypeOK /\ (ConstructLookupResult \/ GetClosestPeersReturns \/ CancelContext \/ ChangeStop
               \/ UNCHANGED vars) => OutlineStep
<1> SUFFICES ASSUME TypeOK, ConstructLookupResult \/ GetClosestPeersReturns \/ CancelContext
                            \/ ChangeStop \/ UNCHANGED vars
             PROVE  OutlineStep
    OBVIOUS
<1>1. UNCHANGED <<qstate, followup, ch, worker, report>>
    BY DEF ConstructLookupResult, GetClosestPeersReturns, CancelContext, ChangeStop, vars,
           mainVars, workVars, endVars
<1>2. \/ pc = "join" /\ pc' = "check"
      \/ pc = "return" /\ pc' = "done" /\ res' = res
      \/ UNCHANGED <<pc, res>>
    BY DEF ConstructLookupResult, GetClosestPeersReturns, CancelContext, ChangeStop, vars,
           mainVars, endVars
<1>3. NobodyHeard' = NobodyHeard /\ UNCHANGED queries
    BY <1>1, QueriesKept DEF NobodyHeard, QueryWork, Answered
<1>4. UNCHANGED <<place, outcome>>
    <2>1. res' = res => AllReceived' = AllReceived
        BY <1>1 DEF AllReceived
    <2> QED
        BY <1>2, <1>3, <2>1 DEF place, outcome
<1> QED
    BY <1>3, <1>4 DEF OutlineStep

\* A worker dials, gets an answer or none, and reports: its query goes on or is over.
LEMMA OutlineWorkers ==
    \A p \in Peers : TypeOK /\ FlightInv /\ FollowInv /\ queryPeer(p) => OutlineStep
<1> SUFFICES ASSUME NEW p \in Peers, TypeOK, FlightInv, FollowInv, queryPeer(p)
             PROVE  OutlineStep
    OBVIOUS
<1>1. /\ UNCHANGED <<pc, qstate, res, followup>> /\ worker[p] # "idle"
      /\ \A q \in Peers : q # p => worker'[q] = worker[q] /\ report'[q] = report[q]
    BY DEF queryPeer, DialSucceeds, QueryFails, QuerySucceeds, Report, mainVars, endVars, TypeOK
<1>2. UNCHANGED <<place, outcome>>
    BY <1>1 DEF place, outcome, NobodyHeard, AllReceived
<1>3. \A q \in Peers : followup[q] = "none" /\ followup'[q] = "none"
    BY <1>1, LookupPhase
<1>4. qstate[p] = "waiting" /\ qstate' = qstate
    BY <1>1 DEF FlightInv
<1>5. \A q \in Peers : queries[q] = IF qstate[q] = "waiting" THEN QueryWork(q)
                                     ELSE SettledWork[qstate[q]]
    BY <1>3 DEF queries, Asked
<1>6. \A q \in Peers : queries'[q] = IF qstate[q] = "waiting" THEN QueryWork(q)'
                                      ELSE SettledWork[qstate[q]]
    BY <1>1, <1>3 DEF queries, Asked
<1>7. CASE DialSucceeds(p)
    <2>1. /\ ch' = ch /\ report' = report
          /\ worker[p] = "dialing" /\ worker'[p] = "querying"
        BY <1>7 DEF DialSucceeds, TypeOK
    <2>2. Answered' = Answered
        BY <1>1, <2>1 DEF Answered
    <2>3. \A q \in Peers : QueryWork(q)' = QueryWork(q)
        BY <1>1, <2>1, <2>2 DEF QueryWork
    <2> QED
        BY <1>1, <1>2, <2>3, QueriesKept DEF OutlineStep
<1>8. CASE QueryFails(p) \/ QuerySucceeds(p)
    <2>1. /\ ch' = ch
          /\ worker[p] \in {"dialing", "querying"} /\ worker'[p] = "reporting"
        BY <1>8 DEF QueryFails, QuerySucceeds, TypeOK
    <2>2. \A q \in Peers : q # p => (q \in Answered' <=> q \in Answered)
        BY <1>1, <2>1 DEF Answered
    <2>3. \A q \in Peers : q # p => QueryWork(q)' = QueryWork(q)
        BY <1>1, <2>2 DEF QueryWork
    <2>4. QueryWork(p) = "asking" /\ QueryWork(p)' \in {"report", "failed"}
        BY <2>1 DEF QueryWork
    <2>5. queries[p] = "asking" /\ queries'[p] \in {"report", "failed"}
        BY <1>4, <1>5, <1>6, <2>4
    <2>6. queries' = [queries EXCEPT ![p] = queries'[p]]
        <3>1. \A q \in Peers : q # p => queries'[q] = queries[q]
            BY <1>5, <1>6, <2>3
        <3>2. queries = [q \in Peers |-> queries[q]] /\ queries' = [q \in Peers |-> queries'[q]]
            BY DEF queries
        <3> QED
            BY <3>1, <3>2
    <2>7. Outline!QueryMove(p)
        BY <1>2, <2>5, <2>6 DEF Outline!QueryMove, Outline!Move
    <2> QED
        BY <2>7 DEF OutlineStep, Outline!LookupNext
<1>9. CASE Report(p)
    <2>1. /\ worker[p] = "reporting" /\ worker'[p] = "idle"
          /\ Concerns(report[p]) = {p}
        BY <1>9 DEF Report, TypeOK, FlightInv
    <2>2. /\ \A i \in DOMAIN ch : i \in DOMAIN ch' /\ ch'[i] = ch[i]
          /\ \A i \in DOMAIN ch' : i \in DOMAIN ch \/ ch'[i] = report[p]
          /\ \E i \in DOMAIN ch' : ch'[i] = report[p]
        <3>1. ch \in Seq(queryUpdate) /\ report[p] \in queryUpdate /\ ch' = Append(ch, report[p])
            BY <1>9 DEF Report, TypeOK
        <3>2. /\ Len(ch) \in Nat /\ DOMAIN ch = 1..Len(ch) /\ DOMAIN ch' = 1..(Len(ch) + 1)
              /\ ch'[Len(ch) + 1] = report[p]
              /\ \A i \in 1..Len(ch) : ch'[i] = ch[i]
            BY <3>1
        <3> QED
            BY <3>2
    <2>3. report[p].queried \subseteq {p}
        BY <2>1 DEF Concerns
    <2>4. \A q \in Peers : q \in Answered' <=> q \in Answered
        <3>1. \A q \in Peers : (\E i \in DOMAIN ch' : q \in ch'[i].queried)
                                <=> (\E i \in DOMAIN ch : q \in ch[i].queried) \/ q \in report[p].queried
            BY <2>2
        <3>2. \A q \in Peers : q \in Answered <=>
                    \/ \E i \in DOMAIN ch : q \in ch[i].queried
                    \/ worker[q] = "reporting" /\ report[q].queried # {}
            BY DEF Answered
        <3>3. \A q \in Peers : q \in Answered' <=>
                    \/ \E i \in DOMAIN ch' : q \in ch'[i].queried
                    \/ worker'[q] = "reporting" /\ report'[q].queried # {}
            BY DEF Answered
        <3> QED
            BY <1>1, <2>1, <2>3, <3>1, <3>2, <3>3
    <2>5. \A q \in Peers : QueryWork(q)' = QueryWork(q)
        BY <1>1, <2>1, <2>4 DEF QueryWork
    <2> QED
        BY <1>1, <1>2, <2>5, QueriesKept DEF OutlineStep
<1> QED
    BY <1>7, <1>8, <1>9 DEF queryPeer

\* How the outline sees the follow-ups.
LEMMA QueriesOfFollowup ==
    ASSUME TypeOK, FollowInv, pc \in {"followup", "drain"}, NEW q \in Peers
    PROVE  /\ followup[q] = "running" => queries[q] = "asking"
           /\ followup[q] = "finished" => queries[q] = "report"
           /\ followup[q] = "received" => queries[q] = "done"
           /\ followup[q] = "none" => queries[q] \notin {"asking", "send"}
           /\ followup[q] = "none" /\ (\E r \in Peers : Asked(r)) =>
                    queries[q] \in {"heard", "done", "unreachable"}
<1>1. /\ followup[q] \in {"none", "running", "finished", "received"}
      /\ qstate[q] \in {"none", "heard", "waiting", "queried", "unreachable"}
      /\ worker[q] = "idle"
    BY DEF TypeOK, PeerState, FollowInv
<1>2. /\ SettledWork["none"] = "heard" /\ SettledWork["heard"] = "heard"
      /\ SettledWork["queried"] = "done" /\ SettledWork["unreachable"] = "unreachable"
      /\ FollowupWork["running"] = "asking" /\ FollowupWork["finished"] = "report"
      /\ FollowupWork["received"] = "done"
    BY DEF SettledWork, FollowupWork
<1>3. QueryWork(q) \in {"report", "failed"}
    BY <1>1 DEF QueryWork
<1> QED
    BY <1>1, <1>2, <1>3 DEF queries, Asked

\* A follow-up moves: the others stay where they are.
LEMMA QueriesMoved ==
    ASSUME TypeOK, NEW p \in Peers, NEW st \in {"finished", "received"}, followup[p] # "none",
           UNCHANGED qstate, followup' = [followup EXCEPT ![p] = st]
    PROVE  queries' = [queries EXCEPT ![p] = FollowupWork[st]]
<1>1. /\ Asked(p) /\ Asked(p)' /\ followup'[p] = st
      /\ \A q \in Peers : q # p => followup'[q] = followup[q] /\ Asked(q)' = Asked(q)
    BY DEF TypeOK, Asked
<1>2. queries'[p] = FollowupWork[st]
    BY <1>1 DEF queries
<1>3. \A q \in Peers : q # p => queries'[q] = queries[q]
    BY <1>1 DEF queries
<1>4. queries = [q \in Peers |-> queries[q]] /\ queries' = [q \in Peers |-> queries'[q]]
    BY DEF queries
<1> QED
    BY <1>2, <1>3, <1>4

\* A follow-up ends: its query is over.
LEMMA OutlineFinish ==
    \A p \in Peers : TypeOK /\ FlightInv /\ FollowInv /\ FinishFollowup(p) => OutlineStep
<1> SUFFICES ASSUME NEW p \in Peers, TypeOK, FlightInv, FollowInv, FinishFollowup(p)
             PROVE  OutlineStep
    OBVIOUS
<1>1. /\ UNCHANGED <<pc, qstate, res>>
      /\ followup[p] = "running"
      /\ followup' = [followup EXCEPT ![p] = "finished"]
      /\ followup'[p] = "finished"
    BY DEF FinishFollowup, mainVars, TypeOK
<1>2. pc \in {"followup", "drain"} /\ p \in res.pending
    <2>1. pc \notin {"start", "select", "join", "check", "return", "done"} /\ p \in res.pending
        BY <1>1 DEF FollowInv
    <2>2. pc # "panic"
        BY DEF FlightInv
    <2> QED
        BY <2>1, <2>2 DEF TypeOK, Pcs
<1>3. UNCHANGED <<place, outcome>>
    BY <1>1, <1>2 DEF place, outcome, AllReceived
<1>4. queries[p] = "asking"
    BY <1>1, <1>2, QueriesOfFollowup
<1>5. queries' = [queries EXCEPT ![p] = "report"]
    BY <1>1, QueriesMoved DEF FollowupWork
<1>6. Outline!QueryMove(p)
    BY <1>3, <1>4, <1>5 DEF Outline!QueryMove, Outline!Move
<1> QED
    BY <1>6 DEF OutlineStep, Outline!LookupNext

\* A token is taken: the query of that peer has been received.
LEMMA OutlineReceive == TypeOK /\ FollowInv /\ ReceiveFollowup => OutlineStep
<1> SUFFICES ASSUME TypeOK, FollowInv, ReceiveFollowup PROVE OutlineStep
    OBVIOUS
<1> DEFINE last == \A q \in res.pending : followup'[q] = "received"
<1>1. PICK p \in Peers : /\ followup[p] = "finished"
                        /\ followup' = [followup EXCEPT ![p] = "received"]
    BY DEF ReceiveFollowup
<1>2. /\ pc = "followup" /\ UNCHANGED qstate
      /\ res'.pending = res.pending /\ res'.peers = res.peers
      /\ pc' = IF stop \/ last THEN "drain" ELSE "followup"
    BY DEF ReceiveFollowup, TypeOK
<1>3. AllReceived' = last
    BY <1>2 DEF AllReceived
<1>4. /\ place = "followup"
      /\ place' = IF last THEN "ended" ELSE IF stop THEN "drain" ELSE "followup"
    <2>1. ~AllReceived
        BY <1>2 DEF FollowInv, AllReceived
    <2> QED
        BY <1>2, <1>3, <2>1 DEF place
<1>5. UNCHANGED outcome
    BY <1>2 DEF outcome
<1>6. queries[p] = "report" /\ queries' = [queries EXCEPT ![p] = "done"]
    <2>1. queries[p] = "report"
        BY <1>1, <1>2, QueriesOfFollowup
    <2> QED
        BY <1>1, <1>2, <2>1, QueriesMoved DEF FollowupWork
<1>7. Outline!InFlight = {p} <=> last
    <2>1. Outline!InFlight = {q \in Peers : followup[q] \in {"running", "finished"}}
        <3>1. Asked(p)
            BY <1>1 DEF Asked
        <3>2. \A q \in Peers : followup[q] \in {"none", "running", "finished", "received"}
            BY DEF TypeOK
        <3> QED
            BY <1>2, <3>1, <3>2, QueriesOfFollowup DEF Outline!InFlight, Outline!At
    <2>2. /\ \A q \in Peers : /\ followup[q] # "none" <=> q \in res.pending
                              /\ followup[q] \in {"none", "running", "finished", "received"}
                              /\ followup'[q] = IF q = p THEN "received" ELSE followup[q]
          /\ res.pending \subseteq Peers
        BY <1>1, <1>2 DEF FollowInv, TypeOK
    <2> QED
        BY <1>1, <2>1, <2>2
<1> HIDE DEF last
<1>8. Outline!ReceiveFollowup(p, stop)
    BY <1>4, <1>5, <1>6, <1>7 DEF Outline!ReceiveFollowup, Outline!Move
<1> QED
    BY <1>8 DEF OutlineStep, Outline!LookupNext, Outline!LookupMove

\* The follow-up is cancelled, and its loop waits for the goroutines that are left.
LEMMA OutlineDrain == TypeOK /\ FollowInv /\ (CancelFollowup \/ EndFollowup) => OutlineStep
<1> SUFFICES ASSUME TypeOK, FollowInv, CancelFollowup \/ EndFollowup PROVE OutlineStep
    OBVIOUS
<1>1. /\ UNCHANGED <<qstate, followup, ch, worker, report>>
      /\ res'.pending = res.pending /\ res'.peers = res.peers
    BY DEF CancelFollowup, EndFollowup, workVars, endVars, TypeOK
<1>2. AllReceived' = AllReceived /\ UNCHANGED queries
    BY <1>1, QueriesKept DEF AllReceived, QueryWork, Answered
<1>3. CASE CancelFollowup
    <2>1. pc = "followup" /\ pc' = "drain" /\ cancelled /\ ~AllReceived
        BY <1>3 DEF CancelFollowup, FollowInv, AllReceived
    <2>2. place = "followup" /\ place' = "drain" /\ UNCHANGED outcome
        BY <1>1, <1>2, <2>1 DEF place, outcome
    <2> QED
        BY <1>2, <2>1, <2>2
        DEF OutlineStep, Outline!LookupNext, Outline!LookupMove, Outline!CancelFollowup
<1>4. CASE EndFollowup
    <2>1. /\ pc = "drain" /\ pc' = "return" /\ UNCHANGED outcome
          /\ AllReceived \/ \A q \in Peers : followup[q] # "running"
        BY <1>1, <1>4 DEF EndFollowup, outcome, FollowInv, AllReceived
    <2>2. place = (IF AllReceived THEN "ended" ELSE "drain") /\ place' = "ended"
        BY <2>1 DEF place
    <2>3. CASE AllReceived
        BY <1>2, <2>1, <2>2, <2>3 DEF OutlineStep
    <2>4. CASE ~AllReceived
        <3>1. Outline!At("asking") = {} /\ Outline!At("send") = {}
            <4>1. \A q \in Peers : followup[q] \in {"none", "finished", "received"}
                BY <2>1, <2>4 DEF TypeOK
            <4> QED
                BY <2>1, <4>1, QueriesOfFollowup DEF Outline!At
        <3> QED
            BY <1>2, <2>1, <2>2, <2>4, <3>1
            DEF OutlineStep, Outline!LookupNext, Outline!LookupMove, Outline!Drain
    <2> QED
        BY <2>3, <2>4
<1> QED
    BY <1>3, <1>4

\* The outline counts as the lookup does.
LEMMA OutlineCounts == \A S : Outline!Cardinality(S) = Cardinality(S)
BY DEF Cardinality, Outline!Cardinality

\* The result holds the nearest peers, as many as the outline says, and of the others
\* all that have been asked.
LEMMA ResultOfLookup ==
    ASSUME TypeOK, \A p \in Peers : followup[p] = "none",
           NEW R, R = GetClosestNInStates(qstate, BucketSize, NotUnreachable)
    PROVE  R \in Outline!Results
<1> DEFINE S == InStates(qstate, NotUnreachable)
<1>1. /\ S \in SUBSET Peers /\ BucketSize \in Nat /\ R = Closest(BucketSize, S)
      /\ R \subseteq S /\ Cardinality(R) <= BucketSize
    BY ClosestBound, LookupAssumption DEF LookupAssumption, InStates, GetClosestNInStates
<1>2. R \in SUBSET (Peers \ Outline!At("unreachable"))
    BY <1>1, OutlineSets DEF InStates, NotUnreachable
<1>3. CASE R = S
    <2>1. Outline!At("done") \cup Outline!InFlight \subseteq R
        BY <1>3, OutlineSets DEF InStates, NotUnreachable, Waiting
    <2>2. Cardinality(R) \in Nat
        BY <1>3, WaitingFinite
    <2>3. Cardinality(R) = BucketSize \/ Cardinality(R) < BucketSize
        BY <1>1, <2>2
    <2> QED
        BY <1>2, <2>1, <2>3, OutlineCounts DEF Outline!Results
<1>4. CASE R # S
    <2>1. Cardinality(R) = BucketSize
        <3> HIDE DEF S
        <3> QED
            BY <1>1, <1>4, ClosestFull
    <2> QED
        BY <1>2, <2>1, OutlineCounts DEF Outline!Results
<1> QED
    BY <1>3, <1>4

\* The workers have been joined: the follow-up begins, or the lookup ends.
LEMMA OutlineFollowup ==
    TypeOK /\ FlightInv /\ FollowInv /\ OutlineInv /\ StartFollowup => OutlineStep
<1> SUFFICES ASSUME TypeOK, FlightInv, FollowInv, OutlineInv, StartFollowup PROVE OutlineStep
    OBVIOUS
<1> DEFINE R == res.peers
           F == R \cap (Outline!At("heard") \cup Outline!InFlight)
<1>1. /\ pc = "check" /\ pc' \in {"return", "followup"} /\ UNCHANGED <<qstate, ch, worker, report>>
      /\ res'.peers = res.peers
      /\ \A p \in Peers : followup[p] = "none" /\ worker[p] = "idle"
    BY DEF StartFollowup, FollowInv, workVars, TypeOK
<1>2. /\ R = GetClosestNInStates(qstate, BucketSize, NotUnreachable)
      /\ res.pending = {p \in R : qstate[p] \in {"heard", "waiting"}}
    BY <1>1 DEF OutlineInv
<1>3. /\ R \subseteq InStates(qstate, NotUnreachable)
      /\ outcome = {} /\ outcome' = R
      /\ NobodyHeard' = NobodyHeard
    BY <1>1, <1>2 DEF outcome, GetClosestNInStates, Closest, NobodyHeard
<1>4. F = res.pending
    BY <1>1, <1>2, <1>3, OutlineSets DEF InStates, NotUnreachable, Waiting
<1>5. pc' = "return" => UNCHANGED queries
    <2> SUFFICES ASSUME pc' = "return" PROVE UNCHANGED queries
        OBVIOUS
    <2>1. followup' = followup
        BY DEF StartFollowup
    <2> QED
        BY <1>1, <2>1, QueriesKept DEF QueryWork, Answered
<1>6. CASE NobodyHeard
    <2>1. R = {} /\ res.pending = {}
        BY <1>2, <1>3, <1>6 DEF NobodyHeard, InStates, NotUnreachable
    <2>2. pc' = "return"
        BY <2>1 DEF StartFollowup
    <2>3. place = "idle" /\ place' = "ended"
        BY <1>1, <1>6, <2>2 DEF place
    <2> QED
        BY <1>3, <1>5, <2>1, <2>2, <2>3 DEF OutlineStep, Outline!LookupNext, Outline!LookupStart
<1>7. CASE ~NobodyHeard
    <2>1. place = "join"
        BY <1>1, <1>7 DEF place
    <2>2. Outline!At("asking") = {} /\ Outline!At("send") = {}
        <3>1. \A p \in Peers : queries[p] # "asking"
            BY <1>1, QueriesOfLookup DEF QueryWork
        <3> QED
            BY <1>1, <3>1, OutlineSets DEF Outline!At
    <2>3. R \in Outline!Results
        BY <1>1, <1>2, ResultOfLookup
    <2>4. /\ outcome' = R
          /\ IF F = {} \/ cancelled \/ stop
             THEN place' = "ended" /\ UNCHANGED queries
             ELSE /\ place' = "followup"
                  /\ queries' = [p \in Peers |-> IF p \in F THEN "asking"
                                     ELSE IF p \in Outline!InFlight THEN "heard" ELSE queries[p]]
        <3>1. CASE F = {} \/ cancelled \/ stop
            <4>1. pc' = "return"
                BY <1>4, <3>1 DEF StartFollowup
            <4>2. place' = "ended"
                BY <4>1 DEF place
            <4> HIDE DEF F
            <4> QED
                BY <1>3, <1>5, <3>1, <4>1, <4>2
        <3>2. CASE ~(F = {} \/ cancelled \/ stop)
            <4>1. /\ pc' = "followup"
                  /\ followup' = [p \in Peers |-> IF p \in F THEN "running" ELSE "none"]
                  /\ res' = res
                BY <1>4, <3>2 DEF StartFollowup
            <4>2. F # {} /\ F \subseteq Peers
                BY <1>4, <3>2 DEF TypeOK
            <4>3. Outline!InFlight = Waiting
                BY <1>1, OutlineSets
            <4> HIDE DEF F
            <4>4. place' = "followup"
                BY <4>1 DEF place
            <4>5. PICK r \in F : r \in Peers /\ Asked(r)'
                BY <4>1, <4>2 DEF Asked
            <4>6. \A p \in Peers : queries'[p] = IF p \in F THEN "asking"
                                    ELSE IF p \in Outline!InFlight THEN "heard" ELSE queries[p]
                <5> SUFFICES ASSUME NEW p \in Peers
                             PROVE  queries'[p] = IF p \in F THEN "asking"
                                    ELSE IF p \in Outline!InFlight THEN "heard" ELSE queries[p]
                    OBVIOUS
                <5>1. FollowupWork["running"] = "asking"
                    BY DEF FollowupWork
                <5>2. ~Asked(p) /\ (Asked(p)' <=> p \in F)
                    BY <1>1, <4>1 DEF Asked
                <5>3. p \in Outline!InFlight <=> qstate[p] = "waiting"
                    BY <4>3 DEF Waiting, InStates
                <5>4. p \in F => queries'[p] = "asking"
                    BY <4>1, <5>1, <5>2 DEF queries
                <5>5. p \notin F /\ qstate[p] = "waiting" => queries'[p] = "heard"
                    BY <1>1, <4>5, <5>2 DEF queries
                <5>6. p \notin F /\ qstate[p] # "waiting" => queries'[p] = queries[p]
                    BY <1>1, <5>2 DEF queries
                <5> QED
                    BY <5>3, <5>4, <5>5, <5>6
            <4>7. queries' = [p \in Peers |-> queries'[p]]
                BY DEF queries
            <4>8. queries' = [p \in Peers |-> IF p \in F THEN "asking"
                                    ELSE IF p \in Outline!InFlight THEN "heard" ELSE queries[p]]
                BY <4>6, <4>7
            <4> QED
                BY <1>3, <3>2, <4>4, <4>8
        <3> QED
            BY <3>1, <3>2
    <2>5. Outline!Followup(stop)
        BY <2>3, <2>4 DEF Outline!Followup
    <2> QED
        BY <2>1, <2>2, <2>5 DEF OutlineStep, Outline!LookupNext, Outline!LookupMove, Outline!Join
<1> QED
    BY <1>6, <1>7

\* The nearest of some peers are some.
LEMMA ClosestSome ==
    ASSUME NEW S \in SUBSET Peers, S # {}, NEW n \in Nat \ {0}
    PROVE  Closest(n, S) # {}
<1> SUFFICES ASSUME Closest(n, S) = {} PROVE FALSE
    OBVIOUS
<1>1. Cardinality({}) = n
    BY ClosestFull
<1> QED
    BY <1>1, FS_EmptySet

\* The seed update is handled: the first peers are asked, or the lookup has been stopped.
LEMMA OutlineSeed ==
    TypeOK /\ FlightInv /\ FollowInv /\ OutlineInv /\ HandleUpdate /\ NobodyHeard => OutlineStep
<1> SUFFICES ASSUME TypeOK, FlightInv, FollowInv, OutlineInv, HandleUpdate, NobodyHeard
             PROVE  OutlineStep
    OBVIOUS
<1> DEFINE why == TerminationReason(Updated)
<1>1. PICK S \in (SUBSET Peers) \ {{}} :
            Updated = [p \in Peers |-> IF p \in S THEN "heard" ELSE "none"]
    BY SeedUpdate
<1>2. /\ pc = "select" /\ UNCHANGED <<followup, alpha>>
      /\ pc' = IF ProtocolError(qstate, Update) THEN "panic"
               ELSE IF why = "none" THEN "select" ELSE "join"
    BY DEF HandleUpdate, endVars, Update, Updated
<1>3. /\ \A p \in Peers : qstate[p] = "none" /\ followup[p] = "none" /\ worker[p] = "idle"
      /\ ~NobodyHeard'
    BY <1>2, HeardAfterUpdate DEF FollowInv, FlightInv, NobodyHeard
<1>4. /\ InStates(Updated, {"heard"}) = S /\ InStates(Updated, NotUnreachable) = S
      /\ InStates(Updated, {"waiting"}) = {}
    BY <1>1 DEF InStates, NotUnreachable
<1>5. NumHeard(Updated) # 0 /\ NumWaiting(Updated) = 0
    <2>1. Cardinality(S) # 0
        BY <1>1, <1>4, WaitingFinite, FS_EmptySet
    <2> QED
        BY <1>4, <2>1, FS_EmptySet DEF NumHeard, NumWaiting
<1>6. ~AllQueried(Updated, Beta)
    <2>1. PICK p : p \in Closest(Beta, S)
        BY <1>1, ClosestSome, LookupAssumption DEF LookupAssumption
    <2>2. p \in S /\ Updated[p] = "heard"
        BY <1>1, <2>1 DEF Closest
    <2> QED
        BY <1>4, <2>1, <2>2 DEF AllQueried, GetClosestNInStates
<1>7. why = IF stop THEN "LookupStopped" ELSE "none"
    BY <1>5, <1>6 DEF TerminationReason, isStarvationTermination, isLookupTermination
<1>8. /\ qstate' = SetState(Updated, NextPeers, "waiting")
      /\ worker' = [p \in Peers |-> IF p \in NextPeers THEN "dialing" ELSE worker[p]]
      /\ ~ProtocolError(qstate, Update)
      /\ NextPeers \subseteq S
    BY <1>4, UpdateFacts
<1>9. queries = Outline!NothingAsked
    <2>1. \A p \in Peers : queries[p] = "heard"
        BY <1>3, QueriesOfLookup
    <2>2. queries = [p \in Peers |-> queries[p]]
        BY DEF queries
    <2> QED
        BY <2>1, <2>2 DEF Outline!NothingAsked
<1>10. queries' = [p \in Peers |-> IF p \in NextPeers THEN "asking" ELSE "heard"]
    <2>1. \A p \in Peers : queries'[p] = IF p \in NextPeers THEN "asking" ELSE "heard"
        <3> SUFFICES ASSUME NEW p \in Peers
                     PROVE  queries'[p] = IF p \in NextPeers THEN "asking" ELSE "heard"
            OBVIOUS
        <3>1. \A q \in Peers : ~Asked(q)'
            BY <1>2, <1>3 DEF Asked
        <3>2. CASE p \in NextPeers
            <4>1. qstate'[p] = "waiting" /\ worker'[p] = "dialing"
                BY <1>8, <3>2 DEF SetState
            <4> QED
                BY <3>1, <3>2, <4>1 DEF queries, QueryWork
        <3>3. CASE p \notin NextPeers
            <4>1. qstate'[p] \in {"none", "heard"}
                BY <1>1, <1>8, <3>3 DEF SetState
            <4>2. SettledWork["none"] = "heard" /\ SettledWork["heard"] = "heard"
                BY DEF SettledWork
            <4> QED
                BY <3>1, <3>3, <4>1, <4>2 DEF queries
        <3> QED
            BY <3>2, <3>3
    <2>2. queries' = [p \in Peers |-> queries'[p]]
        BY DEF queries
    <2> QED
        BY <2>1, <2>2
<1>11. place = "idle" /\ UNCHANGED outcome
    BY <1>2, <1>8 DEF place, outcome
<1>12. CASE stop
    <2>1. why # "none" /\ place' = "join"
        BY <1>2, <1>3, <1>7, <1>8, <1>12 DEF place
    <2>2. NextPeers = {}
        BY <2>1 DEF NextPeers
    <2>3. UNCHANGED queries
        BY <1>9, <1>10, <2>2 DEF Outline!NothingAsked
    <2> QED
        BY <1>11, <1>12, <2>1, <2>3 DEF OutlineStep, Outline!LookupNext, Outline!LookupStart
<1>13. CASE ~stop
    <2>1. why = "none" /\ place' = "run"
        BY <1>2, <1>3, <1>7, <1>8, <1>13 DEF place
    <2>2. /\ NextPeers \in SUBSET Peers /\ NextPeers # {}
          /\ Cardinality(NextPeers) <= MaxAlpha
        <3>1. alpha \in Nat \ {0} /\ alpha <= MaxAlpha /\ MaxAlpha \in Nat
            BY LookupAssumption DEF TypeOK, LookupAssumption
        <3>2. NextPeers = Closest(alpha, S)
            BY <1>4, <1>5, <2>1, <3>1 DEF NextPeers, PeersToQuery, GetClosestNInStates
        <3>3. Closest(alpha, S) # {}
            BY <1>1, <3>1, ClosestSome
        <3>4. /\ Cardinality(Closest(alpha, S)) <= alpha /\ Closest(alpha, S) \subseteq S
              /\ Cardinality(Closest(alpha, S)) \in Nat
            BY <1>1, <3>1, ClosestBound, FS_CardinalityType
        <3> QED
            BY <1>1, <3>1, <3>2, <3>3, <3>4
    <2>3. NextPeers \in Outline!Spawned(Peers, 0) \ {{}}
        <3>1. Cardinality(NextPeers) <= MaxAlpha - 0
            BY <2>2, LookupAssumption DEF LookupAssumption
        <3> QED
            BY <2>2, <3>1, OutlineCounts DEF Outline!Spawned
    <2>4. queries' \in Outline!Starts
        BY <1>10, <2>3 DEF Outline!Starts
    <2> QED
        BY <1>11, <2>1, <2>4 DEF OutlineStep, Outline!LookupNext, Outline!LookupStart
<1> QED
    BY <1>12, <1>13

\* Which peer an update after the seed update is about, and what the outline sees of it.
LEMMA PeerUpdate ==
    ASSUME TypeOK, FlightInv, FollowInv, OutlineInv, HandleUpdate, ~NobodyHeard
    PROVE  LET c == Update.cause IN
           /\ c \in Peers /\ qstate[c] = "waiting" /\ Concerns(Update) = {c}
           /\ queries[c] \in {"report", "failed"}
           /\ Updated[c] = IF queries[c] = "report" THEN "queried" ELSE "unreachable"
           /\ \A q \in Peers : q # c /\ qstate[q] = "waiting" => QueryWork(q)' = QueryWork(q)
<1> DEFINE c == Update.cause
<1>1. /\ Update \in queryUpdate /\ Update = ch[1] /\ DOMAIN ch = 1..Len(ch) /\ Len(ch) >= 1
      /\ worker' = [p \in Peers |-> IF p \in NextPeers THEN "dialing" ELSE worker[p]]
      /\ ch' = Tail(ch) /\ NextPeers \subseteq InStates(Updated, {"heard"})
      /\ \A p \in Peers : p \notin Concerns(Update) /\ qstate[p] # "none" => Updated[p] = qstate[p]
    BY UpdateFacts
<1>2. 1 \in DOMAIN ch /\ \A i \in DOMAIN ch : i # 1 => i - 1 \in DOMAIN ch' /\ ch'[i - 1] = ch[i]
    BY <1>1 DEF TypeOK
<1>3. \A i \in DOMAIN ch' : i + 1 \in DOMAIN ch /\ i + 1 # 1 /\ ch'[i] = ch[i + 1]
    BY <1>1 DEF TypeOK
<1>4. /\ c # Self /\ c \in Peers /\ qstate[c] = "waiting" /\ Concerns(Update) = {c}
      /\ worker[c] = "idle" /\ (Update.queried = {} \/ Update.unreachable = {})
    BY <1>1, <1>2 DEF OutlineInv, FlightInv, queryUpdate
<1>5. \A i \in DOMAIN ch : i # 1 => c \notin ch[i].queried
    <2> SUFFICES ASSUME NEW i \in DOMAIN ch, i # 1, c \in ch[i].queried PROVE FALSE
        OBVIOUS
    <2>1. ch[i].cause = c
        <3>1. c \in Concerns(ch[i]) /\ ch[i].cause # Self
            BY DEF Concerns, OutlineInv
        <3> QED
            BY <3>1 DEF FlightInv
    <2> QED
        BY <2>1, <1>1, <1>2 DEF FlightInv
<1>6. c \in Answered <=> Update.queried # {}
    <2>1. c \in Answered <=> \E i \in DOMAIN ch : c \in ch[i].queried
        BY <1>4 DEF Answered
    <2>2. c \in Update.queried <=> Update.queried # {}
        BY <1>4 DEF Concerns
    <2> QED
        BY <2>1, <2>2, <1>1, <1>2, <1>5
<1>7. queries[c] = IF Update.queried # {} THEN "report" ELSE "failed"
    <2>1. \A p \in Peers : followup[p] = "none"
        BY DEF FollowInv, HandleUpdate
    <2> QED
        BY <2>1, <1>4, <1>6, QueriesOfLookup DEF QueryWork
<1>8. Updated[c] = IF Update.queried # {} THEN "queried" ELSE "unreachable"
    BY <1>4 DEF Updated, updateState, SetState, Concerns
<1>9. ASSUME NEW q \in Peers, q # c, qstate[q] = "waiting"
      PROVE  QueryWork(q)' = QueryWork(q)
    <2>1. q \notin NextPeers
        BY <1>1, <1>4, <1>9 DEF InStates
    <2>2. worker'[q] = worker[q] /\ report' = report
        BY <1>1, <2>1 DEF HandleUpdate
    <2>3. q \notin Update.queried
        BY <1>4, <1>9 DEF Concerns
    <2>4. (\E i \in DOMAIN ch' : q \in ch'[i].queried) <=> (\E i \in DOMAIN ch : q \in ch[i].queried)
        BY <1>1, <1>2, <1>3, <2>3
    <2>5. /\ q \in Answered <=> \/ \E i \in DOMAIN ch : q \in ch[i].queried
                                \/ worker[q] = "reporting" /\ report[q].queried # {}
          /\ q \in Answered' <=> \/ \E i \in DOMAIN ch' : q \in ch'[i].queried
                                 \/ worker'[q] = "reporting" /\ report'[q].queried # {}
        BY DEF Answered
    <2>6. q \in Answered' <=> q \in Answered
        BY <2>2, <2>4, <2>5
    <2> QED
        BY <2>2, <2>6 DEF QueryWork
<1> QED
    BY <1>4, <1>7, <1>8, <1>9

\* What the update makes of the queries: one is over, and the next peers are asked.
LEMMA QueriesUpdated ==
    ASSUME TypeOK, FlightInv, FollowInv, OutlineInv, HandleUpdate, ~NobodyHeard, NEW q \in Peers
    PROVE  LET c == Update.cause IN
           /\ queries'[q] = IF q \in NextPeers THEN "asking"
                            ELSE IF q # c THEN queries[q]
                            ELSE IF queries[c] = "report" THEN "done" ELSE "unreachable"
           /\ (IF q # c THEN queries[q]
               ELSE IF queries[c] = "report" THEN "done" ELSE "unreachable") = "done"
                <=> Updated[q] = "queried"
           /\ q \in NextPeers => queries[q] = "heard"
<1> DEFINE c == Update.cause
<1>1. /\ c \in Peers /\ qstate[c] = "waiting" /\ Concerns(Update) = {c}
      /\ Updated[c] = IF queries[c] = "report" THEN "queried" ELSE "unreachable"
      /\ q # c /\ qstate[q] = "waiting" => QueryWork(q)' = QueryWork(q)
    BY PeerUpdate
<1>2. /\ qstate' = SetState(Updated, NextPeers, "waiting")
      /\ worker' = [p \in Peers |-> IF p \in NextPeers THEN "dialing" ELSE worker[p]]
      /\ NextPeers \subseteq InStates(Updated, {"heard"})
      /\ Update \in queryUpdate
      /\ \A p \in Peers : p \notin Concerns(Update) /\ qstate[p] # "none" => Updated[p] = qstate[p]
    BY UpdateFacts
<1>3. \A p \in Peers : p # c /\ qstate[p] = "none" => Updated[p] \in {"none", "heard"}
    BY <1>1, <1>2, UpdateShape DEF Updated, TypeOK
<1>4. \A p \in Peers : followup[p] = "none" /\ followup'[p] = "none"
    BY DEF FollowInv, HandleUpdate, endVars
<1>5. queries[q] = IF qstate[q] = "waiting" THEN QueryWork(q)
                   ELSE IF qstate[q] = "queried" THEN "done"
                   ELSE IF qstate[q] = "unreachable" THEN "unreachable" ELSE "heard"
    BY <1>4, QueriesOfLookup
<1>6. /\ qstate'[q] \in PeerState
      /\ queries'[q] = IF qstate'[q] = "waiting" THEN QueryWork(q)'
                   ELSE IF qstate'[q] = "queried" THEN "done"
                   ELSE IF qstate'[q] = "unreachable" THEN "unreachable" ELSE "heard"
    <2>1. qstate'[q] \in PeerState
        BY TypeHandleUpdate DEF TypeOK
    <2>2. /\ SettledWork["none"] = "heard" /\ SettledWork["heard"] = "heard"
          /\ SettledWork["queried"] = "done" /\ SettledWork["unreachable"] = "unreachable"
        BY DEF SettledWork
    <2>3. queries'[q] = IF qstate'[q] # "waiting" THEN SettledWork[qstate'[q]] ELSE QueryWork(q)'
        BY <1>4 DEF queries, Asked
    <2> QED
        BY <2>1, <2>2, <2>3 DEF PeerState
<1>7. QueryWork(q) \in {"asking", "report", "failed"} /\ qstate[q] \in PeerState
    BY DEF QueryWork, TypeOK
<1>8. qstate'[q] = IF q \in NextPeers THEN "waiting" ELSE Updated[q]
    BY <1>2 DEF SetState
<1>9. CASE q = c
    <2>1. q \notin NextPeers
        BY <1>1, <1>2, <1>9 DEF InStates
    <2> QED
        BY <1>1, <1>6, <1>8, <1>9, <2>1
<1>10. CASE q # c
    <2>1. Updated[q] = qstate[q] \/ (qstate[q] = "none" /\ Updated[q] \in {"none", "heard"})
        BY <1>1, <1>2, <1>3, <1>10
    <2>2. CASE q \in NextPeers
        <3>1. Updated[q] = "heard"
            BY <1>2, <2>2 DEF InStates
        <3>2. QueryWork(q)' = "asking"
            BY <1>2, <2>2 DEF QueryWork
        <3> QED
            BY <1>5, <1>6, <1>8, <1>10, <2>1, <2>2, <3>1, <3>2
    <2>3. CASE q \notin NextPeers
        BY <1>1, <1>5, <1>6, <1>7, <1>8, <1>10, <2>1, <2>3 DEF PeerState
    <2> QED
        BY <2>2, <2>3
<1> QED
    BY <1>9, <1>10

\* Another update is handled.
LEMMA OutlineHandle ==
    TypeOK /\ FlightInv /\ FollowInv /\ OutlineInv /\ HandleUpdate /\ ~NobodyHeard => OutlineStep
<1> SUFFICES ASSUME TypeOK, FlightInv, FollowInv, OutlineInv, HandleUpdate, ~NobodyHeard
             PROVE  OutlineStep
    OBVIOUS
<1> DEFINE c == Update.cause
           why == TerminationReason(Updated)
           W == InStates(Updated, {"waiting"})
           n == Cardinality(Outline!InFlight \ {c})
           w == [queries EXCEPT ![c] = IF queries[c] = "report" THEN "done" ELSE "unreachable"]
           queried == {q \in Peers : w[q] = "done"}
<1>1. /\ pc = "select" /\ UNCHANGED outcome /\ \A p \in Peers : followup[p] = "none"
      /\ pc' = IF ProtocolError(qstate, Update) THEN "panic"
               ELSE IF why = "none" THEN "select" ELSE "join"
    BY DEF HandleUpdate, endVars, Update, Updated, FollowInv, outcome
<1>2. place = "run" /\ place' = IF why = "none" THEN "run" ELSE "join"
    BY <1>1, UpdateFacts, HeardAfterUpdate DEF place
<1>3. c \in Peers /\ Concerns(Update) = {c} /\ queries[c] \in {"report", "failed"}
    BY PeerUpdate
<1>4. queries' = [q \in Peers |-> IF q \in NextPeers THEN "asking" ELSE w[q]]
    <2>1. queries = [q \in Peers |-> queries[q]] /\ queries' = [q \in Peers |-> queries'[q]]
        BY DEF queries
    <2>2. \A q \in Peers : w[q] = IF q # c THEN queries[q]
                                  ELSE IF queries[c] = "report" THEN "done" ELSE "unreachable"
        BY <2>1
    <2> HIDE DEF w
    <2>3. \A q \in Peers : queries'[q] = IF q \in NextPeers THEN "asking" ELSE w[q]
        BY <2>2, QueriesUpdated
    <2> QED
        BY <2>1, <2>3
<1>5. queried = InStates(Updated, {"queried"})
    <2>1. queries = [q \in Peers |-> queries[q]]
        BY DEF queries
    <2>2. \A q \in Peers : w[q] = IF q # c THEN queries[q]
                                  ELSE IF queries[c] = "report" THEN "done" ELSE "unreachable"
        BY <2>1
    <2> HIDE DEF w
    <2>3. \A q \in Peers : w[q] = "done" <=> Updated[q] = "queried"
        BY <2>2, QueriesUpdated
    <2> QED
        BY <2>3 DEF InStates
<1>6. /\ Outline!InFlight \ {c} = W /\ n = NumWaiting(Updated) /\ n \in Nat
      /\ Cardinality(NextPeers) <= alpha - n /\ Cardinality(NextPeers) \in Nat /\ n <= alpha - 1
    <2>1. W = Waiting \ {c} /\ NumWaiting(Updated) = Cardinality(W) /\ Cardinality(W) \in Nat
        BY <1>3, UpdateFacts
    <2>2. Outline!InFlight \ {c} = W
        BY <1>1, <2>1, OutlineSets
    <2> HIDE DEF W
    <2> QED
        BY <2>1, <2>2, UpdateFacts DEF W
<1>7. alpha \in Nat \ {0} /\ alpha <= MaxAlpha /\ MaxAlpha \in Nat /\ Beta \in Nat \ {0}
    BY LookupAssumption DEF TypeOK, LookupAssumption
<1>8. NextPeers \in Outline!Spawned(Outline!At("heard"), n)
    <2>1. NextPeers \subseteq Outline!At("heard")
        <3>1. NextPeers \subseteq Peers
            BY UpdateFacts DEF InStates
        <3> QED
            BY <3>1, QueriesUpdated DEF Outline!At
    <2> HIDE DEF n
    <2>2. Cardinality(NextPeers) <= MaxAlpha - n
        BY <1>6, <1>7
    <2> QED
        BY <2>1, <2>2, OutlineCounts DEF Outline!Spawned
<1>9. CASE why = "none"
    <2>1. ~stop /\ ~(NumHeard(Updated) = 0 /\ NumWaiting(Updated) = 0)
        BY <1>9 DEF TerminationReason, isStarvationTermination
    <2>2. NextPeers # {} \/ n > 0
        <3> SUFFICES ASSUME ~(n > 0) PROVE NextPeers # {}
            OBVIOUS
        <3>1. NumWaiting(Updated) = 0 /\ NumHeard(Updated) # 0
            BY <1>6, <2>1
        <3>2. InStates(Updated, {"heard"}) # {} /\ InStates(Updated, {"heard"}) \in SUBSET Peers
            BY <3>1, FS_EmptySet DEF NumHeard, InStates
        <3>3. NextPeers = Closest(alpha, InStates(Updated, {"heard"}))
            BY <1>7, <1>9, <3>1 DEF NextPeers, PeersToQuery, GetClosestNInStates
        <3> QED
            BY <1>7, <3>2, <3>3, ClosestSome
    <2>3. Outline!HandleUpdate(c, stop)
        <3> HIDE DEF c, n
        <3>1. place' = place
            BY <1>2, <1>9
        <3> QED
            BY <1>1, <1>2, <1>3, <1>4, <1>8, <2>1, <2>2, <3>1, OutlineCounts
            DEF Outline!HandleUpdate, n
    <2> QED
        BY <1>3, <2>3 DEF OutlineStep, Outline!LookupNext, Outline!LookupMove
<1>10. CASE why # "none"
    <2>1. NextPeers = {}
        BY <1>10 DEF NextPeers
    <2>2. queries' = w
        <3>1. queries = [q \in Peers |-> queries[q]]
            BY DEF queries
        <3>2. w = [q \in Peers |-> w[q]]
            BY <3>1
        <3> HIDE DEF w
        <3> QED
            BY <1>4, <2>1, <3>2
    <2>3. stop \/ n = 0 \/ Cardinality(queried) >= Beta
        <3>1. \/ stop
              \/ NumHeard(Updated) = 0 /\ NumWaiting(Updated) = 0
              \/ AllQueried(Updated, Beta)
            BY <1>10 DEF TerminationReason, isStarvationTermination, isLookupTermination
        <3>2. CASE AllQueried(Updated, Beta)
            <4> DEFINE S == InStates(Updated, NotUnreachable)
                       C == Closest(Beta, S)
            <4>1. S \in SUBSET Peers /\ C \subseteq S /\ C \subseteq queried
                BY <1>5, <3>2 DEF InStates, AllQueried, GetClosestNInStates, Closest
            <4>2. CASE C = S
                <5>1. W = {}
                    BY <1>5, <4>1, <4>2 DEF InStates, NotUnreachable
                <5> QED
                    BY <1>6, <5>1, FS_EmptySet
            <4>3. CASE C # S
                <5>1. Cardinality(C) = Beta
                    <6> HIDE DEF S
                    <6> QED
                        BY <1>7, <4>1, <4>3, ClosestFull
                <5>2. IsFiniteSet(queried) /\ Cardinality(queried) \in Nat
                    BY <1>5, WaitingFinite
                <5> HIDE DEF C, queried
                <5>3. Cardinality(C) <= Cardinality(queried)
                    BY <4>1, <5>2, FS_Subset
                <5> QED
                    BY <1>7, <5>1, <5>2, <5>3
            <4> QED
                BY <4>2, <4>3
        <3> QED
            BY <1>6, <3>1, <3>2
    <2>4. Outline!HandleUpdate(c, stop)
        <3>1. place' = "join"
            BY <1>2, <1>10
        <3> HIDE DEF c
        <3> QED
            BY <1>1, <1>2, <1>3, <2>2, <2>3, <3>1, OutlineCounts DEF Outline!HandleUpdate
    <2> QED
        BY <1>3, <2>4 DEF OutlineStep, Outline!LookupNext, Outline!LookupMove
<1> QED
    BY <1>9, <1>10

\* Every step of the lookup is one of the outline or none.
LEMMA OutlineSteps ==
    TypeOK /\ FlightInv /\ FollowInv /\ OutlineInv /\ [Next]_vars
        => [Outline!LookupNext(stop)]_(Outline!lookupVars)
<1> SUFFICES ASSUME TypeOK, FlightInv, FollowInv, OutlineInv, [Next]_vars
             PROVE  OutlineStep
    BY DEF OutlineStep, Outline!lookupVars
<1>1. CASE Main
    BY <1>1, OutlineFails, OutlineRunQuery, OutlineSeed, OutlineHandle, OutlineCancel, OutlineQuiet,
       OutlineFollowup, OutlineReceive, OutlineDrain
    DEF Main
<1>2. CASE \E p \in Peers : queryPeer(p) \/ FinishFollowup(p)
    BY <1>2, OutlineWorkers, OutlineFinish
<1>3. CASE CancelContext \/ ChangeStop \/ UNCHANGED vars
    BY <1>3, OutlineQuiet
<1> QED
    BY <1>1, <1>2, <1>3 DEF Next, Returned

\* The lookup starts as the outline does.
LEMMA OutlineInit == Init => Outline!LookupInit /\ OutlineInv
<1> SUFFICES ASSUME Init PROVE Outline!LookupInit /\ OutlineInv
    OBVIOUS
<1>1. /\ pc = "start" /\ NobodyHeard /\ ch = << >>
      /\ \A p \in Peers : qstate[p] = "none" /\ worker[p] = "idle" /\ followup[p] = "none"
    BY DEF Init, NobodyHeard
<1>2. place = "idle" /\ outcome = {}
    BY <1>1 DEF place, outcome
<1>3. queries = Outline!NothingAsked
    <2>1. SettledWork["none"] = "heard"
        BY DEF SettledWork
    <2> QED
        BY <1>1, <2>1 DEF queries, Asked, Outline!NothingAsked
<1> QED
    BY <1>1, <1>2, <1>3 DEF Outline!LookupInit, OutlineInv

(* The lookup is what the searches that run on it take it for: ProviderSearch *)
(* and ValueSearch, which are proved over LookupOutline, hold over Lookup.    *)
THEOREM LookupKeepsOutline == Spec => KeepsOutline
BY TypeInit, TypeNext, FlightInit, FlightNext, FollowInit, FollowNext, OutlineInit, OutlineNext,
   OutlineSteps, PTL DEF Spec, KeepsOutline
=============================================================================
