---------------------------- MODULE RtPeerLoop ----------------------------
(***************************************************************************)
(* The goroutines that keep the routing table alive: rtPeerLoop, which     *)
(* makes all additions (go-libp2p-kad-dht/dht.go), the refresh manager     *)
(* (rtrefresh/rt_refresh_manager.go), fixLowPeersRoutine, the notifee's    *)
(* event loop (subscriber_notifee.go), callers of RefreshRoutingTable, and *)
(* the shutdown.  They meet at unbuffered channels (addPeerToRTChan,       *)
(* refreshFinishedCh, triggerRefresh) and at fixLowPeersChan, which has    *)
(* room for one token: a rendezvous is one step of both sides.             *)
(*                                                                         *)
(* Of the table only its members and their replaceable flag are kept, and  *)
(* its operations are those of TableOutline.  Lookups are seen by what     *)
(* they do here: they find peers and evict peers, and they end.            *)
(***************************************************************************)
EXTENDS TableOutline, Integers, FiniteSets

CONSTANTS
    Cpl,                    \* Cpl[p]: the common prefix length of p and the local ID
    maxCplForRefresh,
    minRTRefreshThreshold,
    Users,                  \* callers of RefreshRoutingTable and ForceRefresh
    autoRefresh,
    Modes,                  \* the values isKadRTT may have
    Finds,                  \* Finds[m][s]: the peers sender s may come across in mode m
    MaxAdds,                \* bound: how many processAdd goroutines run at a time
    IsClosed,               \* the DHT may be closed
    NoPeer

Finders == {"lookup", "fix", "event"}

ASSUME LoopAssumption ==
    /\ NoPeer \notin Peers
    /\ Cpl \in [Peers -> Nat]
    /\ maxCplForRefresh \in Nat
    /\ minRTRefreshThreshold \in Nat
    /\ autoRefresh \in BOOLEAN
    /\ Modes \subseteq BOOLEAN
    /\ Finds \in [Modes -> [Finders -> SUBSET Peers]]
    /\ MaxAdds \in Nat
    /\ IsClosed \in BOOLEAN

VARIABLES
    loop,               \* where rtPeerLoop is
    addReq,             \* the peer it is adding
    isBootsrapping, bootstrapCount,
    timerCh,            \* the freeze timer is running
    adds,               \* the processAdd goroutines: peer and captured isBootsrapping
    sending,            \* sending[s]: the peer s is blocked with in peerFound
    fixLowPeersChan,    \* the token is in the channel
    fix,                \* where fixLowPeers is
    event,              \* where the notifee is
    mgr,                \* where the refresh manager is
    cpl, ncpl,          \* the next cpl doRefresh looks at, and their number
    waiting,            \* the users whose respCh the manager has taken
    user,               \* where each user is
    closing,            \* proc.Closing() and dht.ctx
    mgrCtxDone          \* the context of the manager

bootVars == <<isBootsrapping, bootstrapCount, timerCh>>
loopVars == <<loop, addReq, bootVars, adds>>
tabVars == <<tab, fixLowPeersChan>>
refreshVars == <<cpl, ncpl, waiting, user>>
mgrVars == <<mgr, refreshVars>>
others == <<fix, event>>
lifeVars == <<isKadRTT, closing, mgrCtxDone>>
vars == <<tabVars, loopVars, sending, others, mgrVars, lifeVars>>

Size == Cardinality({p \in Peers : tab[p] # "out"})
-----------------------------------------------------------------------------
Init ==
    /\ isKadRTT \in Modes
    /\ TableInit
    /\ loop = "select" /\ addReq = NoPeer
    /\ isBootsrapping = FALSE /\ bootstrapCount = 0
    /\ timerCh = FALSE
    /\ adds = {}
    /\ sending = [s \in Finders |-> NoPeer]
    /\ fixLowPeersChan = FALSE
    /\ fix = "finding"                      \* populatePeers calls fixLowPeers
    /\ event = "select"
    /\ mgr = "off" /\ cpl = 0 /\ ncpl = 0 /\ waiting = {}
    /\ user = [u \in Users |-> "idle"]
    /\ closing = FALSE /\ mgrCtxDone = FALSE

\* RemovePeer, with its callback PeerRemoved and fixRTIfNeeded.
RemovePeer(p) ==
    /\ TableRemove(p)
    /\ fixLowPeersChan' = (fixLowPeersChan \/ tab[p] # "out")

\* Some peer has gone from the table.
SomeGone == \E q \in Peers : tab[q] # "out" /\ tab'[q] = "out"

\* TryAddPeer and its callbacks: PeerRemoved of a peer that goes, which KadRTT forgets
\* when it discards peers.
TryAddPeer(p, isReplaceable) ==
    /\ TableAdd(p, isReplaceable)
    /\ fixLowPeersChan' \in IF ~SomeGone THEN {fixLowPeersChan}
                             ELSE IF isKadRTT THEN {fixLowPeersChan, TRUE} ELSE {TRUE}

\* The manager takes a request without respCh if it is waiting for one.
RefreshNoWait == mgr' = IF mgr = "select" THEN "batch" ELSE mgr
-----------------------------------------------------------------------------
(* rtPeerLoop.                                                              *)

\* It takes an addPeerRTReq.  An empty table begins a new bootstrap.
LoopReceive(s) ==
    /\ loop = "select"
    /\ sending[s] # NoPeer
    /\ sending' = [sending EXCEPT ![s] = NoPeer]
    /\ isBootsrapping' = (isBootsrapping \/ Size = 0)
    /\ IF Size = 0 THEN bootstrapCount' = 0 /\ timerCh' = FALSE
                   ELSE UNCHANGED <<bootstrapCount, timerCh>>
    /\ IF isKadRTT
       THEN /\ Cardinality(adds) < MaxAdds
            /\ adds' = adds \cup {<<sending[s], isBootsrapping'>>}
            /\ UNCHANGED <<loop, addReq>>
       ELSE /\ loop' = "add" /\ addReq' = sending[s]
            /\ UNCHANGED adds
    /\ UNCHANGED <<tabVars, others, mgrVars, lifeVars>>

LoopAdd ==
    /\ loop = "add"
    /\ TryAddPeer(addReq, isBootsrapping)
    /\ loop' = "select" /\ addReq' = NoPeer
    /\ UNCHANGED <<bootVars, adds, sending, others, mgrVars, lifeVars>>

\* The goroutine of one addition, after its ping.
processAdd ==
    /\ \E a \in adds : TryAddPeer(a[1], a[2]) /\ adds' = adds \ {a}
    /\ UNCHANGED <<loop, addReq, bootVars, sending, others, mgrVars, lifeVars>>

\* Mutant: isBootsrapping stays on.
LoopRefreshFinishedOn ==
    /\ loop = "select" /\ mgr = "done"
    /\ mgr' = "reply"
    /\ bootstrapCount' = IF bootstrapCount < 2 THEN bootstrapCount + 1 ELSE 2
    /\ timerCh' = (timerCh \/ bootstrapCount = 1)
    /\ UNCHANGED isBootsrapping
    /\ loop' = IF isBootsrapping THEN "notify" ELSE "select"
    /\ UNCHANGED <<tabVars, addReq, adds, sending, others, refreshVars, lifeVars>>

\* The token of a finished refresh.  The code asks only whether the count has just
\* become 2, so it need not grow any further here.
LoopRefreshFinished ==
    /\ loop = "select" /\ mgr = "done"
    /\ mgr' = "reply"
    /\ bootstrapCount' = IF bootstrapCount < 2 THEN bootstrapCount + 1 ELSE 2
    /\ timerCh' = (timerCh \/ bootstrapCount = 1)
    /\ isBootsrapping' = FALSE
    /\ loop' = IF isBootsrapping THEN "notify" ELSE "select"
    /\ UNCHANGED <<tabVars, addReq, adds, sending, others, refreshVars, lifeVars>>

\* Mutant: it waits until the manager takes the request.
LoopNotifyBlocking ==
    /\ loop = "notify" /\ mgr = "select"
    /\ RefreshNoWait
    /\ loop' = "select"
    /\ UNCHANGED <<tabVars, addReq, bootVars, adds, sending, others, refreshVars, lifeVars>>

LoopNotify ==
    /\ loop = "notify"
    /\ RefreshNoWait
    /\ loop' = "select"
    /\ UNCHANGED <<tabVars, addReq, bootVars, adds, sending, others, refreshVars, lifeVars>>

MarkAllPeersIrreplaceable ==
    /\ loop = "select" /\ timerCh
    /\ TableFreeze
    /\ timerCh' = FALSE
    /\ UNCHANGED <<fixLowPeersChan, loop, addReq, isBootsrapping, bootstrapCount, adds,
                   sending, others, mgrVars, lifeVars>>
-----------------------------------------------------------------------------
(* peerFound: a goroutine that came across a valid peer sends it to         *)
(* addPeerToRTChan and is blocked until the loop takes it or the DHT ends.  *)
peerFound(s, p) ==
    /\ sending[s] = NoPeer
    /\ p \in Finds[isKadRTT][s]
    /\ sending' = [sending EXCEPT ![s] = p]

Found(s) == sending[s] = NoPeer

AbandonSend(s) ==
    /\ closing
    /\ sending[s] # NoPeer
    /\ sending' = [sending EXCEPT ![s] = NoPeer]
    /\ UNCHANGED <<tabVars, loopVars, others, mgrVars, lifeVars>>
-----------------------------------------------------------------------------
(* The refresh manager: loop and doRefresh.                                 *)

\* The ticker.
MgrTick ==
    /\ mgr = "select" /\ autoRefresh
    /\ mgr' = "batch"
    /\ UNCHANGED <<tabVars, loopVars, sending, others, refreshVars, lifeVars>>

\* A request of a user; also more of them before the refresh begins.
MgrTrigger(u) ==
    /\ mgr \in {"select", "batch"}
    /\ user[u] = "sending"
    /\ mgr' = "batch"
    /\ waiting' = waiting \cup {u}
    /\ user' = [user EXCEPT ![u] = "waiting"]
    /\ UNCHANGED <<tabVars, loopVars, sending, others, cpl, ncpl, lifeVars>>

\* Nobody else is blocked in Refresh: the peers are pinged.
MgrBatched ==
    /\ mgr = "batch"
    /\ \A u \in Users : user[u] # "sending"
    /\ mgr' = "ping"
    /\ UNCHANGED <<tabVars, loopVars, sending, others, refreshVars, lifeVars>>

MgrEvict(p) ==
    /\ mgr = "ping"
    /\ tab[p] # "out"
    /\ RemovePeer(p)
    /\ UNCHANGED <<loopVars, sending, others, mgrVars, lifeVars>>

MgrPinged ==
    /\ mgr = "ping"
    /\ mgr' = "self"
    /\ UNCHANGED <<tabVars, loopVars, sending, others, refreshVars, lifeVars>>

\* A lookup of the refresh is under way.
Querying == mgr \in {"self", "cpls", "rest"}

LookupFound(p) ==
    /\ Querying
    /\ peerFound("lookup", p)
    /\ UNCHANGED <<tabVars, loopVars, others, mgrVars, lifeVars>>

LookupEvicts(p) ==
    /\ Querying
    /\ tab[p] # "out"
    /\ RemovePeer(p)
    /\ UNCHANGED <<loopVars, sending, others, mgrVars, lifeVars>>

\* GetTrackedCplsForRefresh: one more than the largest cpl in the table.
TrackedCpls ==
    Cardinality({c \in 0..maxCplForRefresh :
                    c = 0 \/ \E p \in Peers : tab[p] # "out" /\ Cpl[p] >= c})

NPeersForCpl(c) == Cardinality({p \in Peers : tab[p] # "out" /\ Cpl[p] = c})

\* The lookup of queryForSelf is over.
QueriedSelf ==
    /\ mgr = "self" /\ Found("lookup")
    /\ mgr' = "cpls" /\ cpl' = 0 /\ ncpl' = TrackedCpls
    /\ UNCHANGED <<tabVars, loopVars, sending, others, waiting, user, lifeVars>>

\* The refresh of one cpl is over: it failed, or the cpl has peers.
RefreshedCpl ==
    /\ mgr = "cpls" /\ cpl < ncpl /\ Found("lookup")
    /\ cpl' = cpl + 1
    /\ UNCHANGED <<tabVars, loopVars, sending, others, mgr, ncpl, waiting, user, lifeVars>>

\* It did not fail and the cpl has no peers: doRefresh refreshes some more and returns.
RefreshedGap ==
    /\ mgr = "cpls" /\ cpl < ncpl /\ Found("lookup")
    /\ NPeersForCpl(cpl) = 0
    /\ mgr' = "rest" /\ cpl' = 0 /\ ncpl' = 0
    /\ UNCHANGED <<tabVars, loopVars, sending, others, waiting, user, lifeVars>>

RestRefreshed ==
    /\ mgr = "rest" /\ Found("lookup")
    /\ mgr' = "reply"
    /\ UNCHANGED <<tabVars, loopVars, sending, others, refreshVars, lifeVars>>

\* Mutant: refreshDoneCh is not written.
RefreshedAllUntold ==
    /\ mgr = "cpls" /\ cpl = ncpl
    /\ mgr' = "reply" /\ cpl' = 0 /\ ncpl' = 0
    /\ UNCHANGED <<tabVars, loopVars, sending, others, waiting, user, lifeVars>>

\* All cpls are done: doRefresh is blocked on refreshDoneCh.
RefreshedAll ==
    /\ mgr = "cpls" /\ cpl = ncpl
    /\ mgr' = "done" /\ cpl' = 0 /\ ncpl' = 0
    /\ UNCHANGED <<tabVars, loopVars, sending, others, waiting, user, lifeVars>>

\* The DHT ends meanwhile.
AbandonDone ==
    /\ mgr = "done" /\ mgrCtxDone
    /\ mgr' = "reply"
    /\ UNCHANGED <<tabVars, loopVars, sending, others, refreshVars, lifeVars>>

\* Everyone who waits is answered.
MgrReply ==
    /\ mgr = "reply"
    /\ mgr' = "select"
    /\ user' = [u \in Users |-> IF u \in waiting THEN "idle" ELSE user[u]]
    /\ waiting' = {}
    /\ UNCHANGED <<tabVars, loopVars, sending, others, cpl, ncpl, lifeVars>>

\* Mutant: the context is looked at before the first refresh only.
MgrCloseEarly ==
    /\ mgr = "off" /\ mgrCtxDone
    /\ mgr' = "closed"
    /\ UNCHANGED <<tabVars, loopVars, sending, others, refreshVars, lifeVars>>

MgrClose ==
    /\ mgr = "select" /\ mgrCtxDone
    /\ mgr' = "closed"
    /\ UNCHANGED <<tabVars, loopVars, sending, others, refreshVars, lifeVars>>
-----------------------------------------------------------------------------
(* fixLowPeers, first from populatePeers, then from fixLowPeersRoutine.     *)

FixBegin ==
    /\ fix = "select"
    /\ fixLowPeersChan' \in {FALSE, fixLowPeersChan}    \* the token, or the ticker
    /\ fix' = IF Size > minRTRefreshThreshold THEN "select" ELSE "finding"
    /\ UNCHANGED <<tab, loopVars, sending, event, mgrVars, lifeVars>>

\* One of the peers the host is connected to.
FixFound(p) ==
    /\ fix = "finding"
    /\ peerFound("fix", p)
    /\ UNCHANGED <<tabVars, loopVars, others, mgrVars, lifeVars>>

\* All of them are done, and bootstrap peers dialled if there were none.  The first
\* time, from populatePeers, the manager is started.
FixEnd ==
    /\ fix = "finding" /\ Found("fix")
    /\ fix' = "select"
    /\ IF mgr = "off" THEN mgr' = IF autoRefresh THEN "self" ELSE "select"
       ELSE IF Size > 0 /\ autoRefresh THEN RefreshNoWait
       ELSE UNCHANGED mgr
    /\ UNCHANGED <<tabVars, loopVars, sending, event, refreshVars, lifeVars>>

FixClose ==
    /\ fix = "select" /\ closing
    /\ fix' = "closed"
    /\ UNCHANGED <<tabVars, loopVars, sending, event, mgrVars, lifeVars>>
-----------------------------------------------------------------------------
(* The notifee's event loop.                                                *)

\* A peer was identified, or changed its protocols, and speaks the DHT's.
EventFound(p) ==
    /\ event = "select"
    /\ peerFound("event", p)
    /\ event' = "found"
    /\ UNCHANGED <<tabVars, loopVars, fix, mgrVars, lifeVars>>

\* fixRTIfNeeded, once peerFound is through.
EventEnd ==
    /\ event = "found" /\ Found("event")
    /\ event' = "select"
    /\ fixLowPeersChan' = TRUE
    /\ UNCHANGED <<tab, loopVars, sending, fix, mgrVars, lifeVars>>

\* It does not speak it any more: peerStoppedDHT.
EventStopped(p) ==
    /\ event = "select"
    /\ tab[p] # "out"
    /\ RemovePeer(p)
    /\ UNCHANGED <<loopVars, sending, others, mgrVars, lifeVars>>

\* The addresses of the host changed.
EventAddresses ==
    /\ event = "select" /\ autoRefresh
    /\ RefreshNoWait
    /\ UNCHANGED <<tabVars, loopVars, sending, others, refreshVars, lifeVars>>

EventClose ==
    /\ event = "select" /\ closing
    /\ event' = "closed"
    /\ UNCHANGED <<tabVars, loopVars, sending, fix, mgrVars, lifeVars>>
-----------------------------------------------------------------------------
(* Callers, who call nothing once they have called Close, and the end.      *)

Bootstrap ==
    /\ ~closing
    /\ fixLowPeersChan' = TRUE
    /\ RefreshNoWait
    /\ UNCHANGED <<tab, loopVars, sending, others, refreshVars, lifeVars>>

Refresh(u) ==
    /\ user[u] = "idle" /\ ~closing
    /\ user' = [user EXCEPT ![u] = "sending"]
    /\ UNCHANGED <<tabVars, loopVars, sending, others, mgr, cpl, ncpl, waiting, lifeVars>>

RefreshAfterEnd(u) ==
    /\ user[u] = "sending" /\ mgrCtxDone
    /\ user' = [user EXCEPT ![u] = "idle"]
    /\ UNCHANGED <<tabVars, loopVars, sending, others, mgr, cpl, ncpl, waiting, lifeVars>>

\* The variables of the loop go with it.
LoopClose ==
    /\ loop = "select" /\ closing
    /\ loop' = "closed"
    /\ isBootsrapping' = FALSE /\ bootstrapCount' = 0 /\ timerCh' = FALSE
    /\ UNCHANGED <<tabVars, addReq, adds, sending, others, mgrVars, lifeVars>>

Close ==
    /\ IsClosed /\ ~closing
    /\ closing' = TRUE
    /\ UNCHANGED <<tabVars, loopVars, sending, others, mgrVars, isKadRTT, mgrCtxDone>>

\* The teardown of proc: its children have ended.
Teardown ==
    /\ ~mgrCtxDone
    /\ loop = "closed" /\ fix = "closed" /\ event = "closed"
    /\ mgrCtxDone' = TRUE
    /\ UNCHANGED <<tabVars, loopVars, sending, others, mgrVars, isKadRTT, closing>>

\* Nothing is left to do.
Ended == mgr = "closed" /\ UNCHANGED vars

Next ==
    \/ \E s \in Finders : LoopReceive(s) \/ AbandonSend(s)
    \/ LoopAdd \/ processAdd \/ LoopRefreshFinished \/ LoopNotify
    \/ MarkAllPeersIrreplaceable \/ LoopClose
    \/ \E p \in Peers :
          \/ MgrEvict(p) \/ LookupFound(p) \/ LookupEvicts(p)
          \/ FixFound(p) \/ EventFound(p) \/ EventStopped(p)
    \/ \E u \in Users : MgrTrigger(u) \/ Refresh(u) \/ RefreshAfterEnd(u)
    \/ MgrTick \/ MgrBatched \/ MgrPinged \/ QueriedSelf \/ RefreshedCpl \/ RefreshedGap
    \/ RestRefreshed \/ RefreshedAll \/ AbandonDone \/ MgrReply \/ MgrClose
    \/ FixBegin \/ FixEnd \/ FixClose
    \/ EventEnd \/ EventAddresses \/ EventClose
    \/ Bootstrap \/ Close \/ Teardown \/ Ended

Spec == Init /\ [][Next]_vars

\* Go's scheduler is fair to goroutines and its select to ready cases, a channel
\* serves those blocked on it in turn, and pings, dials and lookups end (Lookup shows
\* it of a lookup).  Nobody has to call Refresh or Close, or to find a peer.
LoopWork == LoopAdd \/ LoopNotify \/ processAdd
MgrWork ==
    \/ MgrTick \/ MgrBatched \/ MgrPinged \/ RefreshedAll \/ AbandonDone \/ MgrReply
    \/ \E u \in Users : MgrTrigger(u) \/ RefreshAfterEnd(u)
LookupEnds == QueriedSelf \/ RefreshedCpl \/ RefreshedGap \/ RestRefreshed
Closes == LoopClose \/ FixClose \/ EventClose \/ Teardown \/ MgrClose

Fairness ==
    /\ \A s \in Finders : SF_vars(LoopReceive(s) \/ AbandonSend(s))
    /\ WF_vars(LoopWork) /\ SF_vars(LoopRefreshFinished)
    /\ WF_vars(MgrWork) /\ SF_vars(LookupEnds)
    /\ SF_vars(FixEnd) /\ WF_vars(EventEnd)
    /\ SF_vars(Closes)

FairSpec == Spec /\ Fairness
-----------------------------------------------------------------------------
(* Every variable holds a value of the type the code gives it.              *)
TypeOK ==
    /\ isKadRTT \in BOOLEAN /\ closing \in BOOLEAN /\ mgrCtxDone \in BOOLEAN
    /\ tab \in [Peers -> {"out", "replaceable", "kept"}]
    /\ fixLowPeersChan \in BOOLEAN
    /\ loop \in {"select", "add", "notify", "closed"}
    /\ addReq \in Peers \cup {NoPeer}
    /\ isBootsrapping \in BOOLEAN /\ timerCh \in BOOLEAN
    /\ bootstrapCount \in 0..2
    /\ adds \subseteq Peers \X BOOLEAN
    /\ sending \in [Finders -> Peers \cup {NoPeer}]
    /\ fix \in {"select", "finding", "closed"}
    /\ event \in {"select", "found", "closed"}
    /\ mgr \in {"off", "select", "batch", "ping", "self", "cpls", "rest", "done", "reply",
                "closed"}
    /\ cpl \in 0..ncpl /\ ncpl \in 0..(maxCplForRefresh + 1)
    /\ waiting \subseteq Users
    /\ user \in [Users -> {"idle", "sending", "waiting"}]

(* The freeze timer of one bootstrap never fires in the next: while it runs *)
(* the table is not bootstrapping and two refreshes have finished since it  *)
(* last was.                                                                *)
FreezeInv == timerCh => ~isBootsrapping /\ bootstrapCount = 2

(* Once the timer has fired, and until the table was empty again, every     *)
(* peer of the table is irreplaceable, those added later included.  KadRTT  *)
(* does not promise it: processAdd uses the flag of an earlier moment, and  *)
(* a peer that is exchanged is entered as replaceable.                      *)
FrozenMeansIrreplaceable ==
    ~isKadRTT /\ bootstrapCount = 2 /\ ~timerCh =>
        \A p \in Peers : tab[p] # "replaceable"

(* A caller of RefreshRoutingTable waits only for a manager that knows of   *)
(* it and will answer: also when the DHT is closed, no respCh is dropped.   *)
WaitersInv ==
    /\ \A u \in Users : user[u] = "waiting" <=> u \in waiting
    /\ waiting # {} => mgr \notin {"off", "select", "closed"}

(* Every call of RefreshRoutingTable gets its answer, although the manager  *)
(* waits for rtPeerLoop and rtPeerLoop asks the manager for refreshes.      *)
RefreshAnswered == \A u \in Users : []<>(user[u] = "idle")

(* Bootstrapping comes to an end, unless the refreshes meet cpls without    *)
(* peers for ever.                                                          *)
BootstrapEnds == []<>~isBootsrapping \/ []<>(mgr = "rest") \/ <>closing

(* Closing the DHT ends all its goroutines, the manager last.               *)
CloseEnds == <>[](closing => mgr = "closed")
=============================================================================
