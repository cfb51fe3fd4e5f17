------------------------- MODULE RtPeerLoopProofs -------------------------
(***************************************************************************)
(* Theorems about RtPeerLoop, for any peers, users, cpls and thresholds.   *)
(***************************************************************************)
EXTENDS RtPeerLoop, FiniteSetTheorems, TLAPS

\* The number of tracked cpls is within the limit of the refresh.
LEMMA TrackedFacts == TrackedCpls \in 0..(maxCplForRefresh + 1)
<1> DEFINE All == 0..maxCplForRefresh
           S == {c \in All : c = 0 \/ \E p \in Peers : tab[p] # "out" /\ Cpl[p] >= c}
<1>1. IsFiniteSet(All) /\ Cardinality(All) = maxCplForRefresh + 1
    BY FS_Interval, LoopAssumption
<1>2. S \in SUBSET All
    OBVIOUS
<1>3. IsFiniteSet(S) /\ Cardinality(S) <= Cardinality(All)
    BY <1>1, <1>2, FS_Subset
<1>4. Cardinality(S) \in Nat
    BY <1>3, FS_CardinalityType
<1>5. TrackedCpls = Cardinality(S)
    BY DEF TrackedCpls
<1> HIDE DEF S, All
<1> QED
    BY <1>1, <1>3, <1>4, <1>5, LoopAssumption
-----------------------------------------------------------------------------
\* What TryAddPeer leaves is a table and a token.
LEMMA TryAddTypes ==
    ASSUME TypeOK, NEW p, NEW isReplaceable, TryAddPeer(p, isReplaceable)
    PROVE  /\ tab' \in [Peers -> {"out", "replaceable", "kept"}]
           /\ fixLowPeersChan' \in BOOLEAN
<1>1. tab' \in [Peers -> {"out", "replaceable", "kept"}]
  <2>1. CASE UNCHANGED tab
    BY <2>1 DEF TypeOK
  <2>2. CASE Enter(p, isReplaceable)
    BY <2>2 DEF Enter, asAsked, TypeOK
  <2>3. CASE MakeRoom(p, isReplaceable)
    BY <2>3 DEF MakeRoom
  <2> QED
    BY <2>1, <2>2, <2>3, Zenon DEF TryAddPeer, TableAdd
<1>2. fixLowPeersChan' \in {fixLowPeersChan, TRUE}
    BY Zenon DEF TryAddPeer
<1> QED
    BY <1>1, <1>2 DEF TypeOK

\* One step keeps the types.
LEMMA TypeStep == TypeOK /\ [Next]_vars => TypeOK'
<1> SUFFICES ASSUME TypeOK, [Next]_vars PROVE TypeOK'
    OBVIOUS
<1> USE LoopAssumption DEF TypeOK, vars, tabVars, loopVars, bootVars, refreshVars, mgrVars, others, lifeVars
<1>1. ASSUME NEW s \in Finders, LoopReceive(s) PROVE TypeOK'
  <2>1. isBootsrapping' \in BOOLEAN
    BY <1>1, Zenon DEF LoopReceive
  <2>2. timerCh' \in BOOLEAN
    BY <1>1, Zenon DEF LoopReceive
  <2>7. bootstrapCount' \in 0..2
    BY <1>1 DEF LoopReceive
  <2>3. sending[s] \in Peers
    BY <1>1 DEF LoopReceive
  <2>4. adds' \subseteq Peers \X BOOLEAN
    BY <1>1, <2>1, <2>3 DEF LoopReceive
  <2>5. /\ loop' \in {"select", "add", "notify", "closed"}
        /\ addReq' \in Peers \cup {NoPeer}
        /\ sending' \in [Finders -> Peers \cup {NoPeer}]
    BY <1>1, <2>3 DEF LoopReceive
  <2>6. UNCHANGED <<tabVars, others, mgrVars, lifeVars>>
    BY <1>1 DEF LoopReceive
  <2> QED
    BY <2>1, <2>2, <2>7, <2>4, <2>5, <2>6
<1>2. ASSUME NEW s \in Finders, AbandonSend(s) PROVE TypeOK'
    BY <1>2 DEF AbandonSend
<1>3. ASSUME NEW p \in Peers, MgrEvict(p) PROVE TypeOK'
    BY <1>3 DEF MgrEvict, RemovePeer, TableRemove
<1>4. ASSUME NEW p \in Peers, LookupFound(p) PROVE TypeOK'
    BY <1>4 DEF LookupFound, peerFound, Finders
<1>5. ASSUME NEW p \in Peers, LookupEvicts(p) PROVE TypeOK'
    BY <1>5 DEF LookupEvicts, RemovePeer, TableRemove
<1>6. ASSUME NEW p \in Peers, FixFound(p) PROVE TypeOK'
    BY <1>6 DEF FixFound, peerFound, Finders
<1>7. ASSUME NEW p \in Peers, EventFound(p) PROVE TypeOK'
    BY <1>7 DEF EventFound, peerFound, Finders
<1>8. ASSUME NEW p \in Peers, EventStopped(p) PROVE TypeOK'
    BY <1>8 DEF EventStopped, RemovePeer, TableRemove
<1>9. ASSUME NEW u \in Users, MgrTrigger(u) PROVE TypeOK'
    BY <1>9 DEF MgrTrigger
<1>10. ASSUME NEW u \in Users, Refresh(u) PROVE TypeOK'
    BY <1>10 DEF Refresh
<1>11. ASSUME NEW u \in Users, RefreshAfterEnd(u) PROVE TypeOK'
    BY <1>11 DEF RefreshAfterEnd
<1>12. CASE LoopAdd
    BY <1>12, TryAddTypes DEF LoopAdd
<1>13. CASE processAdd
  <2>1. PICK a \in adds : TryAddPeer(a[1], a[2]) /\ adds' = adds \ {a}
    BY <1>13 DEF processAdd
  <2> QED
    BY <1>13, <2>1, TryAddTypes DEF processAdd
<1>14. CASE LoopRefreshFinished
  <2>1. isBootsrapping' \in BOOLEAN /\ timerCh' \in BOOLEAN
    BY <1>14, Zenon DEF LoopRefreshFinished
  <2>2. bootstrapCount' \in 0..2
    BY <1>14 DEF LoopRefreshFinished
  <2> QED
    BY <1>14, <2>1, <2>2 DEF LoopRefreshFinished
<1>15. CASE LoopNotify
    BY <1>15 DEF LoopNotify, RefreshNoWait
<1>16. CASE MarkAllPeersIrreplaceable
  <2>1. tab' \in [Peers -> {"out", "replaceable", "kept"}]
    BY <1>16 DEF MarkAllPeersIrreplaceable, TableFreeze
  <2>2. timerCh' \in BOOLEAN
    BY <1>16, Zenon DEF MarkAllPeersIrreplaceable
  <2> QED
    BY <1>16, <2>1, <2>2 DEF MarkAllPeersIrreplaceable
<1>17. CASE LoopClose
  <2>1. isBootsrapping' \in BOOLEAN /\ timerCh' \in BOOLEAN
    BY <1>17, Zenon DEF LoopClose
  <2> QED
    BY <1>17, <2>1 DEF LoopClose
<1>18. CASE MgrTick
    BY <1>18 DEF MgrTick
<1>19. CASE MgrBatched
    BY <1>19 DEF MgrBatched
<1>20. CASE MgrPinged
    BY <1>20 DEF MgrPinged
<1>21. CASE QueriedSelf
    BY <1>21, TrackedFacts DEF QueriedSelf, Found
<1>22. CASE RefreshedCpl
    BY <1>22 DEF RefreshedCpl, Found
<1>23. CASE RefreshedGap
    BY <1>23 DEF RefreshedGap, Found
<1>24. CASE RestRefreshed
    BY <1>24 DEF RestRefreshed, Found
<1>25. CASE RefreshedAll
    BY <1>25 DEF RefreshedAll
<1>26. CASE AbandonDone
    BY <1>26 DEF AbandonDone
<1>27. CASE MgrReply
    BY <1>27 DEF MgrReply
<1>28. CASE MgrClose
    BY <1>28 DEF MgrClose
<1>29. CASE FixBegin
  <2>1. fixLowPeersChan' \in BOOLEAN
    BY <1>29, Zenon DEF FixBegin
  <2> QED
    BY <1>29, <2>1 DEF FixBegin
<1>30. CASE FixEnd
    BY <1>30 DEF FixEnd, RefreshNoWait, Found
<1>31. CASE FixClose
    BY <1>31 DEF FixClose
<1>32. CASE EventEnd
    BY <1>32 DEF EventEnd, Found
<1>33. CASE EventAddresses
    BY <1>33 DEF EventAddresses, RefreshNoWait
<1>34. CASE EventClose
    BY <1>34 DEF EventClose
<1>35. CASE Bootstrap
    BY <1>35 DEF Bootstrap, RefreshNoWait
<1>36. CASE Close
    BY <1>36 DEF Close
<1>37. CASE Teardown
    BY <1>37 DEF Teardown
<1>38. CASE Ended
    BY <1>38 DEF Ended
<1>39. CASE UNCHANGED vars
    BY <1>39
<1> QED
    BY <1>1, <1>2, <1>3, <1>4, <1>5, <1>6, <1>7, <1>8, <1>9, <1>10, <1>11, <1>12, <1>13, <1>14, <1>15, <1>16, <1>17, <1>18, <1>19, <1>20, <1>21, <1>22, <1>23, <1>24, <1>25, <1>26, <1>27, <1>28, <1>29, <1>30, <1>31, <1>32, <1>33, <1>34, <1>35, <1>36, <1>37, <1>38, <1>39 DEF Next

\* The types hold at the start.
LEMMA InitTypes == Init => TypeOK
<1> SUFFICES ASSUME Init PROVE TypeOK
    OBVIOUS
<1>1. /\ isKadRTT \in BOOLEAN /\ closing \in BOOLEAN /\ mgrCtxDone \in BOOLEAN
      /\ isBootsrapping \in BOOLEAN /\ timerCh \in BOOLEAN /\ fixLowPeersChan \in BOOLEAN
    BY LoopAssumption, Zenon DEF Init
<1> QED
    BY <1>1, LoopAssumption DEF Init, TableInit, TypeOK

\* The variables of rtPeerLoop, the manager, fixLowPeers and the notifee keep their types.
THEOREM TypeCorrect == Spec => []TypeOK
    BY InitTypes, TypeStep, PTL DEF Spec
-----------------------------------------------------------------------------
(* The bootstrap and the freeze timer.                                      *)

\* FreezeInv is inductive together with: a bootstrap begins with the count at 0.
BootInv ==
    /\ FreezeInv
    /\ isBootsrapping => bootstrapCount = 0

\* Who changes the variables of the bootstrap.
LEMMA BootFrame ==
    [Next]_vars => \/ \E s \in Finders : LoopReceive(s)
                   \/ LoopRefreshFinished \/ MarkAllPeersIrreplaceable \/ LoopClose
                   \/ UNCHANGED bootVars
    BY DEF Next, vars, loopVars, bootVars, AbandonSend, LoopAdd, processAdd, LoopNotify,
           MgrEvict, LookupFound, LookupEvicts, FixFound, EventFound, EventStopped,
           MgrTrigger, Refresh, RefreshAfterEnd, MgrTick, MgrBatched, MgrPinged, QueriedSelf,
           RefreshedCpl, RefreshedGap, RestRefreshed, RefreshedAll, AbandonDone, MgrReply,
           MgrClose, FixBegin, FixEnd, FixClose, EventEnd, EventAddresses, EventClose,
           Bootstrap, Close, Teardown, Ended

\* One step keeps the bootstrap's variables consistent.
LEMMA BootStep == TypeOK /\ BootInv /\ [Next]_vars => BootInv'
<1> SUFFICES ASSUME TypeOK, BootInv, [Next]_vars PROVE BootInv'
    OBVIOUS
<1> USE DEF BootInv, FreezeInv, TypeOK
<1>1. ASSUME NEW s \in Finders, LoopReceive(s) PROVE BootInv'
    BY <1>1 DEF LoopReceive
<1>2. CASE LoopRefreshFinished
    BY <1>2 DEF LoopRefreshFinished
<1>3. CASE MarkAllPeersIrreplaceable
    BY <1>3 DEF MarkAllPeersIrreplaceable
<1>4. CASE LoopClose
    BY <1>4 DEF LoopClose
<1>5. CASE UNCHANGED bootVars
    BY <1>5 DEF bootVars
<1> QED
    BY <1>1, <1>2, <1>3, <1>4, <1>5, BootFrame

\* A freeze timer never outlives the bootstrap it was set for (rtPeerLoop clears
\* timerCh when it finds the table empty).
THEOREM FreezeCorrect == Spec => []FreezeInv
<1>1. Init => TypeOK /\ BootInv
    BY InitTypes DEF Init, BootInv, FreezeInv
<1>2. BootInv => FreezeInv
    BY DEF BootInv
<1> QED
    BY <1>1, <1>2, TypeStep, BootStep, PTL DEF Spec

-----------------------------------------------------------------------------
(* The callers of Refresh.                                                  *)

\* Requests are taken, answered, or left alone while the manager works.
LEMMA WaitersStep == TypeOK /\ WaitersInv /\ [Next]_vars => WaitersInv'
<1> SUFFICES ASSUME TypeOK, WaitersInv, [Next]_vars PROVE WaitersInv'
    OBVIOUS
<1> USE DEF WaitersInv, TypeOK
<1>1. ASSUME NEW u \in Users, MgrTrigger(u) PROVE WaitersInv'
    BY <1>1 DEF MgrTrigger
<1>2. ASSUME NEW u \in Users, Refresh(u) PROVE WaitersInv'
    BY <1>2 DEF Refresh
<1>3. ASSUME NEW u \in Users, RefreshAfterEnd(u) PROVE WaitersInv'
    BY <1>3 DEF RefreshAfterEnd
<1>4. CASE MgrReply
    BY <1>4 DEF MgrReply
<1>5. CASE UNCHANGED <<waiting, user, mgr>>
    BY <1>5
<1>6. CASE /\ UNCHANGED <<waiting, user>>
           /\ \/ mgr \in {"off", "select"}
              \/ mgr' \notin {"off", "select", "closed"}
    BY <1>6
<1>7. \/ \E u \in Users : MgrTrigger(u) \/ Refresh(u) \/ RefreshAfterEnd(u)
      \/ MgrReply
      \/ UNCHANGED <<waiting, user, mgr>>
      \/ /\ UNCHANGED <<waiting, user>>
         /\ \/ mgr \in {"off", "select"}
            \/ mgr' \notin {"off", "select", "closed"}
    BY DEF Next, vars, mgrVars, refreshVars, LoopReceive, AbandonSend, LoopAdd, processAdd,
           LoopRefreshFinished, LoopNotify, RefreshNoWait, MarkAllPeersIrreplaceable, LoopClose,
           MgrEvict, LookupFound, LookupEvicts, FixFound, EventFound, EventStopped,
           MgrTick, MgrBatched, MgrPinged, QueriedSelf,
           RefreshedCpl, RefreshedGap, RestRefreshed, RefreshedAll, AbandonDone,
           MgrClose, FixBegin, FixEnd, FixClose, EventEnd, EventAddresses, EventClose,
           Bootstrap, Close, Teardown, Ended
<1> QED
    BY <1>1, <1>2, <1>3, <1>4, <1>5, <1>6, <1>7

\* No request of RefreshRoutingTable is forgotten by the manager, nor does the
\* manager end with one (the batches of loop and the replies after doRefresh).
THEOREM WaitersCorrect == Spec => []WaitersInv
<1>1. Init => TypeOK /\ WaitersInv
    BY InitTypes DEF Init, WaitersInv
<1> QED
    BY <1>1, TypeStep, WaitersStep, PTL DEF Spec
-----------------------------------------------------------------------------
(* The freeze.                                                              *)

FrozenInv ==
    /\ BootInv
    /\ FrozenMeansIrreplaceable
    /\ ~isKadRTT => adds = {}

\* Nobody changes the mode, and who changes the additions in flight.
LEMMA ModeFrame ==
    [Next]_vars => /\ isKadRTT' = isKadRTT
                   /\ \/ \E s \in Finders : LoopReceive(s)
                      \/ processAdd
                      \/ UNCHANGED adds
    BY DEF Next, vars, lifeVars, loopVars, LoopReceive, AbandonSend, LoopAdd, processAdd,
           LoopRefreshFinished, LoopNotify, MarkAllPeersIrreplaceable, LoopClose,
           MgrEvict, LookupFound, LookupEvicts, FixFound, EventFound, EventStopped,
           MgrTrigger, Refresh, RefreshAfterEnd, MgrTick, MgrBatched, MgrPinged, QueriedSelf,
           RefreshedCpl, RefreshedGap, RestRefreshed, RefreshedAll, AbandonDone, MgrReply,
           MgrClose, FixBegin, FixEnd, FixClose, EventEnd, EventAddresses, EventClose,
           Bootstrap, Close, Teardown, Ended

\* Who changes the table.
LEMMA TabFrame ==
    [Next]_vars => \/ LoopAdd \/ processAdd \/ MarkAllPeersIrreplaceable
                   \/ \E p \in Peers : RemovePeer(p)
                   \/ UNCHANGED tab
    BY DEF Next, vars, tabVars, LoopReceive, AbandonSend, LoopRefreshFinished, LoopNotify,
           LoopClose, MgrEvict, LookupFound, LookupEvicts, FixFound, EventFound, EventStopped,
           MgrTrigger, Refresh, RefreshAfterEnd, MgrTick, MgrBatched, MgrPinged, QueriedSelf,
           RefreshedCpl, RefreshedGap, RestRefreshed, RefreshedAll, AbandonDone, MgrReply,
           MgrClose, FixBegin, FixEnd, FixClose, EventEnd, EventAddresses, EventClose,
           Bootstrap, Close, Teardown, Ended

\* An addition after the bootstrap makes no peer replaceable.
LEMMA TryAddKept ==
    ASSUME TypeOK, ~isKadRTT, NEW r, TryAddPeer(r, FALSE),
           \A p \in Peers : tab[p] # "replaceable"
    PROVE  \A p \in Peers : tab'[p] # "replaceable"
<1>1. CASE UNCHANGED tab
    BY <1>1
<1>2. CASE Enter(r, FALSE)
    BY <1>2 DEF Enter, asAsked, TypeOK
<1>3. CASE MakeRoom(r, FALSE)
    BY <1>3 DEF MakeRoom
<1> QED
    BY <1>1, <1>2, <1>3, Zenon DEF TryAddPeer, TableAdd

\* No action leaves a replaceable peer in a table that stays frozen.
LEMMA FrozenStep == TypeOK /\ FrozenInv /\ [Next]_vars => FrozenInv'
<1> SUFFICES ASSUME TypeOK, FrozenInv, [Next]_vars PROVE FrozenInv'
    OBVIOUS
<1>1. BootInv'
    BY BootStep DEF FrozenInv
<1>2. isKadRTT' = isKadRTT
    BY ModeFrame
<1>3. (~isKadRTT => adds = {})'
    BY <1>2, ModeFrame DEF FrozenInv, LoopReceive, processAdd
<1>4. FrozenMeansIrreplaceable'
  <2> SUFFICES ASSUME ~isKadRTT, bootstrapCount' = 2, ~timerCh', NEW p \in Peers
               PROVE  tab'[p] # "replaceable"
    BY <1>2 DEF FrozenMeansIrreplaceable
  <2>1. CASE MarkAllPeersIrreplaceable
    BY <2>1 DEF MarkAllPeersIrreplaceable, TableFreeze
  <2>2. CASE ~MarkAllPeersIrreplaceable
    <3>1. bootstrapCount = 2 /\ ~timerCh
      <4>1. ASSUME NEW s \in Finders, LoopReceive(s) PROVE bootstrapCount = 2 /\ ~timerCh
        BY <4>1 DEF LoopReceive
      <4>2. CASE LoopRefreshFinished
        <5>1. ~timerCh /\ bootstrapCount # 1
          BY <4>2, Zenon DEF LoopRefreshFinished
        <5>2. bootstrapCount' = IF bootstrapCount < 2 THEN bootstrapCount + 1 ELSE 2
          BY <4>2 DEF LoopRefreshFinished
        <5> QED
          BY <5>1, <5>2 DEF TypeOK
      <4>3. CASE LoopClose
        BY <4>3 DEF LoopClose
      <4>4. CASE UNCHANGED bootVars
        BY <4>4 DEF bootVars
      <4> QED
        BY <2>2, <4>1, <4>2, <4>3, <4>4, BootFrame
    <3>2. \A q \in Peers : tab[q] # "replaceable"
      BY <3>1 DEF FrozenInv, FrozenMeansIrreplaceable
    <3>3. CASE LoopAdd
      <4>1. isBootsrapping = FALSE
        BY <3>1 DEF FrozenInv, BootInv, TypeOK
      <4>2. TryAddPeer(addReq, FALSE)
        BY <3>3, <4>1 DEF LoopAdd
      <4> QED
        BY <3>2, <4>2, TryAddKept
    <3>4. ~processAdd
      BY DEF FrozenInv, processAdd
    <3>5. ASSUME NEW r \in Peers, RemovePeer(r) PROVE tab'[p] # "replaceable"
      BY <3>2, <3>5 DEF RemovePeer, TableRemove, TypeOK
    <3> QED
      BY <2>2, <3>2, <3>3, <3>4, <3>5, TabFrame
  <2> QED
    BY <2>1, <2>2
<1> QED
    BY <1>1, <1>3, <1>4 DEF FrozenInv

\* Without KadRTT a table that was frozen has irreplaceable peers only, until it has
\* been empty again (rtPeerLoop and MarkAllPeersIrreplaceable).
THEOREM FrozenCorrect == Spec => []FrozenMeansIrreplaceable
<1>1. Init => TypeOK /\ FrozenInv
    BY InitTypes DEF Init, FrozenInv, BootInv, FreezeInv, FrozenMeansIrreplaceable
<1>2. FrozenInv => FrozenMeansIrreplaceable
    BY DEF FrozenInv
<1> QED
    BY <1>1, <1>2, TypeStep, FrozenStep, PTL DEF Spec
=============================================================================
