------------------------ MODULE MessageSenderProofs ------------------------
(***************************************************************************)
(* Proofs about the message senders, for any number of callers, messages   *)
(* and senders and any streamReuseTries.                                   *)
(***************************************************************************)
EXTENDS MessageSender, SequenceTheorems, TLAPS

\* The initial state is well typed.
LEMMA TypeInit == Init => TypeOK
<1> SUFFICES ASSUME Init PROVE TypeOK
    OBVIOUS
<1>1. \A s \in Senders : pipe[s] \in Seq(Callers \X Nat)
    BY DEF Init
<1>2. singleMes \in [Senders -> 0..(streamReuseTries + 1)] /\ calls \in [Callers -> 0..MaxCalls]
    BY SenderAssumption DEF Init, SenderAssumption
<1> QED
    BY <1>1, <1>2 DEF Init, TypeOK, Pcs

\* A caller goes on to one of its places.
LEMMA TypeGoto ==
    ASSUME TypeOK, NEW c \in Callers, NEW l \in Pcs, Goto(c, l)
    PROVE  pc' \in [Callers -> Pcs] /\ ended' \in [Callers -> BOOLEAN]
BY DEF Goto, TypeOK

\* A new sender is one that has not been used.
LEMMA NewIsNew ==
    ASSUME TypeOK, allocated # Senders
    PROVE  NewSender \in Senders \ allocated
BY DEF TypeOK, NewSender

\* The types of what the steps that prepare and choose a sender change.
LEMMA TypeChoose ==
    ASSUME TypeOK, NEW c \in Callers,
           messageSenderForPeer(c) \/ PrepLock(c) \/ PrepLockCancelled(c) \/ Prepared(c)
             \/ GiveUpSender(c) \/ Lock(c) \/ LockCancelled(c) \/ SendPrepared(c) \/ SendPrepFails(c)
    PROVE  TypeOK'
<1>1. CASE messageSenderForPeer(c)
  <2>1. calls' \in [Callers -> 0..MaxCalls]
    BY <1>1, SenderAssumption DEF messageSenderForPeer, TypeOK, SenderAssumption
  <2>2. /\ answer' \in [Callers -> (Callers \X Nat) \cup {<< >>}]
        /\ pc' \in [Callers -> Pcs] /\ ended' \in [Callers -> BOOLEAN]
    BY <1>1, TypeGoto DEF messageSenderForPeer, TypeOK, Pcs
  <2>4. retry' \in [Callers -> BOOLEAN]
    BY <1>1 DEF messageSenderForPeer, TypeOK
  <2>5. isRequest' \in [Callers -> BOOLEAN]
    BY <1>1 DEF messageSenderForPeer, TypeOK
  <2>3. /\ strmap' \in allocated' \cup {NoSender}
        /\ allocated' \subseteq Senders /\ allocated \subseteq allocated'
        /\ ms' \in [Callers -> allocated' \cup {NoSender}]
    <3>1. CASE strmap = NoSender
      BY <1>1, <3>1, NewIsNew DEF messageSenderForPeer, TypeOK
    <3>2. CASE strmap # NoSender
      BY <1>1, <3>2 DEF messageSenderForPeer, TypeOK
    <3> QED
      BY <3>1, <3>2
  <2> QED
    BY <1>1, <2>1, <2>2, <2>3, <2>4, <2>5 DEF messageSenderForPeer, TypeOK, streamVars
<1>2. CASE PrepLock(c) \/ PrepLockCancelled(c) \/ Lock(c) \/ LockCancelled(c) \/ SendPrepFails(c)
  <2>1. pc' \in [Callers -> Pcs] /\ ended' \in [Callers -> BOOLEAN]
    BY <1>2, TypeGoto DEF PrepLock, PrepLockCancelled, Lock, LockCancelled, SendPrepFails, Pcs
  <2> QED
    BY <1>2, <2>1 DEF PrepLock, PrepLockCancelled, Lock, LockCancelled, SendPrepFails, Unlock, TypeOK,
                      mapVars, streamVars
<1>3. CASE Prepared(c) \/ SendPrepared(c)
    BY <1>3 DEF Prepared, SendPrepared, PrepSucceeds, Unlock, TypeOK, Goto, Pcs, mapVars
<1>4. CASE GiveUpSender(c)
  <2>1. strmap' \in allocated \cup {NoSender} /\ ms' \in [Callers -> allocated \cup {NoSender}]
    BY <1>4 DEF GiveUpSender, TypeOK
  <2>2. pc' \in [Callers -> Pcs] /\ ended' \in [Callers -> BOOLEAN]
    BY <1>4, TypeGoto DEF GiveUpSender, Pcs
  <2> QED
    BY <1>4, <2>1, <2>2 DEF GiveUpSender, TypeOK, streamVars
<1> QED
    BY <1>1, <1>2, <1>3, <1>4

\* The caller has a sender wherever it works on one.
LEMMA HasSender ==
    ASSUME TypeOK, PipeInv, NEW c \in Callers, pc[c] # "idle"
    PROVE  ms[c] \in Senders
BY SenderAssumption DEF TypeOK, PipeInv, SenderAssumption

\* Resetting a stream, and the step that follows a failed attempt, keep the types.
LEMMA TypeFails ==
    ASSUME TypeOK, NEW c \in Callers, WriteFails(c) \/ ReadFails(c) \/ PrepareFails(c)
    PROVE  TypeOK'
<1>1. Reset(ms[c])
    BY DEF WriteFails, ReadFails, PrepareFails
<1>2. << >> \in Seq(Callers \X Nat)
    OBVIOUS
<1>3. stream' \in [Senders -> {"nil", "open"}] /\ pipe' \in [Senders -> Seq(Callers \X Nat)]
    BY <1>1, <1>2 DEF Reset, TypeOK
<1>4. CASE WriteFails(c) \/ ReadFails(c)
    BY <1>3, <1>4 DEF WriteFails, ReadFails, AttemptFails, Unlock, Goto, Pcs, mapVars, TypeOK
<1>5. CASE PrepareFails(c)
    BY <1>3, <1>5 DEF PrepareFails, Unlock, Goto, Pcs, mapVars, TypeOK
<1> QED
    BY <1>4, <1>5

\* A successful attempt keeps the types; singleMes stops at one more than the tries.
LEMMA TypeSucceeds ==
    ASSUME TypeOK, PipeInv, NEW c \in Callers, pc[c] # "idle",
           NEW left \in Seq(Callers \X Nat), Succeeds(c, left)
    PROVE  /\ stream' \in [Senders -> {"nil", "open"}]
           /\ pipe' \in [Senders -> Seq(Callers \X Nat)]
           /\ ended' \in [Callers -> BOOLEAN]
           /\ singleMes' \in [Senders -> 0..(streamReuseTries + 1)]
           /\ lk' \in [Senders -> Callers \cup {Free}]
           /\ pc' \in [Callers -> Pcs]
           /\ UNCHANGED <<mapVars, invalid, ms, isRequest, retry, calls>>
<1> DEFINE s == ms[c]
<1>1. s \in Senders
    BY HasSender
<1>2. << >> \in Seq(Callers \X Nat)
    OBVIOUS
<1>3. /\ lk' \in [Senders -> Callers \cup {Free}] /\ pc' \in [Callers -> Pcs]
      /\ ended' \in [Callers -> BOOLEAN]
    BY DEF Succeeds, Unlock, Goto, TypeOK, Pcs
<1>4. CASE singleMes[s] > streamReuseTries /\ Reset(s) /\ UNCHANGED singleMes
    BY <1>1, <1>2, <1>3, <1>4 DEF Succeeds, Reset, TypeOK
<1>5. CASE /\ singleMes[s] <= streamReuseTries
           /\ singleMes' = [singleMes EXCEPT ![s] = IF retry[c] THEN @ + 1 ELSE @]
           /\ pipe' = [pipe EXCEPT ![s] = left]
           /\ UNCHANGED stream
  <2>1. singleMes[s] \in 0..(streamReuseTries + 1)
    BY <1>1 DEF TypeOK
  <2>2. (IF retry[c] THEN singleMes[s] + 1 ELSE singleMes[s]) \in 0..(streamReuseTries + 1)
    BY <2>1, <1>5, SenderAssumption DEF SenderAssumption
  <2>3. singleMes' \in [Senders -> 0..(streamReuseTries + 1)]
    BY <1>5, <2>2 DEF TypeOK
  <2>4. pipe' \in [Senders -> Seq(Callers \X Nat)]
    BY <1>5 DEF TypeOK
  <2> QED
    BY <1>3, <1>5, <2>3, <2>4 DEF Succeeds, TypeOK
<1> QED
    BY <1>4, <1>5 DEF Succeeds

\* Writing a message and reading an answer keep the types.
LEMMA TypeEnds ==
    ASSUME TypeOK, PipeInv, NEW c \in Callers, WriteMessage(c) \/ WriteRequest(c) \/ ReadAnswer(c)
    PROVE  TypeOK'
<1>0. pc[c] # "idle"
    BY DEF WriteMessage, WriteRequest, ReadAnswer
<1>1. ms[c] \in Senders /\ pipe[ms[c]] \in Seq(Callers \X Nat)
    BY <1>0, HasSender DEF TypeOK
<1>2. Request(c) \in Callers \X Nat
    BY SenderAssumption DEF Request, TypeOK, SenderAssumption
<1>3. CASE WriteMessage(c)
    BY <1>0, <1>1, <1>3, TypeSucceeds DEF WriteMessage, TypeOK, mapVars
<1>4. CASE WriteRequest(c)
  <2>1. Append(pipe[ms[c]], Request(c)) \in Seq(Callers \X Nat)
    BY <1>1, <1>2
  <2>2. pipe' \in [Senders -> Seq(Callers \X Nat)]
    BY <1>4, <2>1 DEF WriteRequest, TypeOK
  <2> QED
    BY <1>4, <2>2 DEF WriteRequest, TypeOK, Goto, Pcs, mapVars
<1>5. CASE ReadAnswer(c)
  <2>1. Head(pipe[ms[c]]) \in Callers \X Nat /\ Tail(pipe[ms[c]]) \in Seq(Callers \X Nat)
    BY <1>1, <1>5 DEF ReadAnswer
  <2>2. answer' \in [Callers -> (Callers \X Nat) \cup {<< >>}]
    BY <1>5, <2>1 DEF ReadAnswer, TypeOK
  <2> QED
    BY <1>0, <1>5, <2>1, <2>2, TypeSucceeds DEF ReadAnswer, TypeOK, mapVars
<1> QED
    BY <1>3, <1>4, <1>5

\* Every step keeps the types.
LEMMA TypeNext == TypeOK /\ PipeInv /\ [Next]_vars => TypeOK'
<1> SUFFICES ASSUME TypeOK, PipeInv, [Next]_vars PROVE TypeOK'
    OBVIOUS
<1>1. ASSUME NEW c \in Callers, Caller(c) PROVE TypeOK'
    BY <1>1, TypeChoose, TypeFails, TypeEnds DEF Caller, AcquireLock, LeaveLock, Proceed
<1>2. ASSUME NEW s \in Senders, Invalidate(s) PROVE TypeOK'
  <2>1. << >> \in Seq(Callers \X Nat)
    OBVIOUS
  <2> QED
    BY <1>2, <2>1 DEF Invalidate, Reset, TypeOK, callVars
<1>3. CASE Disconnected
    BY <1>3 DEF Disconnected, TypeOK, callVars, streamVars
<1>4. CASE UNCHANGED vars
    BY <1>4 DEF vars, mapVars, streamVars, callVars, TypeOK
<1>5. ASSUME NEW c \in Callers, EndContext(c) PROVE TypeOK'
    BY <1>5 DEF EndContext, TypeOK, mapVars, streamVars
<1> QED
    BY <1>1, <1>2, <1>3, <1>4, <1>5 DEF Next, AllSent
-----------------------------------------------------------------------------
(* Who holds which lock, and what is in the streams.                        *)

\* Reading the only request of a stream empties it.
LEMMA OneRequest == ASSUME NEW r PROVE Head(<<r>>) = r /\ Tail(<<r>>) = << >>
OBVIOUS

\* At first nobody holds a lock and no stream is open.
LEMMA PipeInit == Init => PipeInv
BY SenderAssumption DEF Init, PipeInv, Holding, SenderAssumption

\* Steps that take or leave a lock without touching a stream.
LEMMA PipeLocks ==
    ASSUME TypeOK, PipeInv, NEW c \in Callers,
           PrepLock(c) \/ Lock(c) \/ SendPrepFails(c)
    PROVE  PipeInv'
<1>1. ms[c] \in Senders
    BY HasSender DEF PrepLock, Lock, SendPrepFails
<1> USE SenderAssumption DEF SenderAssumption
<1>2. CASE PrepLock(c) \/ Lock(c)
  <2>1. lk[ms[c]] = Free /\ lk' = [lk EXCEPT ![ms[c]] = c]
        /\ UNCHANGED <<stream, pipe, ms, calls>>
    BY <1>2 DEF PrepLock, Lock, streamVars
  <2>2. \A d \in Callers : pc'[d] = IF d = c THEN (IF pc[c] = "lock" THEN "sendPrep" ELSE "prep") ELSE pc[d]
    BY <1>2 DEF PrepLock, Lock, Goto, TypeOK
  <2>3. pc[c] \in {"prepLock", "lock"}
    BY <1>2 DEF PrepLock, Lock
  <2> QED
    BY <1>1, <2>1, <2>2, <2>3 DEF PipeInv, TypeOK, Holding, Request
<1>3. CASE SendPrepFails(c)
  <2>1. lk' = [lk EXCEPT ![ms[c]] = Free] /\ UNCHANGED <<stream, pipe, ms, calls>>
    BY <1>3 DEF SendPrepFails, Unlock, streamVars
  <2>2. \A d \in Callers : pc'[d] = IF d = c THEN "idle" ELSE pc[d]
    BY <1>3 DEF SendPrepFails, Goto, TypeOK
  <2>3. lk[ms[c]] = c
    BY <1>1, <1>3 DEF SendPrepFails, PipeInv, Holding
  <2> QED
    BY <1>1, <2>1, <2>2, <2>3, <1>3 DEF PipeInv, TypeOK, Holding, Request, SendPrepFails
<1> QED
    BY <1>2, <1>3

\* Steps outside the lock.
LEMMA PipeOutside ==
    ASSUME TypeOK, PipeInv, NEW c \in Callers,
           messageSenderForPeer(c) \/ PrepLockCancelled(c) \/ LockCancelled(c) \/ GiveUpSender(c)
    PROVE  PipeInv'
<1> USE SenderAssumption DEF SenderAssumption
<1>1. UNCHANGED <<stream, pipe, lk>>
    BY DEF messageSenderForPeer, PrepLockCancelled, LockCancelled, GiveUpSender, streamVars
<1>2. pc[c] \notin Holding /\ pc'[c] \notin Holding
    BY DEF messageSenderForPeer, PrepLockCancelled, LockCancelled, GiveUpSender, Goto, Holding, TypeOK
<1>3. \A d \in Callers \ {c} : ms'[d] = ms[d] /\ calls'[d] = calls[d] /\ pc'[d] = pc[d]
    BY DEF messageSenderForPeer, PrepLockCancelled, LockCancelled, GiveUpSender, TypeOK, Goto
<1>4. pc'[c] # "idle" => ms'[c] # NoSender
  <2>1. CASE messageSenderForPeer(c)
    BY <2>1, NewIsNew DEF messageSenderForPeer, TypeOK
  <2> QED
    BY <2>1 DEF PrepLockCancelled, LockCancelled, GiveUpSender, TypeOK, Goto, PipeInv
<1>5. (\A d \in Callers : pc[d] # "idle" => ms[d] # NoSender)'
  BY <1>3, <1>4 DEF PipeInv
<1>6. (\A d \in Callers, t \in Senders : lk[t] = d <=> (pc[d] \in Holding /\ ms[d] = t))'
  <2> SUFFICES ASSUME NEW d \in Callers, NEW t \in Senders
               PROVE  lk'[t] = d <=> (pc'[d] \in Holding /\ ms'[d] = t)
    BY DEF Holding
  <2>1. lk[t] = d <=> (pc[d] \in Holding /\ ms[d] = t)
    BY DEF PipeInv
  <2>2. CASE d = c
    BY <1>1, <1>2, <2>1, <2>2
  <2>3. CASE d # c
    BY <1>1, <1>3, <2>1, <2>3
  <2> QED
    BY <2>2, <2>3
<1>7. (\A d \in Callers : pc[d] \in {"write", "read"} => stream[ms[d]] = "open")'
  BY <1>1, <1>2, <1>3 DEF PipeInv, Holding
<1>8. (\A d \in Callers : pc[d] = "read" => pipe[ms[d]] = <<Request(d)>>)'
  BY <1>1, <1>2, <1>3 DEF PipeInv, Holding, Request
<1>9. (\A t \in Senders : pipe[t] = << >> \/ \E d \in Callers : lk[t] = d /\ pc[d] = "read")'
  BY <1>1, <1>2, <1>3 DEF PipeInv, Holding
<1> QED
  BY <1>5, <1>6, <1>7, <1>8, <1>9 DEF PipeInv

\* Steps under the lock that open a stream or write to it.
LEMMA PipeWrites ==
    ASSUME TypeOK, PipeInv, NEW c \in Callers,
           Prepared(c) \/ SendPrepared(c) \/ WriteRequest(c)
    PROVE  PipeInv'
<1> USE SenderAssumption DEF SenderAssumption
<1>1. ms[c] \in Senders /\ lk[ms[c]] = c
    BY HasSender DEF Prepared, SendPrepared, WriteRequest, PipeInv, Holding
<1>2. pipe[ms[c]] = << >>
    BY <1>1 DEF Prepared, SendPrepared, WriteRequest, PipeInv
<1>3. \A d \in Callers : d # c /\ pc[d] \in Holding => ms[d] # ms[c]
    BY <1>1 DEF PipeInv
<1>4. CASE Prepared(c)
    BY <1>1, <1>2, <1>3, <1>4 DEF Prepared, PrepSucceeds, Unlock, Goto, PipeInv, TypeOK, Holding, Request
<1>5. CASE SendPrepared(c)
    BY <1>1, <1>2, <1>3, <1>5 DEF SendPrepared, PrepSucceeds, Goto, PipeInv, TypeOK, Holding, Request
<1>6. CASE WriteRequest(c)
  <2>1. Append(pipe[ms[c]], Request(c)) = <<Request(c)>>
    BY <1>2
  <2> QED
    BY <1>1, <1>3, <1>6, <2>1 DEF WriteRequest, Goto, PipeInv, TypeOK, Holding, Request
<1> QED
    BY <1>4, <1>5, <1>6

\* Steps under the lock after which the stream is empty.
LEMMA PipeEmpties ==
    ASSUME TypeOK, PipeInv, NEW c \in Callers,
           PrepareFails(c) \/ WriteFails(c) \/ ReadFails(c) \/ WriteMessage(c) \/ ReadAnswer(c)
    PROVE  PipeInv'
<1> USE SenderAssumption DEF SenderAssumption
<1> DEFINE s == ms[c]
<1>1. s \in Senders /\ lk[s] = c
    BY HasSender DEF PrepareFails, WriteFails, ReadFails, WriteMessage, ReadAnswer, PipeInv, Holding
<1>2. \A d \in Callers : d # c /\ pc[d] \in Holding => ms[d] # s
    BY <1>1 DEF PipeInv
<1>3. UNCHANGED <<ms, calls>>
    BY DEF PrepareFails, WriteFails, ReadFails, WriteMessage, ReadAnswer, AttemptFails, Succeeds
<1>4. pipe' = [pipe EXCEPT ![s] = << >>]
  <2>1. CASE PrepareFails(c) \/ WriteFails(c) \/ ReadFails(c)
    BY <2>1 DEF PrepareFails, WriteFails, ReadFails, Reset
  <2>2. CASE WriteMessage(c)
    <3>1. pipe[s] = << >>
      BY <1>1, <2>2 DEF WriteMessage, PipeInv
    <3> QED
      BY <2>2, <3>1 DEF WriteMessage, Succeeds, Reset
  <2>3. CASE ReadAnswer(c)
    <3>1. pipe[s] = <<Request(c)>>
      BY <2>3 DEF ReadAnswer, PipeInv
    <3>2. Tail(pipe[s]) = << >>
      BY <3>1, OneRequest
    <3> QED
      BY <2>3, <3>2 DEF ReadAnswer, Succeeds, Reset
  <2> QED
    BY <2>1, <2>2, <2>3
<1>5. \A t \in Senders : t # s => stream'[t] = stream[t]
    BY DEF PrepareFails, WriteFails, ReadFails, WriteMessage, ReadAnswer, Succeeds, Reset, TypeOK
<1>6. \/ lk' = [lk EXCEPT ![s] = Free] /\ pc' \in {[pc EXCEPT ![c] = "idle"], [pc EXCEPT ![c] = "prepFailed"]}
      \/ lk' = lk /\ pc' = [pc EXCEPT ![c] = "sendPrep"]
    BY DEF PrepareFails, WriteFails, ReadFails, WriteMessage, ReadAnswer, AttemptFails, Succeeds, Unlock, Goto
<1>7. pc[c] \in Holding
    BY DEF PrepareFails, WriteFails, ReadFails, WriteMessage, ReadAnswer, Holding
<1>10. \A d \in Callers : pc[d] # "idle" => ms[d] \in Senders
    BY HasSender
<1>11. pc'[c] \notin {"write", "read"} /\ \A d \in Callers : d # c => pc'[d] = pc[d]
    BY <1>6 DEF TypeOK
<1>12. (\A d \in Callers : pc[d] \in {"write", "read"} => stream[ms[d]] = "open")'
  <2> SUFFICES ASSUME NEW d \in Callers, pc'[d] \in {"write", "read"}
               PROVE  stream'[ms'[d]] = "open"
    OBVIOUS
  <2>1. d # c /\ pc[d] \in {"write", "read"}
    BY <1>11
  <2>2. ms[d] \in Senders /\ ms[d] # s /\ stream[ms[d]] = "open"
    BY <1>2, <1>10, <2>1 DEF PipeInv, Holding
  <2> QED
    BY <1>3, <1>5, <2>2
<1>8. CASE lk' = [lk EXCEPT ![s] = Free] /\ pc' \in {[pc EXCEPT ![c] = "idle"], [pc EXCEPT ![c] = "prepFailed"]}
  <2>1. (\A d \in Callers : pc[d] # "idle" => ms[d] # NoSender)'
    BY <1>1, <1>2, <1>3, <1>4, <1>5, <1>7, <1>8 DEF PipeInv, TypeOK
  <2>2. (\A d \in Callers, t \in Senders : lk[t] = d <=> (pc[d] \in Holding /\ ms[d] = t))'
    BY <1>1, <1>2, <1>3, <1>4, <1>5, <1>7, <1>8 DEF PipeInv, TypeOK, Holding
  <2>4. (\A d \in Callers : pc[d] = "read" => pipe[ms[d]] = <<Request(d)>>)'
    BY <1>1, <1>2, <1>3, <1>4, <1>5, <1>7, <1>8 DEF PipeInv, TypeOK, Holding, Request
  <2>5. (\A t \in Senders : pipe[t] = << >> \/ \E d \in Callers : lk[t] = d /\ pc[d] = "read")'
    BY <1>1, <1>2, <1>3, <1>4, <1>5, <1>7, <1>8 DEF PipeInv, TypeOK, Holding
  <2> QED
    BY <1>12, <2>1, <2>2, <2>4, <2>5 DEF PipeInv
<1>9. CASE lk' = lk /\ pc' = [pc EXCEPT ![c] = "sendPrep"]
  <2>1. (\A d \in Callers : pc[d] # "idle" => ms[d] # NoSender)'
    BY <1>1, <1>2, <1>3, <1>4, <1>5, <1>7, <1>9 DEF PipeInv, TypeOK
  <2>2. (\A d \in Callers, t \in Senders : lk[t] = d <=> (pc[d] \in Holding /\ ms[d] = t))'
    BY <1>1, <1>2, <1>3, <1>4, <1>5, <1>7, <1>9 DEF PipeInv, TypeOK, Holding
  <2>4. (\A d \in Callers : pc[d] = "read" => pipe[ms[d]] = <<Request(d)>>)'
    BY <1>1, <1>2, <1>3, <1>4, <1>5, <1>7, <1>9 DEF PipeInv, TypeOK, Holding, Request
  <2>5. (\A t \in Senders : pipe[t] = << >> \/ \E d \in Callers : lk[t] = d /\ pc[d] = "read")'
    BY <1>1, <1>2, <1>3, <1>4, <1>5, <1>7, <1>9 DEF PipeInv, TypeOK, Holding
  <2> QED
    BY <1>12, <2>1, <2>2, <2>4, <2>5 DEF PipeInv
<1> QED
    BY <1>6, <1>8, <1>9

\* Every step keeps PipeInv.
LEMMA PipeNext == TypeOK /\ PipeInv /\ [Next]_vars => PipeInv'
<1> SUFFICES ASSUME TypeOK, PipeInv, [Next]_vars PROVE PipeInv'
    OBVIOUS
<1>1. ASSUME NEW c \in Callers, Caller(c) PROVE PipeInv'
    BY <1>1, PipeLocks, PipeOutside, PipeWrites, PipeEmpties DEF Caller, AcquireLock, LeaveLock, Proceed
<1>2. ASSUME NEW s \in Senders, Invalidate(s) PROVE PipeInv'
  <2>1. \A c \in Callers : pc[c] \in Holding => ms[c] # s
    BY <1>2, SenderAssumption DEF Invalidate, PipeInv, SenderAssumption
  <2> QED
    BY <1>2, <2>1 DEF Invalidate, Reset, PipeInv, TypeOK, Holding, Request, callVars
<1>3. CASE Disconnected
    BY <1>3 DEF Disconnected, PipeInv, Request, callVars, streamVars
<1>4. CASE UNCHANGED vars
    BY <1>4 DEF vars, mapVars, streamVars, callVars, PipeInv, Request
<1>5. ASSUME NEW c \in Callers, EndContext(c) PROVE PipeInv'
    BY <1>5 DEF EndContext, PipeInv, Request, streamVars
<1> QED
    BY <1>1, <1>2, <1>3, <1>4, <1>5 DEF Next, AllSent

\* The types of the message senders hold for every number of callers and senders.
THEOREM TypeCorrect == Spec => []TypeOK
BY TypeInit, PipeInit, TypeNext, PipeNext, PTL DEF Spec

\* A lock has one holder, and a stream that nobody reads from is empty.
THEOREM PipeCorrect == Spec => []PipeInv
BY TypeInit, PipeInit, TypeNext, PipeNext, PTL DEF Spec
-----------------------------------------------------------------------------
\* Which steps of a caller change its answer, and to what.
LEMMA AnswerMoves ==
    ASSUME TypeOK, PipeInv, NEW c \in Callers, Caller(c)
    PROVE  /\ \A d \in Callers \ {c} : answer'[d] = answer[d] /\ calls'[d] = calls[d]
           /\ \/ answer'[c] = << >>
              \/ answer'[c] = answer[c] /\ calls'[c] = calls[c]
              \/ answer'[c] = Request(c) /\ calls'[c] = calls[c]
<1>1. CASE messageSenderForPeer(c)
    BY <1>1 DEF messageSenderForPeer, TypeOK
<1>2. CASE ReadAnswer(c)
  <2>1. pipe[ms[c]] = <<Request(c)>>
    BY <1>2 DEF ReadAnswer, PipeInv
  <2>2. Head(pipe[ms[c]]) = Request(c)
    BY <2>1, OneRequest
  <2>3. answer' = [answer EXCEPT ![c] = Request(c)] /\ calls' = calls
    BY <1>2, <2>2 DEF ReadAnswer, Succeeds
  <2> QED
    BY <2>3 DEF TypeOK
<1>3. CASE ~messageSenderForPeer(c) /\ ~ReadAnswer(c)
  <2>1. UNCHANGED <<answer, calls>>
    BY <1>3 DEF Caller, AcquireLock, LeaveLock, Proceed, PrepLock, Lock, PrepLockCancelled, LockCancelled,
                Prepared, PrepareFails, GiveUpSender, SendPrepared, SendPrepFails, WriteFails,
                WriteMessage, WriteRequest, ReadFails, AttemptFails, Succeeds
  <2> QED
    BY <2>1
<1> QED
    BY <1>1, <1>2, <1>3

\* A caller only ever takes the answer to the request it is working on: an
\* answer that comes late is lost with its stream.
THEOREM AnswersAreOwn == Spec => []AnswerIsOwn
<1>1. Init => AnswerIsOwn
    BY DEF Init, AnswerIsOwn
<1>2. TypeOK /\ PipeInv /\ AnswerIsOwn /\ [Next]_vars => AnswerIsOwn'
  <2> SUFFICES ASSUME TypeOK, PipeInv, AnswerIsOwn, [Next]_vars PROVE AnswerIsOwn'
    OBVIOUS
  <2>1. ASSUME NEW c \in Callers, Caller(c) PROVE AnswerIsOwn'
    BY <2>1, AnswerMoves DEF AnswerIsOwn, Request
  <2>2. CASE UNCHANGED <<answer, calls>>
    BY <2>2 DEF AnswerIsOwn, Request
  <2>3. CASE \/ Disconnected \/ (\E s \in Senders : Invalidate(s)) \/ UNCHANGED vars
             \/ \E c \in Callers : EndContext(c)
    BY <2>2, <2>3 DEF Disconnected, Invalidate, EndContext, vars, callVars
  <2> QED
    BY <2>1, <2>3 DEF Next, AllSent
<1> QED
    BY <1>1, <1>2, TypeCorrect, PipeCorrect, PTL DEF Spec
-----------------------------------------------------------------------------
(* Invalid senders.  Senders are never put back into the map, so the ones   *)
(* that await their invalidation are not in it.                             *)

\* What holds of fresh and of dropped senders, besides the two properties.
DroppedInv ==
    /\ InvalidHasNoStream
    /\ MappedIsUsable
    /\ strmap \notin dropped
    /\ \A s \in Senders \ allocated : stream[s] = "nil" /\ ~invalid[s]

\* What a step of a caller does to the map, the streams and the invalid flags.
LEMMA SenderMoves ==
    ASSUME TypeOK, PipeInv, NEW c \in Callers, Caller(c)
    PROVE  /\ dropped' = dropped
           /\ \/ UNCHANGED <<strmap, allocated>>
              \/ /\ strmap = NoSender /\ strmap' \in Senders \ allocated
                 /\ allocated' = allocated \cup {strmap'}
              \/ /\ pc[c] = "prepFailed" /\ strmap \in {NoSender, ms[c]}
                 /\ strmap' = NoSender /\ allocated' = allocated
           /\ \A s \in Senders : stream'[s] # stream[s] =>
                 s = ms[c] /\ (stream'[s] = "nil" \/ ~invalid[s])
           /\ \/ invalid' = invalid
              \/ /\ invalid' = [invalid EXCEPT ![ms[c]] = TRUE] /\ stream'[ms[c]] = "nil"
                 /\ pc' = [pc EXCEPT ![c] = "prepFailed"] /\ ms' = ms /\ UNCHANGED strmap
           /\ \A d \in Callers \ {c} : pc'[d] = pc[d] /\ ms'[d] = ms[d]
           /\ pc[c] = "prepFailed" => strmap' \notin Senders \/ strmap' # ms[c]
<1> USE SenderAssumption DEF SenderAssumption
<1>0. pc[c] # "idle" => ms[c] \in Senders
    BY HasSender
<1>1. CASE messageSenderForPeer(c)
    BY <1>1, NewIsNew DEF messageSenderForPeer, TypeOK, Goto, streamVars
<1>2. CASE GiveUpSender(c)
    BY <1>2 DEF GiveUpSender, TypeOK, Goto, streamVars
<1>3. CASE PrepLock(c) \/ Lock(c) \/ PrepLockCancelled(c) \/ LockCancelled(c)
             \/ SendPrepFails(c) \/ WriteRequest(c)
    BY <1>3 DEF PrepLock, Lock, PrepLockCancelled, LockCancelled, SendPrepFails, WriteRequest,
                Goto, TypeOK, mapVars, streamVars
<1>4. CASE Prepared(c) \/ SendPrepared(c)
    BY <1>4 DEF Prepared, SendPrepared, PrepSucceeds, Goto, TypeOK, mapVars
<1>5. CASE PrepareFails(c)
    BY <1>0, <1>5 DEF PrepareFails, Reset, Goto, TypeOK, mapVars
<1>6. CASE WriteFails(c) \/ ReadFails(c)
  <2>1. UNCHANGED <<mapVars, invalid, ms>> /\ Reset(ms[c]) /\ pc[c] \in {"write", "read"}
    BY <1>6 DEF WriteFails, ReadFails, AttemptFails
  <2>2. \A d \in Callers \ {c} : pc'[d] = pc[d]
    BY <1>6 DEF WriteFails, ReadFails, AttemptFails, Goto, TypeOK
  <2> QED
    BY <2>1, <2>2 DEF Reset, TypeOK, mapVars
<1>7. CASE WriteMessage(c) \/ ReadAnswer(c)
  <2>1. /\ UNCHANGED <<mapVars, invalid, ms>> /\ (Reset(ms[c]) \/ UNCHANGED stream)
        /\ pc[c] \in {"write", "read"}
    BY <1>7 DEF WriteMessage, ReadAnswer, Succeeds
  <2>2. \A d \in Callers \ {c} : pc'[d] = pc[d]
    BY <1>7 DEF WriteMessage, ReadAnswer, Succeeds, Goto, TypeOK
  <2> QED
    BY <2>1, <2>2 DEF Reset, TypeOK, mapVars
<1> QED
    BY <1>1, <1>2, <1>3, <1>4, <1>5, <1>6, <1>7 DEF Caller, AcquireLock, LeaveLock, Proceed

\* A step of a caller keeps DroppedInv.
LEMMA DroppedCaller ==
    ASSUME TypeOK, PipeInv, DroppedInv, NEW c \in Callers, Caller(c)
    PROVE  DroppedInv'
<1> USE SenderAssumption DEF SenderAssumption
<1>0. /\ ms[c] \in allocated \cup {NoSender} /\ allocated \subseteq Senders /\ dropped \subseteq allocated
      /\ strmap \in allocated \cup {NoSender} /\ invalid \in [Senders -> BOOLEAN]
      /\ stream \in [Senders -> {"nil", "open"}] /\ pc \in [Callers -> Pcs]
    BY DEF TypeOK
<1>1. InvalidHasNoStream'
    BY <1>0, SenderMoves DEF DroppedInv, InvalidHasNoStream
<1>2. MappedIsUsable'
  <2> SUFFICES ASSUME strmap' # NoSender, invalid'[strmap']
               PROVE  \E d \in Callers : pc'[d] = "prepFailed" /\ ms'[d] = strmap'
    BY DEF MappedIsUsable
  <2>1. CASE strmap' \in Senders \ allocated
    BY <1>0, <2>1, SenderMoves DEF DroppedInv
  <2>2. CASE strmap' = strmap
    <3>1. CASE invalid[strmap]
      <4>1. PICK d \in Callers : pc[d] = "prepFailed" /\ ms[d] = strmap
        BY <2>2, <3>1 DEF DroppedInv, MappedIsUsable
      <4>2. d # c
        BY <1>0, <2>2, <4>1, SenderMoves
      <4> QED
        BY <2>2, <4>1, <4>2, SenderMoves
    <3>2. CASE ~invalid[strmap]
      <4>1. invalid' = [invalid EXCEPT ![ms[c]] = TRUE] /\ pc' = [pc EXCEPT ![c] = "prepFailed"] /\ ms' = ms
        BY <2>2, <3>2, SenderMoves
      <4>2. strmap = ms[c]
        BY <1>0, <2>2, <3>2, <4>1
      <4> QED
        BY <1>0, <2>2, <4>1, <4>2
    <3> QED
      BY <3>1, <3>2
  <2> QED
    BY <2>1, <2>2, SenderMoves
<1>3. (strmap \notin dropped)'
    BY <1>0, SenderMoves DEF DroppedInv
<1>4. (\A s \in Senders \ allocated : stream[s] = "nil" /\ ~invalid[s])'
  <2> SUFFICES ASSUME NEW s \in Senders \ allocated' PROVE stream'[s] = "nil" /\ ~invalid'[s]
    OBVIOUS
  <2>1. s \notin allocated /\ s # ms[c]
    BY <1>0, SenderMoves
  <2>2. stream'[s] = stream[s] /\ invalid'[s] = invalid[s]
    BY <1>0, <2>1, SenderMoves
  <2> QED
    BY <2>1, <2>2 DEF DroppedInv
<1> QED
    BY <1>1, <1>2, <1>3, <1>4 DEF DroppedInv

\* Every step keeps DroppedInv.
LEMMA DroppedNext == TypeOK /\ PipeInv /\ DroppedInv /\ [Next]_vars => DroppedInv'
<1> SUFFICES ASSUME TypeOK, PipeInv, DroppedInv, [Next]_vars PROVE DroppedInv'
    OBVIOUS
<1> USE SenderAssumption DEF SenderAssumption
<1>1. ASSUME NEW s \in Senders, Invalidate(s) PROVE DroppedInv'
  <2>1. s \in allocated /\ s # strmap
    BY <1>1 DEF Invalidate, DroppedInv, TypeOK
  <2>2. UNCHANGED <<strmap, allocated, pc, ms>> /\ dropped' = dropped \ {s}
    BY <1>1 DEF Invalidate, callVars
  <2>3. /\ \A t \in Senders : t # s => stream'[t] = stream[t] /\ invalid'[t] = invalid[t]
        /\ stream'[s] = "nil" /\ invalid'[s]
    BY <1>1 DEF Invalidate, Reset, TypeOK
  <2>4. strmap \in Senders \cup {NoSender}
    BY DEF TypeOK
  <2> QED
    BY <2>1, <2>2, <2>3, <2>4 DEF DroppedInv, InvalidHasNoStream, MappedIsUsable
<1>2. CASE Disconnected
    BY <1>2 DEF Disconnected, DroppedInv, InvalidHasNoStream, MappedIsUsable, TypeOK, streamVars, callVars
<1>3. CASE UNCHANGED vars
    BY <1>3 DEF vars, mapVars, streamVars, callVars, DroppedInv, InvalidHasNoStream, MappedIsUsable
<1>4. ASSUME NEW c \in Callers, EndContext(c) PROVE DroppedInv'
    BY <1>4 DEF EndContext, DroppedInv, InvalidHasNoStream, MappedIsUsable, mapVars, streamVars
<1> QED
    BY <1>1, <1>2, <1>3, <1>4, DroppedCaller DEF Next, AllSent

\* DroppedInv holds in every state.
LEMMA DroppedCorrect == Spec => []DroppedInv
<1>1. Init => DroppedInv
    BY SenderAssumption DEF Init, DroppedInv, InvalidHasNoStream, MappedIsUsable, SenderAssumption
<1> QED
    BY <1>1, DroppedNext, TypeCorrect, PipeCorrect, PTL DEF Spec

\* prep cannot reopen a sender that has been invalidated.
THEOREM InvalidStaysClosed == Spec => []InvalidHasNoStream
<1>1. DroppedInv => InvalidHasNoStream
    BY DEF DroppedInv
<1> QED
    BY <1>1, DroppedCorrect, PTL

\* strmap never keeps an invalid sender that nobody is about to remove.
THEOREM MappedStaysUsable == Spec => []MappedIsUsable
<1>1. DroppedInv => MappedIsUsable
    BY DEF DroppedInv
<1> QED
    BY <1>1, DroppedCorrect, PTL
-----------------------------------------------------------------------------
\* If no context ends, so that nobody gives up its wait for the lock, every sender is in
\* the map, awaits its invalidation, or is invalid.
OwnedInv ==
    /\ \A s \in allocated : s = strmap \/ s \in dropped \/ invalid[s]
    /\ \A c \in Callers : pc[c] = "prepFailed" => invalid[ms[c]]
    /\ \A c \in Callers : ~ended[c]

\* Every step keeps OwnedInv, provided contexts do not end.
LEMMA OwnedNext ==
    ASSUME ~ContextsEnd
    PROVE  TypeOK /\ PipeInv /\ DroppedInv /\ OwnedInv /\ [Next]_vars => OwnedInv'
<1> SUFFICES ASSUME TypeOK, PipeInv, DroppedInv, OwnedInv, [Next]_vars PROVE OwnedInv'
    OBVIOUS
<1> USE SenderAssumption DEF SenderAssumption
<1>0. /\ allocated \subseteq Senders /\ invalid \in [Senders -> BOOLEAN]
      /\ strmap \in allocated \cup {NoSender} /\ pc \in [Callers -> Pcs]
      /\ \A d \in Callers : pc[d] # "idle" => ms[d] \in Senders
    BY HasSender DEF TypeOK
<1>1. ASSUME NEW c \in Callers, Caller(c) PROVE OwnedInv'
  <2>1. \A s \in Senders : invalid[s] => invalid'[s]
    BY <1>0, <1>1, SenderMoves
  <2>2. (\A s \in allocated : s = strmap \/ s \in dropped \/ invalid[s])'
    <3> SUFFICES ASSUME NEW s \in allocated'
                 PROVE  s = strmap' \/ s \in dropped' \/ invalid'[s]
      OBVIOUS
    <3>1. s = strmap' \/ s \in allocated
      BY <1>1, SenderMoves
    <3>2. ASSUME s \in allocated, s = strmap, s # strmap' PROVE invalid[s]
      <4>1. pc[c] = "prepFailed" /\ strmap \in {NoSender, ms[c]}
        BY <1>0, <1>1, <3>2, SenderMoves
      <4> QED
        BY <1>0, <3>2, <4>1 DEF OwnedInv
    <3>3. dropped' = dropped
      BY <1>1, SenderMoves
    <3> QED
      BY <1>0, <2>1, <3>1, <3>2, <3>3 DEF OwnedInv
  <2>3. pc'[c] = "prepFailed" => PrepareFails(c)
    BY <1>0, <1>1 DEF OwnedInv, Caller, AcquireLock, LeaveLock, Proceed, messageSenderForPeer, PrepLock, Lock,
              PrepLockCancelled, LockCancelled, Prepared, GiveUpSender, SendPrepared, SendPrepFails,
              WriteFails, WriteMessage, WriteRequest, ReadFails, ReadAnswer, AttemptFails, Succeeds, Goto
  <2>4. pc'[c] = "prepFailed" => invalid'[ms'[c]]
    BY <1>0, <2>3 DEF PrepareFails
  <2>5. \A d \in Callers : d # c /\ pc'[d] = "prepFailed" => invalid'[ms'[d]]
    BY <1>0, <1>1, <2>1, SenderMoves DEF OwnedInv
  <2>6. ended' = ended \/ ended' = [ended EXCEPT ![c] = FALSE]
    BY <1>1 DEF Caller, AcquireLock, LeaveLock, Proceed, messageSenderForPeer, PrepLock, Lock,
              PrepLockCancelled, LockCancelled, Prepared, PrepareFails, GiveUpSender, SendPrepared,
              SendPrepFails, WriteFails, WriteMessage, WriteRequest, ReadFails, ReadAnswer,
              AttemptFails, Succeeds, Goto
  <2>7. \A d \in Callers : ~ended'[d]
    BY <2>6 DEF OwnedInv, TypeOK
  <2> QED
    BY <2>2, <2>4, <2>5, <2>7 DEF OwnedInv
<1>2. ASSUME NEW s \in Senders, Invalidate(s) PROVE OwnedInv'
    BY <1>0, <1>2 DEF Invalidate, OwnedInv, callVars
<1>3. CASE Disconnected
    BY <1>3 DEF Disconnected, OwnedInv, callVars
<1>4. CASE UNCHANGED vars
    BY <1>4 DEF vars, mapVars, callVars, OwnedInv
<1>5. ASSUME NEW c \in Callers, EndContext(c) PROVE OwnedInv'
    BY <1>5 DEF EndContext
<1> QED
    BY <1>1, <1>2, <1>3, <1>4, <1>5 DEF Next, AllSent

\* The cancelled wait in prepOrInvalidate is the only way to forget a stream:
\* without it every sender with an open stream is in the map or will be invalidated.
THEOREM NothingForgotten ==
    ASSUME ~ContextsEnd PROVE Spec => []NoForgottenStream
<1>1. Init => OwnedInv
    BY DEF Init, OwnedInv
<1>2. TypeOK /\ DroppedInv /\ OwnedInv => NoForgottenStream
    BY DEF TypeOK, DroppedInv, InvalidHasNoStream, OwnedInv, NoForgottenStream
<1> QED
    BY <1>1, <1>2, OwnedNext, DroppedCorrect, TypeCorrect, PipeCorrect, PTL DEF Spec
=============================================================================
