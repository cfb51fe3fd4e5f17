--------------------------- MODULE MessageSender ---------------------------
(***************************************************************************)
(* How messages reach one remote peer (go-libp2p-kad-dht/dht_net.go,       *)
(* ctx_mutex.go, and Disconnected of subscriber_notifee.go).  strmap holds *)
(* at most one messageSender for the peer.  A sender owns one stream that  *)
(* is reused by every request, one at a time, under the sender's lock lk;  *)
(* callers keep a pointer to the sender they found, also after it has left *)
(* the map.  What happens under smlk is one step.                          *)
(*                                                                         *)
(* A dial, a write or a read may fail at any moment (an error, a timeout,  *)
(* a cancelled context): each is a choice between success and failure.     *)
(* Only a read ends in any case: a dial ends with its context, and a write *)
(* does not even look at that.                                             *)
(* Disconnected stands for the last connection to the peer going away.     *)
(***************************************************************************)
EXTENDS Integers, Sequences, FiniteSets

CONSTANTS
    Callers,            \* goroutines that send to the peer
    Senders,            \* the messageSender objects that may be allocated
    MaxCalls,           \* bound: how many messages each caller sends
    streamReuseTries,
    ContextsEnd,        \* the context of a call may end before the call
    NoSender, Free

ASSUME SenderAssumption ==
    /\ NoSender \notin Senders
    /\ Free \notin Callers
    /\ MaxCalls \in Nat
    /\ streamReuseTries \in Nat
    /\ ContextsEnd \in BOOLEAN

VARIABLES
    strmap,     \* dht.strmap[p], NoSender if absent
    allocated,  \* the senders that have been created
    stream,     \* stream[s]: ms.s, "nil" or "open"
    pipe,       \* pipe[s]: requests written to that stream and not yet answered
    invalid,    \* invalid[s]: ms.invalid
    singleMes,  \* singleMes[s]
    lk,         \* lk[s]: who holds ms.lk
    dropped,    \* senders whose asynchronous invalidation is still to run
    pc,         \* pc[c]: where caller c is
    ms,         \* ms[c]: the sender it uses
    isRequest,  \* isRequest[c]: SendRequest or SendMessage
    retry,      \* retry[c]
    calls,      \* calls[c]: how many messages c has begun to send
    ended,      \* ended[c]: the context of that call has ended
    answer      \* answer[c]: the request whose answer c has read, << >> if none

mapVars == <<strmap, allocated, dropped>>
streamVars == <<stream, pipe, singleMes>>
callVars == <<pc, ms, isRequest, retry, calls, ended, answer>>
vars == <<mapVars, streamVars, invalid, lk, callVars>>

Pcs == {"idle", "prepLock", "prep", "prepFailed", "lock", "sendPrep", "write", "read"}

\* The request c is working on.
Request(c) == <<c, calls[c]>>

\* A call that is over has no context any more.
Goto(c, l) ==
    /\ pc' = [pc EXCEPT ![c] = l]
    /\ ended' = IF l = "idle" THEN [ended EXCEPT ![c] = FALSE] ELSE ended

Unlock(s) == lk' = [lk EXCEPT ![s] = Free]

\* ms.s.Reset(), or Close(), and ms.s = nil: what is in the stream is lost.
Reset(s) ==
    /\ stream' = [stream EXCEPT ![s] = "nil"]
    /\ pipe' = [pipe EXCEPT ![s] = << >>]
-----------------------------------------------------------------------------
Init ==
    /\ strmap = NoSender
    /\ allocated = {}
    /\ stream = [s \in Senders |-> "nil"]
    /\ pipe = [s \in Senders |-> << >>]
    /\ invalid = [s \in Senders |-> FALSE]
    /\ singleMes = [s \in Senders |-> 0]
    /\ lk = [s \in Senders |-> Free]
    /\ dropped = {}
    /\ pc = [c \in Callers |-> "idle"]
    /\ ms = [c \in Callers |-> NoSender]
    /\ isRequest = [c \in Callers |-> FALSE]
    /\ retry = [c \in Callers |-> FALSE]
    /\ calls = [c \in Callers |-> 0]
    /\ ended = [c \in Callers |-> FALSE]
    /\ answer = [c \in Callers |-> << >>]

\* A fresh messageSender.  They are all alike.
NewSender == CHOOSE s \in Senders \ allocated : TRUE

(* sendRequest and sendMessage begin with messageSenderForPeer: the sender  *)
(* of the map, or a new one, which its creator has to prepare.              *)
messageSenderForPeer(c) ==
    /\ pc[c] = "idle"
    /\ calls[c] < MaxCalls
    /\ calls' = [calls EXCEPT ![c] = @ + 1]
    /\ answer' = [answer EXCEPT ![c] = << >>]
    /\ retry' = [retry EXCEPT ![c] = FALSE]
    /\ \E b \in BOOLEAN : isRequest' = [isRequest EXCEPT ![c] = b]
    /\ \/ /\ strmap # NoSender
          /\ ms' = [ms EXCEPT ![c] = strmap]
          /\ Goto(c, "lock")
          /\ UNCHANGED <<strmap, allocated>>
       \/ /\ strmap = NoSender
          /\ allocated # Senders
          /\ ms' = [ms EXCEPT ![c] = NewSender]
          /\ strmap' = NewSender
          /\ allocated' = allocated \cup {NewSender}
          /\ Goto(c, "prepLock")
    /\ UNCHANGED <<dropped, streamVars, invalid, lk>>

(* prepOrInvalidate, by the creator of the sender.                          *)
PrepLock(c) ==
    /\ pc[c] = "prepLock"
    /\ lk[ms[c]] = Free
    /\ lk' = [lk EXCEPT ![ms[c]] = c]
    /\ Goto(c, "prep")
    /\ UNCHANGED <<mapVars, streamVars, invalid, ms, isRequest, retry, calls, answer>>

PrepLockCancelled(c) ==
    /\ pc[c] = "prepLock" /\ ended[c]
    /\ Goto(c, "prepFailed")
    /\ UNCHANGED <<mapVars, streamVars, invalid, lk, ms, isRequest, retry, calls, answer>>

\* prep: the stream that is there, or a new one, unless the sender is invalid.
PrepSucceeds(s) ==
    /\ ~invalid[s]
    /\ stream' = [stream EXCEPT ![s] = "open"]

\* prep can fail only if the sender is invalid or a stream has to be opened.
PrepFails(s) == invalid[s] \/ stream[s] = "nil"

Prepared(c) ==
    /\ pc[c] = "prep"
    /\ PrepSucceeds(ms[c])
    /\ Unlock(ms[c])
    /\ Goto(c, "lock")
    /\ UNCHANGED <<mapVars, pipe, singleMes, invalid, ms, isRequest, retry, calls, answer>>

\* invalidate, then the sender is taken out of the map in a step of its own.
PrepareFails(c) ==
    /\ pc[c] = "prep"
    /\ PrepFails(ms[c])
    /\ invalid' = [invalid EXCEPT ![ms[c]] = TRUE]
    /\ Reset(ms[c])
    /\ Unlock(ms[c])
    /\ Goto(c, "prepFailed")
    /\ UNCHANGED <<mapVars, singleMes, ms, isRequest, retry, calls, answer>>

\* Mutant: the invalid sender stays in the map.
GiveUpSenderKept(c) ==
    /\ pc[c] = "prepFailed"
    /\ IF strmap \in {NoSender, ms[c]} THEN Goto(c, "idle") /\ UNCHANGED ms
       ELSE Goto(c, "lock") /\ ms' = [ms EXCEPT ![c] = strmap]
    /\ UNCHANGED <<mapVars, streamVars, invalid, lk, isRequest, retry, calls, answer>>

\* The end of messageSenderForPeer: a newer sender is used instead, an
\* unchanged one is deleted.
GiveUpSender(c) ==
    /\ pc[c] = "prepFailed"
    /\ \/ /\ strmap \notin {NoSender, ms[c]}
          /\ ms' = [ms EXCEPT ![c] = strmap]
          /\ Goto(c, "lock")
          /\ UNCHANGED strmap
       \/ /\ strmap \in {NoSender, ms[c]}
          /\ strmap' = NoSender
          /\ Goto(c, "idle")
          /\ UNCHANGED ms
    /\ UNCHANGED <<allocated, dropped, streamVars, invalid, lk, isRequest, retry, calls, answer>>
-----------------------------------------------------------------------------
(* SendRequest and SendMessage.                                             *)

Lock(c) ==
    /\ pc[c] = "lock"
    /\ lk[ms[c]] = Free
    /\ lk' = [lk EXCEPT ![ms[c]] = c]
    /\ Goto(c, "sendPrep")
    /\ UNCHANGED <<mapVars, streamVars, invalid, ms, isRequest, retry, calls, answer>>

LockCancelled(c) ==
    /\ pc[c] = "lock" /\ ended[c]
    /\ Goto(c, "idle")
    /\ UNCHANGED <<mapVars, streamVars, invalid, lk, ms, isRequest, retry, calls, answer>>

SendPrepared(c) ==
    /\ pc[c] = "sendPrep"
    /\ PrepSucceeds(ms[c])
    /\ Goto(c, "write")
    /\ UNCHANGED <<mapVars, pipe, singleMes, invalid, lk, ms, isRequest, retry, calls, answer>>

SendPrepFails(c) ==
    /\ pc[c] = "sendPrep"
    /\ PrepFails(ms[c])
    /\ Unlock(ms[c])
    /\ Goto(c, "idle")
    /\ UNCHANGED <<mapVars, streamVars, invalid, ms, isRequest, retry, calls, answer>>

\* The stream is given up; the first time the message is sent again on a new one.
AttemptFails(c) ==
    /\ \/ retry[c] /\ Unlock(ms[c]) /\ Goto(c, "idle") /\ UNCHANGED retry
       \/ /\ ~retry[c]
          /\ retry' = [retry EXCEPT ![c] = TRUE]
          /\ Goto(c, "sendPrep")
          /\ UNCHANGED lk
    /\ UNCHANGED <<mapVars, singleMes, invalid, ms, isRequest, calls, answer>>

\* The last lines of both: a stream that often had to be replaced is not
\* reused; left is what remains in it.
Succeeds(c, left) ==
    LET s == ms[c] IN
    /\ \/ singleMes[s] > streamReuseTries /\ Reset(s) /\ UNCHANGED singleMes
       \/ /\ singleMes[s] <= streamReuseTries
          /\ singleMes' = [singleMes EXCEPT ![s] = IF retry[c] THEN @ + 1 ELSE @]
          /\ pipe' = [pipe EXCEPT ![s] = left]
          /\ UNCHANGED stream
    /\ Unlock(s)
    /\ Goto(c, "idle")
    /\ UNCHANGED <<mapVars, invalid, ms, isRequest, retry, calls>>

\* Mutant: the first failure is not remembered.
WriteFailsAgain(c) ==
    /\ pc[c] = "write"
    /\ Reset(ms[c])
    /\ Goto(c, "sendPrep")
    /\ UNCHANGED <<mapVars, singleMes, invalid, lk, ms, isRequest, retry, calls, answer>>

WriteFails(c) ==
    /\ pc[c] = "write"
    /\ Reset(ms[c])
    /\ AttemptFails(c)

WriteMessage(c) ==
    /\ pc[c] = "write"
    /\ ~isRequest[c]
    /\ Succeeds(c, pipe[ms[c]])
    /\ UNCHANGED answer

WriteRequest(c) ==
    /\ pc[c] = "write"
    /\ isRequest[c]
    /\ pipe' = [pipe EXCEPT ![ms[c]] = Append(@, Request(c))]
    /\ Goto(c, "read")
    /\ UNCHANGED <<mapVars, stream, singleMes, invalid, lk, ms, isRequest, retry, calls, answer>>

\* Mutant: a read that is given up leaves the stream as it is.
ReadFailsKept(c) ==
    /\ pc[c] = "read"
    /\ UNCHANGED <<stream, pipe>>
    /\ AttemptFails(c)

\* ctxReadMsg: an error, the context or the timer.
ReadFails(c) ==
    /\ pc[c] = "read"
    /\ Reset(ms[c])
    /\ AttemptFails(c)

\* The peer answers the requests of a stream in their order.
ReadAnswer(c) ==
    /\ pc[c] = "read"
    /\ pipe[ms[c]] # << >>
    /\ answer' = [answer EXCEPT ![c] = Head(pipe[ms[c]])]
    /\ Succeeds(c, Tail(pipe[ms[c]]))
-----------------------------------------------------------------------------
(* subscriberNotifee.Disconnected takes the sender out of the map and       *)
(* invalidates it in a goroutine that waits for its lock.                   *)
Disconnected ==
    /\ strmap # NoSender
    /\ dropped' = dropped \cup {strmap}
    /\ strmap' = NoSender
    /\ UNCHANGED <<allocated, streamVars, invalid, lk, callVars>>

Invalidate(s) ==
    /\ s \in dropped
    /\ lk[s] = Free
    /\ invalid' = [invalid EXCEPT ![s] = TRUE]
    /\ Reset(s)
    /\ dropped' = dropped \ {s}
    /\ UNCHANGED <<strmap, allocated, singleMes, lk, callVars>>

EndContext(c) ==
    /\ ContextsEnd
    /\ pc[c] # "idle" /\ ~ended[c]
    /\ ended' = [ended EXCEPT ![c] = TRUE]
    /\ UNCHANGED <<mapVars, streamVars, invalid, lk, pc, ms, isRequest, retry, calls, answer>>

Proceed(c) ==
    \/ Prepared(c) \/ PrepareFails(c) \/ GiveUpSender(c)
    \/ SendPrepared(c) \/ SendPrepFails(c)
    \/ WriteFails(c) \/ WriteMessage(c) \/ WriteRequest(c)
    \/ ReadFails(c) \/ ReadAnswer(c)
AcquireLock(c) == PrepLock(c) \/ Lock(c)
LeaveLock(c) == PrepLockCancelled(c) \/ LockCancelled(c)

Caller(c) ==
    \/ messageSenderForPeer(c) \/ AcquireLock(c)
    \/ LeaveLock(c) \/ Proceed(c)

\* Every caller has sent all its messages.
AllSent ==
    /\ \A c \in Callers : pc[c] = "idle" /\ calls[c] = MaxCalls
    /\ UNCHANGED vars

Next ==
    \/ \E c \in Callers : Caller(c) \/ EndContext(c)
    \/ \E s \in Senders : Invalidate(s)
    \/ Disconnected
    \/ AllSent

Spec == Init /\ [][Next]_vars

\* Where a caller waits for the peer alone.  writeMsg has no deadline and is not
\* passed the context; host.NewStream has only the context.
Writing(c) == pc[c] = "write"
Dialing(c) ==
    /\ pc[c] \in {"prep", "sendPrep"} /\ ~ended[c]
    /\ stream[ms[c]] = "nil" /\ ~invalid[ms[c]]

\* The steps that do not depend on the peer, or that dhtReadMessageTimeout bounds.
ProceedAlone(c) == LeaveLock(c) \/ (~Writing(c) /\ ~Dialing(c) /\ Proceed(c))

\* A Go channel, which ctxMutex is, serves blocked senders in their order.
Fairness ==
    \A c \in Callers :
        WF_vars(ProceedAlone(c)) /\ SF_vars(AcquireLock(c))

FairSpec == Spec /\ Fairness
-----------------------------------------------------------------------------
(* Every variable holds a value of the type the code gives it.              *)
TypeOK ==
    /\ strmap \in allocated \cup {NoSender}
    /\ allocated \subseteq Senders /\ dropped \subseteq allocated
    /\ stream \in [Senders -> {"nil", "open"}]
    /\ pipe \in [Senders -> Seq(Callers \X Nat)]
    /\ invalid \in [Senders -> BOOLEAN]
    /\ singleMes \in [Senders -> 0..(streamReuseTries + 1)]
    /\ lk \in [Senders -> Callers \cup {Free}]
    /\ pc \in [Callers -> Pcs]
    /\ ms \in [Callers -> allocated \cup {NoSender}]
    /\ isRequest \in [Callers -> BOOLEAN]
    /\ retry \in [Callers -> BOOLEAN]
    /\ calls \in [Callers -> 0..MaxCalls]
    /\ ended \in [Callers -> BOOLEAN]
    /\ answer \in [Callers -> (Callers \X Nat) \cup {<< >>}]

\* Where a caller holds its sender's lock.
Holding == {"prep", "sendPrep", "write", "read"}

(* Who holds a lock and what its stream may contain: the inductive          *)
(* invariant behind AnswerIsOwn.  A stream that nobody reads from is empty. *)
PipeInv ==
    /\ \A c \in Callers : pc[c] # "idle" => ms[c] # NoSender
    /\ \A c \in Callers, s \in Senders : lk[s] = c <=> (pc[c] \in Holding /\ ms[c] = s)
    /\ \A c \in Callers : pc[c] \in {"write", "read"} => stream[ms[c]] = "open"
    /\ \A c \in Callers : pc[c] = "read" => pipe[ms[c]] = <<Request(c)>>
    /\ \A s \in Senders :
            pipe[s] = << >> \/ \E c \in Callers : lk[s] = c /\ pc[c] = "read"

(* A caller never takes the answer to another request, or to an earlier one *)
(* of its own that it gave up waiting for, for its own.                     *)
AnswerIsOwn == \A c \in Callers : answer[c] \in {<< >>, Request(c)}

(* An invalidated sender has no stream and never gets one again: a caller   *)
(* that still holds a pointer to it cannot reopen it.                       *)
InvalidHasNoStream == \A s \in Senders : invalid[s] => stream[s] = "nil"

(* The sender in the map is valid, or its creator is about to take it out:  *)
(* an invalid one left there would make every later message fail.           *)
MappedIsUsable ==
    strmap # NoSender /\ invalid[strmap] =>
        \E c \in Callers : pc[c] = "prepFailed" /\ ms[c] = strmap

(* invalidate's comment: a sender that has left the map is not forgotten    *)
(* with its stream open, once nobody uses it and no invalidation is due.    *)
NoForgottenStream ==
    \A s \in Senders : stream[s] = "open" =>
        \/ s = strmap \/ s \in dropped
        \/ \E c \in Callers : pc[c] # "idle" /\ ms[c] = s

\* What d waits for holds c up: it is the call itself, or the call that has the lock
\* that c waits for, and c's context, which would end the wait, goes on.
Delays(d, c) == ms[d] = ms[c] /\ (d = c \/ ~ended[c])

(* Every message ends, with an answer or an error, unless the peer holds up *)
(* a write or a dial for ever: in the call itself, or in the one that has   *)
(* the lock of the same sender, as long as the context of the waiting one   *)
(* does not end.  So the loop of retries stops, a lock is always released,  *)
(* whoever waits for it gets it, and a context that ends is enough for all  *)
(* but the call that writes.                                                *)
CallEnds ==
    \A c \in Callers :
        pc[c] # "idle" ~>
            \/ pc[c] = "idle"
            \/ \E d \in Callers :
                [](Writing(d) /\ Delays(d, c)) \/ [](Dialing(d) /\ Delays(d, c))
=============================================================================
