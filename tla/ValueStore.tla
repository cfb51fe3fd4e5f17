---------------------------- MODULE ValueStore ----------------------------
(***************************************************************************)
(* The record one node keeps under one key (go-libp2p-kad-dht/handlers.go, *)
(* and the local parts of PutValue in routing.go and dht.go).  Requests    *)
(* from other peers put and get it, each in a goroutine of its own, and an *)
(* application of the node may put values under the key too.  Putting is   *)
(* reading, comparing and writing, each a step; the handler does it under  *)
(* the striped lock of the key, PutValue does not.                         *)
(*                                                                         *)
(* A value is its rank in the order of Validator.Select.  A value that was *)
(* valid may lapse (an IPNS entry past its end of life).  The datastore    *)
(* may fail at every access.                                               *)
(***************************************************************************)
EXTENDS Integers

CONSTANTS
    Procs,              \* the goroutines
    MaxVal,             \* bound: the best value
    MaxTime,            \* bound: the clock stops here
    maxRecordAge,
    NoRec, Free

Vals == 0..MaxVal
Times == 0..MaxTime
Records == [val : Vals, time : Times]

ASSUME ValueAssumption ==
    /\ MaxVal \in Nat /\ MaxTime \in Nat
    /\ maxRecordAge \in Nat
    /\ NoRec \notin Records
    /\ Free \notin Procs

VARIABLES
    now,        \* the clock
    owner,      \* an application of this node calls PutValue for the key
    rec,        \* the record in the datastore
    lapsed,     \* the values that are not valid any more
    lk,         \* who holds the striped lock
    pc,         \* pc[c]: where goroutine c is
    mine        \* mine[c]: the record c is to write, or that it has read

procVars == <<pc, mine>>
vars == <<now, owner, rec, lapsed, lk, procVars>>

Goto(c, l) == pc' = [pc EXCEPT ![c] = l]

Init ==
    /\ now = 0
    /\ owner \in BOOLEAN
    /\ rec = NoRec
    /\ lapsed = {}
    /\ lk = Free
    /\ pc = [c \in Procs |-> "idle"]
    /\ mine = [c \in Procs |-> NoRec]

\* getRecordFromDatastore: a record that does not validate counts as none.
Existing == IF rec = NoRec THEN NoRec ELSE IF rec.val \in lapsed THEN NoRec ELSE rec

\* Validator.Select prefers v to the record, or there is none.
Selected(v) == Existing # NoRec => v >= Existing.val

\* What c has read or is to write goes with the call.
Return(c) ==
    /\ Goto(c, "idle")
    /\ mine' = [mine EXCEPT ![c] = NoRec]
-----------------------------------------------------------------------------
(* The handler of PUT_VALUE.                                                *)

\* The value validates, and the lock of the key is asked for.
handlePutValue(c, v) ==
    /\ pc[c] = "idle"
    /\ v \notin lapsed
    /\ Goto(c, "lock")
    /\ mine' = [mine EXCEPT ![c] = [val |-> v, time |-> 0]]
    /\ UNCHANGED <<now, owner, rec, lapsed, lk>>

\* Mutant: the lock is not the one other puts of the key take.
PutLockOther(c) ==
    /\ pc[c] = "lock"
    /\ lk' = c
    /\ Goto(c, "check")
    /\ UNCHANGED <<now, owner, rec, lapsed, mine>>

PutLock(c) ==
    /\ pc[c] = "lock"
    /\ lk = Free
    /\ lk' = c
    /\ Goto(c, "check")
    /\ UNCHANGED <<now, owner, rec, lapsed, mine>>

\* The record is better than the one in the datastore, and gets its time.
PutChecked(c) ==
    /\ pc[c] = "check"
    /\ Selected(mine[c].val)
    /\ Goto(c, "write")
    /\ mine' = [mine EXCEPT ![c].time = now]
    /\ UNCHANGED <<now, owner, rec, lapsed, lk>>

\* Mutant: an older record is tried again.
PutRefusedAgain(c) ==
    /\ pc[c] = "check"
    /\ Goto(c, "lock")
    /\ lk' = Free
    /\ UNCHANGED <<now, owner, rec, lapsed, mine>>

\* It is not, or the datastore or the selector failed.
PutRefused(c) ==
    /\ pc[c] = "check"
    /\ Return(c)
    /\ lk' = Free
    /\ UNCHANGED <<now, owner, rec, lapsed>>

\* datastore.Put succeeds or fails.
PutWrite(c) ==
    /\ pc[c] = "write"
    /\ rec' \in {rec, mine[c]}
    /\ lk' = Free
    /\ Return(c)
    /\ UNCHANGED <<now, owner, lapsed>>
-----------------------------------------------------------------------------
(* PutValue, up to the lookup: getLocal, the comparison, putLocal.          *)

PutValue(c, v) ==
    /\ owner
    /\ pc[c] = "idle"
    /\ v \notin lapsed
    /\ Goto(c, "getLocal")
    /\ mine' = [mine EXCEPT ![c] = [val |-> v, time |-> 0]]
    /\ UNCHANGED <<now, owner, rec, lapsed, lk>>

LocalChecked(c) ==
    /\ pc[c] = "getLocal"
    /\ Selected(mine[c].val)
    /\ Goto(c, "putLocal")
    /\ mine' = [mine EXCEPT ![c].time = now]
    /\ UNCHANGED <<now, owner, rec, lapsed, lk>>

LocalRefused(c) ==
    /\ pc[c] = "getLocal"
    /\ Return(c)
    /\ UNCHANGED <<now, owner, rec, lapsed, lk>>

putLocal(c) ==
    /\ pc[c] = "putLocal"
    /\ rec' \in {rec, mine[c]}
    /\ Return(c)
    /\ UNCHANGED <<now, owner, lapsed, lk>>
-----------------------------------------------------------------------------
(* The handler of GET_VALUE.                                                *)

TooOld(t) == now - t > maxRecordAge

\* The record has been read and is too old.  (Any other answer changes nothing.)
checkLocalDatastore(c) ==
    /\ pc[c] = "idle"
    /\ rec # NoRec
    /\ TooOld(rec.time)
    /\ Goto(c, "toss")
    /\ mine' = [mine EXCEPT ![c] = rec]
    /\ UNCHANGED <<now, owner, rec, lapsed, lk>>

\* datastore.Delete succeeds or fails.
Toss(c) ==
    /\ pc[c] = "toss"
    /\ rec' \in {rec, NoRec}
    /\ Return(c)
    /\ UNCHANGED <<now, owner, lapsed, lk>>
-----------------------------------------------------------------------------
Tick ==
    /\ now < MaxTime
    /\ now' = now + 1
    /\ UNCHANGED <<owner, rec, lapsed, lk, procVars>>

Lapse(v) ==
    /\ lapsed' = lapsed \cup {v}
    /\ UNCHANGED <<now, owner, rec, lk, procVars>>

\* What ends a request once it has its lock.
Ends(c) ==
    \/ PutChecked(c) \/ PutRefused(c) \/ PutWrite(c)
    \/ LocalChecked(c) \/ LocalRefused(c) \/ putLocal(c) \/ Toss(c)

Next ==
    \/ \E c \in Procs, v \in Vals : handlePutValue(c, v) \/ PutValue(c, v)
    \/ \E c \in Procs : PutLock(c) \/ Ends(c) \/ checkLocalDatastore(c)
    \/ \E v \in Vals : Lapse(v)
    \/ Tick

Spec == Init /\ [][Next]_vars

\* Goroutines run, the datastore answers or fails, and sync.Mutex starves nobody.
FairSpec == Spec /\ \A c \in Procs : WF_vars(Ends(c)) /\ SF_vars(PutLock(c))
-----------------------------------------------------------------------------
(* Every variable holds a value of the type the code gives it.              *)
TypeOK ==
    /\ now \in Times
    /\ owner \in BOOLEAN
    /\ rec \in Records \cup {NoRec}
    /\ lapsed \subseteq Vals
    /\ lk \in Procs \cup {Free}
    /\ pc \in [Procs -> {"idle", "lock", "check", "write", "getLocal", "putLocal", "toss"}]
    /\ mine \in [Procs -> Records \cup {NoRec}]
    /\ \A c \in Procs : pc[c] # "idle" => mine[c] \in Records

(* Between its comparison and its write a handler is right about the record *)
(* it is going to replace: the lock keeps all other handlers out.           *)
CheckedInv ==
    /\ \A c \in Procs : pc[c] \in {"check", "write"} <=> lk = c
    /\ ~owner => \A c \in Procs :
          /\ pc[c] \notin {"getLocal", "putLocal"}
          /\ pc[c] = "write" => Selected(mine[c].val)

(* handlePutValue's comment: a record with a lower sequence number does not *)
(* overwrite one with a higher one.                                         *)
Downgrade ==
    /\ Existing # NoRec /\ rec' # NoRec
    /\ rec'.val < rec.val

(* It holds on a node that does not put values under the key itself: whose  *)
(* PutValue compares and writes without the lock.                           *)
NoDowngrade == [][~owner => ~Downgrade]_vars

(* A record that is deleted was too old, unless it was written after the    *)
(* handler of GET_VALUE had read an older one.                              *)
OldOnesTossed ==
    [][rec # NoRec /\ rec' = NoRec =>
          now - rec.time > maxRecordAge \/ \E c \in Procs : pc[c] = "toss" /\ mine[c] # rec]_vars

(* Every request ends, although all puts of the key wait for one lock.      *)
RequestEnds == \A c \in Procs : pc[c] # "idle" ~> pc[c] = "idle"
=============================================================================
