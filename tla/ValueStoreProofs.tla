------------------------- MODULE ValueStoreProofs -------------------------
(***************************************************************************)
(* Theorems about ValueStore, for any number of requests, values and any   *)
(* age limit.  CheckedInv is what the striped lock is for; TossInv adds    *)
(* that the record a handler is about to delete was too old when read.     *)
(***************************************************************************)
EXTENDS ValueStore, TLAPS

\* One step keeps the types.
LEMMA TypeStep == TypeOK /\ [Next]_vars => TypeOK'
<1> SUFFICES ASSUME TypeOK, [Next]_vars PROVE TypeOK'
    OBVIOUS
<1> USE ValueAssumption DEF TypeOK, Goto, Return, Records, Times, Vals, procVars
<1>1. ASSUME NEW c \in Procs, NEW v \in Vals, handlePutValue(c, v) PROVE TypeOK'
    BY <1>1 DEF handlePutValue
<1>2. ASSUME NEW c \in Procs, NEW v \in Vals, PutValue(c, v) PROVE TypeOK'
    BY <1>2 DEF PutValue
<1>3. ASSUME NEW c \in Procs, PutLock(c) PROVE TypeOK'
    BY <1>3 DEF PutLock
<1>4. ASSUME NEW c \in Procs, PutChecked(c) PROVE TypeOK'
    BY <1>4 DEF PutChecked
<1>5. ASSUME NEW c \in Procs, PutRefused(c) PROVE TypeOK'
    BY <1>5 DEF PutRefused
<1>6. ASSUME NEW c \in Procs, PutWrite(c) PROVE TypeOK'
    BY <1>6 DEF PutWrite
<1>7. ASSUME NEW c \in Procs, LocalChecked(c) PROVE TypeOK'
    BY <1>7 DEF LocalChecked
<1>8. ASSUME NEW c \in Procs, LocalRefused(c) PROVE TypeOK'
    BY <1>8 DEF LocalRefused
<1>9. ASSUME NEW c \in Procs, putLocal(c) PROVE TypeOK'
    BY <1>9 DEF putLocal
<1>10. ASSUME NEW c \in Procs, checkLocalDatastore(c) PROVE TypeOK'
    BY <1>10 DEF checkLocalDatastore
<1>11. ASSUME NEW c \in Procs, Toss(c) PROVE TypeOK'
    BY <1>11 DEF Toss
<1>12. ASSUME NEW v \in Vals, Lapse(v) PROVE TypeOK'
    BY <1>12 DEF Lapse
<1>13. CASE Tick
    BY <1>13 DEF Tick
<1>14. CASE UNCHANGED vars
    BY <1>14 DEF vars
<1> QED
    BY <1>1, <1>2, <1>3, <1>4, <1>5, <1>6, <1>7, <1>8, <1>9, <1>10, <1>11, <1>12, <1>13, <1>14
       DEF Next, Ends

\* The types hold at the start.
LEMMA InitTypes == Init => TypeOK
    BY ValueAssumption DEF Init, TypeOK, Times, Vals

\* The record, the lock and the requests keep their types.
THEOREM TypeCorrect == Spec => []TypeOK
    BY InitTypes, TypeStep, PTL DEF Spec
-----------------------------------------------------------------------------
\* Nobody but the holder of the lock changes the record, except by deleting it.
LEMMA CheckedStep == TypeOK /\ CheckedInv /\ [Next]_vars => CheckedInv'
<1> SUFFICES ASSUME TypeOK, CheckedInv, [Next]_vars PROVE CheckedInv'
    OBVIOUS
<1> USE ValueAssumption DEF TypeOK, CheckedInv, Goto, Return, procVars, Selected, Existing
<1>1. ASSUME NEW c \in Procs, NEW v \in Vals, handlePutValue(c, v) PROVE CheckedInv'
    BY <1>1 DEF handlePutValue
<1>2. ASSUME NEW c \in Procs, NEW v \in Vals, PutValue(c, v) PROVE CheckedInv'
    BY <1>2 DEF PutValue
<1>3. ASSUME NEW c \in Procs, PutLock(c) PROVE CheckedInv'
    BY <1>3 DEF PutLock
<1>4. ASSUME NEW c \in Procs, PutChecked(c) PROVE CheckedInv'
    BY <1>4 DEF PutChecked
<1>5. ASSUME NEW c \in Procs, PutRefused(c) PROVE CheckedInv'
    BY <1>5 DEF PutRefused
<1>6. ASSUME NEW c \in Procs, PutWrite(c) PROVE CheckedInv'
    BY <1>6 DEF PutWrite
<1>7. ASSUME NEW c \in Procs, LocalChecked(c) PROVE CheckedInv'
    BY <1>7 DEF LocalChecked
<1>8. ASSUME NEW c \in Procs, LocalRefused(c) PROVE CheckedInv'
    BY <1>8 DEF LocalRefused
<1>9. ASSUME NEW c \in Procs, putLocal(c) PROVE CheckedInv'
    BY <1>9 DEF putLocal
<1>10. ASSUME NEW c \in Procs, checkLocalDatastore(c) PROVE CheckedInv'
    BY <1>10 DEF checkLocalDatastore
<1>11. ASSUME NEW c \in Procs, Toss(c) PROVE CheckedInv'
    BY <1>11 DEF Toss
<1>12. ASSUME NEW v \in Vals, Lapse(v) PROVE CheckedInv'
    BY <1>12 DEF Lapse
<1>13. CASE Tick
    BY <1>13 DEF Tick
<1>14. CASE UNCHANGED vars
    BY <1>14 DEF vars
<1> QED
    BY <1>1, <1>2, <1>3, <1>4, <1>5, <1>6, <1>7, <1>8, <1>9, <1>10, <1>11, <1>12, <1>13, <1>14
       DEF Next, Ends

\* A handler that has compared its record is still right when it writes.
THEOREM CheckedCorrect == Spec => []CheckedInv
<1>1. Init => TypeOK /\ CheckedInv
    BY InitTypes, ValueAssumption DEF Init, CheckedInv
<1> QED
    BY <1>1, TypeStep, CheckedStep, PTL DEF Spec

\* Who changes the record.
LEMMA RecFrame ==
    [Next]_vars => \/ \E c \in Procs : PutWrite(c) \/ putLocal(c) \/ Toss(c)
                   \/ UNCHANGED rec
    BY DEF Next, Ends, vars, handlePutValue, PutValue, PutLock, PutChecked, PutRefused,
           LocalChecked, LocalRefused, checkLocalDatastore, Lapse, Tick

\* On a node that puts no values of its own under the key, a valid record is never
\* replaced by a lesser one (the comparison of handlePutValue).
THEOREM NoDowngrades == Spec => NoDowngrade
<1>1. TypeOK /\ CheckedInv /\ [Next]_vars => [~owner => ~Downgrade]_vars
  <2> SUFFICES ASSUME TypeOK, CheckedInv, [Next]_vars, ~owner, Downgrade
               PROVE  FALSE
    OBVIOUS
  <2> USE ValueAssumption DEF TypeOK, Downgrade, Existing, Records, Vals
  <2>1. ASSUME NEW c \in Procs, PutWrite(c) PROVE FALSE
    BY <2>1 DEF PutWrite, CheckedInv, Selected
  <2>2. ASSUME NEW c \in Procs, putLocal(c) PROVE FALSE
    BY <2>2 DEF putLocal, CheckedInv
  <2>3. ASSUME NEW c \in Procs, Toss(c) PROVE FALSE
    BY <2>3 DEF Toss
  <2>4. CASE UNCHANGED rec
    BY <2>4
  <2> QED
    BY <2>1, <2>2, <2>3, <2>4, RecFrame
<1> QED
    BY <1>1, TypeCorrect, CheckedCorrect, PTL DEF Spec, NoDowngrade
-----------------------------------------------------------------------------
\* The record a handler of GET_VALUE is about to delete was too old when read.
TossInv == \A c \in Procs : pc[c] = "toss" => now - mine[c].time > maxRecordAge

\* Time only makes it older.
LEMMA TossStep == TypeOK /\ TossInv /\ [Next]_vars => TossInv'
<1> SUFFICES ASSUME TypeOK, TossInv, [Next]_vars PROVE TossInv'
    OBVIOUS
<1> USE ValueAssumption DEF TypeOK, TossInv, Goto, Return, procVars, Records, Times
<1>1. CASE \E c \in Procs, v \in Vals : handlePutValue(c, v) \/ PutValue(c, v)
    BY <1>1 DEF handlePutValue, PutValue
<1>2. CASE \E c \in Procs : PutLock(c) \/ Ends(c)
    BY <1>2 DEF PutLock, Ends, PutChecked, PutRefused, PutWrite, LocalChecked, LocalRefused,
                putLocal, Toss
<1>3. CASE \E c \in Procs : checkLocalDatastore(c)
    BY <1>3 DEF checkLocalDatastore, TooOld
<1>4. CASE \E v \in Vals : Lapse(v)
    BY <1>4 DEF Lapse
<1>5. CASE Tick
    BY <1>5 DEF Tick
<1>6. CASE UNCHANGED vars
    BY <1>6 DEF vars
<1> QED
    BY <1>1, <1>2, <1>3, <1>4, <1>5, <1>6 DEF Next

\* The race of checkLocalDatastore with a later write is the only way for a record
\* to be deleted before it is too old.
THEOREM OnlyOldTossed == Spec => OldOnesTossed
<1> DEFINE Fair == rec # NoRec /\ rec' = NoRec =>
               now - rec.time > maxRecordAge
               \/ \E c \in Procs : pc[c] = "toss" /\ mine[c] # rec
<1>1. Init => TossInv
    BY DEF Init, TossInv
<1>2. TypeOK /\ TossInv /\ [Next]_vars => [Fair]_vars
  <2> SUFFICES ASSUME TypeOK, TossInv, [Next]_vars PROVE Fair
    OBVIOUS
  <2> USE ValueAssumption DEF TypeOK
  <2>1. ASSUME NEW c \in Procs, PutWrite(c) PROVE Fair
    BY <2>1 DEF PutWrite
  <2>2. ASSUME NEW c \in Procs, putLocal(c) PROVE Fair
    BY <2>2 DEF putLocal
  <2>3. ASSUME NEW c \in Procs, Toss(c) PROVE Fair
    BY <2>3 DEF Toss, TossInv
  <2>4. CASE UNCHANGED rec
    BY <2>4
  <2> QED
    BY <2>1, <2>2, <2>3, <2>4, RecFrame
<1> QED
    BY <1>1, <1>2, TypeCorrect, TossStep, PTL DEF Spec, OldOnesTossed
=============================================================================
