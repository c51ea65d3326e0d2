--------------------------- MODULE RoutinesProofs ---------------------------
(***************************************************************************)
(* The threads of a pool of any length, whichever routine they run, keep   *)
(* the signal lock balanced and call no handler without a value.           *)
(***************************************************************************)
EXTENDS Routines, FiniteSetTheorems, TLAPS

\* There is a first slot.
LEMMA ZeroInSlots == 0 \in Slots
BY LengthAssumption DEF Slots

\* The invariant holds for a pool that has just been linked.
LEMMA RoutinesInit == Init => RoutinesInv
BY ZeroInSlots
   DEF Init, RoutineCreate, LockInitilize, PoolCreate, PoolLink, RoutinesInv, TypeOK, LockBalanced,
       HoldsLock, Holding, HandlerHasValue, SleepersWait, KindsApart, NoOne, Slots

\* The types are kept by every step of the threads.
LEMMA StepType ==
  ASSUME TypeOK, NEW t \in Slots, Step(t) \/ WakeSpuriously(t)
  PROVE  TypeOK'
<1> USE DEF TypeOK, Holding, Look, Goto, poolVars, lockVars, dataVars, mainVars
<1>1. CASE BlockSignal(t)
  BY <1>1 DEF BlockSignal
<1>2. CASE Gate(t)
  BY <1>2 DEF Gate
<1>3. CASE GateWait(t)
  BY <1>3 DEF GateWait, SigWait
<1>4. CASE Leave(t)
  BY <1>4 DEF Leave
<1>5. CASE LeaveWait(t)
  BY <1>5 DEF LeaveWait, SigWait
<1>6. CASE LockTimedWait(t)
  BY <1>6 DEF LockTimedWait
<1>7. CASE Timeout(t)
  BY <1>7 DEF Timeout, Rise
<1>8. CASE Reacquire(t)
  BY <1>8 DEF Reacquire, LockBlock
<1>9. CASE Loop(t)
  BY <1>9 DEF Loop
<1>10. CASE Block(t)
  BY <1>10 DEF Block, LockBlock
<1>11. CASE TestExpired(t)
  BY <1>11 DEF TestExpired
<1>12. CASE TestRunning(t)
  BY <1>12 DEF TestRunning
<1>13. CASE Continue(t)
  BY <1>13 DEF Continue, LockRelease
<1>14. CASE Shutdown(t)
  BY <1>14 DEF Shutdown, LockRelease
<1>15. CASE Key(t)
  BY <1>15 DEF Key, TakeKey, TakeOverlapping
<1>16. CASE SignalWait(t)
  BY <1>16 DEF SignalWait, SigWait
<1>17. CASE Retake(t)
  BY <1>17 DEF Retake, TakeKey, TakeOverlapping
<1>18. CASE Release(t)
  BY <1>18 DEF Release, LockRelease
<1>19. CASE Handle(t)
  BY <1>19 DEF Handle
<1>20. CASE WakeSpuriously(t)
  BY <1>20 DEF WakeSpuriously, Rise
<1> QED
  BY <1>1, <1>2, <1>3, <1>4, <1>5, <1>6, <1>7, <1>8, <1>9, <1>10, <1>11, <1>12, <1>13,
     <1>14, <1>15, <1>16, <1>17, <1>18, <1>19, <1>20 DEF Step

\* The types are kept by every step of main.
LEMMA MainType ==
  ASSUME TypeOK,
         MainStep \/ Push \/ SignalDispatch \/ SignalAllDispatch \/ Interrompt
  PROVE  TypeOK'
<1> USE ZeroInSlots DEF TypeOK, Holding, Goto, MainAt, Kill, Rise, poolVars, lockVars, dataVars, mainVars
<1>0. at + 1 < Length => at + 1 \in Slots
  BY LengthAssumption DEF Slots
<1>1. CASE StartEnable
  BY <1>0, <1>1 DEF StartEnable
<1>2. CASE StartKill
  BY <1>0, <1>2 DEF StartKill
<1>3. CASE DestroyDisable
  BY <1>0, <1>3 DEF DestroyDisable
<1>4. CASE DestroyKill
  BY <1>0, <1>4 DEF DestroyKill
<1>5. CASE Join
  BY <1>0, <1>5 DEF Join
<1>6. CASE Push
  BY <1>0, <1>6 DEF Push
<1>7. CASE SignalDispatch
  BY <1>0, <1>7 DEF SignalDispatch
<1>8. CASE SignalAllDispatch
  BY <1>0, <1>8 DEF SignalAllDispatch
<1>9. CASE Interrompt
  BY <1>0, <1>9 DEF Interrompt
<1> QED
  BY <1>1, <1>2, <1>3, <1>4, <1>5, <1>6, <1>7, <1>8, <1>9 DEF MainStep

\* A thread gives back only a mutex it has, and takes a free one; it handles a
\* value only when it has one, whichever routine it runs.
LEMMA StepSound ==
  ASSUME RoutinesInv, NEW t \in Slots, Step(t) \/ WakeSpuriously(t), TypeOK'
  PROVE  RoutinesInv'
<1> USE DEF RoutinesInv, TypeOK, LockBalanced, HoldsLock, Holding, HandlerHasValue, SleepersWait,
        KindsApart, Look, Goto, poolVars, lockVars, dataVars, mainVars
<1>0. NoOne \notin Slots
  BY LengthAssumption DEF Slots, NoOne
<1>1. CASE BlockSignal(t)
  BY <1>0, <1>1 DEF BlockSignal
<1>2. CASE Gate(t)
  BY <1>0, <1>2 DEF Gate
<1>3. CASE GateWait(t)
  BY <1>0, <1>3 DEF GateWait, SigWait
<1>4. CASE Leave(t)
  BY <1>0, <1>4 DEF Leave
<1>5. CASE LeaveWait(t)
  BY <1>0, <1>5 DEF LeaveWait, SigWait
<1>6. CASE LockTimedWait(t)
  BY <1>0, <1>6 DEF LockTimedWait
<1>7. CASE Timeout(t)
  BY <1>0, <1>7 DEF Timeout, Rise
<1>8. CASE Reacquire(t)
  BY <1>0, <1>8 DEF Reacquire, LockBlock
<1>9. CASE Loop(t)
  BY <1>0, <1>9 DEF Loop
<1>10. CASE Block(t)
  <2>1. /\ kind # "consumer" /\ t \notin taken /\ mutex = NoOne /\ mutex' = t
        /\ UNCHANGED <<kind, asleep, queue, taken>> /\ pc[t] = "block"
        /\ \A u \in Slots : u # t => pc'[u] = pc[u]
        /\ pc'[t] = IF kind = "signal" THEN "wait" ELSE "key"
        /\ kind # "signal" => kind = "locked"
    BY <1>10, KindsAssumption DEF Block, LockBlock
  <2>2. LockBalanced'
    BY <1>0, <2>1
  <2> QED
    BY <2>1, <2>2
<1>11. CASE TestExpired(t)
  <2>1. /\ kind # "consumer" /\ t \notin taken
        /\ UNCHANGED <<kind, mutex, asleep, queue, taken>> /\ pc[t] = "expired"
        /\ \A u \in Slots : u # t => pc'[u] = pc[u]
        /\ pc'[t] \in {"shutdown", "test", "wait", "key"}
        /\ pc'[t] = "key" => kind = "locked"
    BY <1>11, KindsAssumption DEF TestExpired
  <2>2. LockBalanced'
    BY <1>0, <2>1
  <2> QED
    BY <2>1, <2>2
<1>12. CASE TestRunning(t)
  BY <1>0, <1>12 DEF TestRunning
<1>13. CASE Continue(t)
  BY <1>0, <1>13 DEF Continue, LockRelease
<1>14. CASE Shutdown(t)
  BY <1>0, <1>14 DEF Shutdown, LockRelease
<1>15. CASE Key(t)
  <2>1. /\ kind # "signal" /\ pc[t] = "key" /\ t \notin taken
        /\ UNCHANGED <<kind, mutex, asleep>>
        /\ \A u \in Slots : u # t => pc'[u] = pc[u] /\ (u \in taken' <=> u \in taken)
    BY <1>15 DEF Key, TakeKey, TakeOverlapping
  <2>2. /\ kind = "consumer" => pc'[t] = "signalwait"
        /\ kind # "consumer" => kind = "locked" /\ pc'[t] = IF t \in taken' THEN "test" ELSE "wait"
    BY <1>15, <2>1, KindsAssumption DEF Key
  <2>3. LockBalanced'
    BY <1>0, <2>1, <2>2
  <2>4. HandlerHasValue'
    BY <2>1, <2>2
  <2>5. SleepersWait' /\ KindsApart'
    BY <2>1, <2>2
  <2> QED
    BY <2>3, <2>4, <2>5
<1>16. CASE SignalWait(t)
  BY <1>0, <1>16 DEF SignalWait, SigWait
<1>17. CASE Retake(t)
  BY <1>0, <1>17 DEF Retake, TakeKey, TakeOverlapping
<1>18. CASE Release(t)
  BY <1>0, <1>18 DEF Release, LockRelease
<1>19. CASE Handle(t)
  BY <1>0, <1>19 DEF Handle
<1>20. CASE WakeSpuriously(t)
  BY <1>0, <1>20 DEF WakeSpuriously, Rise
<1> QED
  BY <1>1, <1>2, <1>3, <1>4, <1>5, <1>6, <1>7, <1>8, <1>9, <1>10, <1>11, <1>12, <1>13,
     <1>14, <1>15, <1>16, <1>17, <1>18, <1>19, <1>20 DEF Step

\* Main only wakes sleepers, which do not have the mutex.
LEMMA MainSound ==
  ASSUME RoutinesInv, TypeOK',
         MainStep \/ Push \/ SignalDispatch \/ SignalAllDispatch \/ Interrompt
  PROVE  RoutinesInv'
<1> USE DEF RoutinesInv, TypeOK, LockBalanced, HoldsLock, Holding, HandlerHasValue, SleepersWait,
        KindsApart, Goto, Rise, MainAt, poolVars, lockVars, dataVars, mainVars
<1>1. CASE StartEnable
  BY <1>1 DEF StartEnable
<1>2. CASE StartKill
  BY <1>2 DEF StartKill
<1>3. CASE DestroyDisable
  BY <1>3 DEF DestroyDisable
<1>4. CASE DestroyKill
  BY <1>4 DEF DestroyKill
<1>5. CASE Join
  BY <1>5 DEF Join
<1>6. CASE Push
  BY <1>6 DEF Push
<1>7. CASE SignalDispatch
  BY <1>7 DEF SignalDispatch
<1>8. CASE SignalAllDispatch
  BY <1>8 DEF SignalAllDispatch
<1>9. CASE Interrompt
  BY <1>9 DEF Interrompt
<1> QED
  BY <1>1, <1>2, <1>3, <1>4, <1>5, <1>6, <1>7, <1>8, <1>9 DEF MainStep

\* Every step keeps the invariant.
LEMMA RoutinesInductive == RoutinesInv /\ [Next]_vars => RoutinesInv'
<1> SUFFICES ASSUME RoutinesInv, [Next]_vars PROVE RoutinesInv'
  OBVIOUS
<1>1. CASE UNCHANGED vars
  BY <1>1 DEF vars, poolVars, lockVars, dataVars, mainVars, RoutinesInv, TypeOK, LockBalanced,
     HoldsLock, HandlerHasValue, SleepersWait, KindsApart
<1>2. CASE MainStep \/ Push \/ SignalDispatch \/ SignalAllDispatch \/ Interrompt
  BY <1>2, MainType, MainSound DEF RoutinesInv
<1>3. CASE \E t \in Slots : Step(t) \/ WakeSpuriously(t)
  BY <1>3, StepType, StepSound DEF RoutinesInv
<1> QED
  BY <1>1, <1>2, <1>3 DEF Next

\* RoutinesInv holds in every state.
LEMMA RoutinesInvariant == Spec => []RoutinesInv
BY RoutinesInit, RoutinesInductive, PTL DEF Spec

\* No thread of the pool leaves the places of routine.c and consumer.c, and no
\* count of the lock, the list or the queue goes out of its range, for any number
\* of threads, values and calls.
THEOREM RoutinesTypeCorrect == Spec => []TypeOK
<1>1. RoutinesInv => TypeOK
  BY DEF RoutinesInv
<1> QED
  BY <1>1, RoutinesInvariant, PTL

\* Whichever way the routines of routine.c and consumer.c are left, the mutex is
\* held by the thread that stands where the code holds it and by no other, for
\* any number of threads and any interleaving with dispatches and interrupts.
THEOREM LockStaysBalanced == Spec => []LockBalanced
<1>1. RoutinesInv => LockBalanced
  BY DEF RoutinesInv
<1> QED
  BY <1>1, RoutinesInvariant, PTL

\* A thread calls its consumer's handler only after its key has reported a value
\* for which it has called no handler yet (consumer.c lines 43 and 59), and no key
\* before that, for any number of threads.
THEOREM HandlersHaveValues == Spec => []HandlerHasValue
<1>1. RoutinesInv => HandlerHasValue
  BY DEF RoutinesInv
<1> QED
  BY <1>1, RoutinesInvariant, PTL

-----------------------------------------------------------------------------
(* The values of the consumers with a lock *)

\* How the number of values changes with the threads that have one.
LEMMA ValuesCount ==
  ASSUME TypeOK, NEW t \in Slots
  PROVE  /\ Cardinality(taken) \in Nat
         /\ t \notin taken => Cardinality(taken \union {t}) = Cardinality(taken) + 1
         /\ t \in taken => Cardinality(taken \ {t}) = Cardinality(taken) - 1
<1>1. IsFiniteSet(Slots)
  BY LengthAssumption, FS_Interval DEF Slots
<1>2. IsFiniteSet(taken)
  BY <1>1, FS_Subset DEF TypeOK
<1> QED
  BY <1>2, FS_CardinalityType, FS_AddElement, FS_RemoveElement

\* A key called under the lock moves one value from the queue to its thread.
LEMMA KeyKeepsValues ==
  ASSUME TypeOK, kind = "locked", NEW t \in Slots, t \notin taken, TakeKey(t)
  PROVE  Values' = Values
<1>1. CASE UNCHANGED <<queue, taken>>
  BY <1>1 DEF Values
<1>2. CASE queue' = queue - 1 /\ taken' = taken \union {t}
  <2>1. /\ Cardinality(taken') = Cardinality(taken) + 1
        /\ Cardinality(taken) \in Nat /\ queue \in Nat
    BY <1>2, ValuesCount DEF TypeOK
  <2> QED
    BY <1>2, <2>1 DEF Values
<1> QED
  BY <1>1, <1>2 DEF TakeKey, TakeOverlapping

\* With the lock of consumer.c's first loop a value leaves the queue and the hands
\* of a thread only into its handler, one at a time, for any number of threads and
\* values and any interleaving with dispatches, timeouts and the interrupt.
THEOREM NoValueLost == Spec => ValuesKept
<1> DEFINE Left == Values' = Values - 1 /\ \E t \in Slots : pc[t] = "handle" /\ pc'[t] = "loop"
<1>1. ASSUME RoutinesInv, [Next]_vars, kind = "locked" PROVE Values' >= Values \/ Left
  <2>0. TypeOK /\ HandlerHasValue /\ Values \in Nat
    <3>1. TypeOK /\ HandlerHasValue
      BY <1>1 DEF RoutinesInv
    <3>2. Cardinality(taken) \in Nat /\ queue \in Nat
      BY <3>1, ZeroInSlots, ValuesCount DEF TypeOK
    <3> QED
      BY <3>1, <3>2 DEF Values
  <2>1. ASSUME UNCHANGED <<queue, taken>> PROVE Values' >= Values
    BY <2>0, <2>1 DEF Values
  <2>2. CASE Push
    <3>1. Cardinality(taken) \in Nat /\ queue \in Nat /\ queue' = queue + 1 /\ taken' = taken
      BY <2>0, <2>2, ZeroInSlots, ValuesCount DEF TypeOK, Push
    <3> QED
      BY <3>1 DEF Values
  <2>3. ASSUME NEW t \in Slots, Key(t) \/ Retake(t) PROVE Values' >= Values
    <3>1. CASE UNCHANGED <<queue, taken>>
      BY <2>1, <3>1
    <3>2. CASE t \notin taken /\ TakeKey(t)
      <4>1. Values' = Values
        BY <1>1, <2>0, <3>2, KeyKeepsValues
      <4> QED
        BY <2>0, <4>1
    <3> QED
      BY <2>0, <2>3, <3>1, <3>2 DEF Key, Retake, HandlerHasValue
  <2>4. ASSUME NEW t \in Slots, Handle(t) PROVE Left
    <3>1. /\ pc[t] = "handle" /\ pc'[t] = "loop" /\ t \in taken
          /\ taken' = taken \ {t} /\ queue' = queue
      BY <2>0, <2>4 DEF Handle, Goto, TypeOK, HandlerHasValue
    <3>2. /\ Cardinality(taken') = Cardinality(taken) - 1
          /\ Cardinality(taken) \in Nat /\ queue \in Nat
      BY <2>0, <3>1, ValuesCount DEF TypeOK
    <3> QED
      BY <3>1, <3>2 DEF Values
  <2>5. CASE UNCHANGED vars
    BY <2>1, <2>5 DEF vars, dataVars
  <2>6. CASE MainStep \/ SignalDispatch \/ SignalAllDispatch \/ Interrompt
    <3>1. UNCHANGED <<queue, taken>>
      BY <2>6 DEF MainStep, StartEnable, StartKill, DestroyDisable, DestroyKill, Join, SignalDispatch,
         SignalAllDispatch, Interrompt, Rise, dataVars
    <3> QED
      BY <2>1, <3>1
  <2>7. ASSUME NEW t \in Slots, Step(t) \/ WakeSpuriously(t), ~ Key(t), ~ Retake(t), ~ Handle(t)
        PROVE  Values' >= Values
    <3>1. UNCHANGED <<queue, taken>>
      BY <2>7 DEF Step, WakeSpuriously, BlockSignal, Gate, GateWait, Leave, LeaveWait, LockTimedWait,
         Timeout, Reacquire, Loop, Block, TestExpired, TestRunning, Continue, Shutdown, SignalWait,
         Release, Look, SigWait, LockBlock, LockRelease, Rise, dataVars
    <3> QED
      BY <2>1, <3>1
  <2> QED
    BY <1>1, <2>2, <2>3, <2>4, <2>5, <2>6, <2>7 DEF Next
<1>2. RoutinesInv /\ [Next]_vars =>
        [kind = "locked" =>
           \/ Values' >= Values
           \/ Values' = Values - 1 /\ \E t \in Slots : pc[t] = "handle" /\ pc'[t] = "loop"]_vars
  BY <1>1
<1> QED
  BY <1>2, RoutinesInvariant, PTL DEF Spec, ValuesKept
=============================================================================
