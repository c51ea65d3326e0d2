-------------------------- MODULE DispatcherProofs --------------------------
(***************************************************************************)
(* Safety of the dispatcher's writer thread, with and without spurious     *)
(* wake-ups: the lock is free when the thread ends, and the race on the    *)
(* word of flags cannot undo the start.                                    *)
(***************************************************************************)
EXTENDS Dispatcher, TLAPS

\* Before either thread has run the invariant holds.
LEMMA DispatcherInit == Init => DispatcherInv
BY DEF Init, DispatcherInv, TypeOK, Flags, MainStates, WriterStates, Holding, NotStarted

\* Every access of the writer, of main, and every spurious wake-up keeps the
\* invariant.
LEMMA DispatcherInductive == DispatcherInv /\ [Next]_vars => DispatcherInv'
<1> SUFFICES ASSUME DispatcherInv, [Next]_vars PROVE DispatcherInv'
  OBVIOUS
<1> USE DEF DispatcherInv, TypeOK, Flags, MainStates, WriterStates, Holding, NotStarted,
            Goto, mainVars, writerVars, Asleep, Awoken
<1>1. CASE BlockStart \/ WakeStart \/ Block \/ Wake
  BY <1>1 DEF BlockStart, WakeStart, Block, Wake, LockBlock
<1>2. CASE WaitStart \/ Wait
  BY <1>2 DEF WaitStart, Wait, LockWait, LockRelease
<1>3. CASE ReleaseStart \/ Release \/ ReleaseEnd
  BY <1>3 DEF ReleaseStart, Release, ReleaseEnd, LockRelease
<1>4. CASE CheckStarted \/ TestStart \/ Loop \/ CheckDispatch \/ Test
  BY <1>4 DEF CheckStarted, TestStart, Loop, CheckDispatch, Test
<1>5. CASE ClearLoad
  BY <1>5 DEF ClearLoad
<1>6. CASE ClearStore
  BY <1>6 DEF ClearStore
<1>7. CASE WakeSpuriously
  BY <1>7 DEF WakeSpuriously
<1>8. CASE MaskFails \/ ServerStops \/ Join
  BY <1>8 DEF MaskFails, ServerStops, Join
<1>9. CASE StartLoad \/ CloseLoad
  BY <1>9 DEF StartLoad, CloseLoad, SetFlagLoad
<1>10. CASE StartStore \/ CloseStore
  BY <1>10 DEF StartStore, CloseStore, SetFlagStore
<1>11. CASE StartSignal \/ CloseSignal
  BY <1>11 DEF StartSignal, CloseSignal, Signal, SignalDispatch
<1>12. CASE UNCHANGED vars
  BY <1>12 DEF vars
<1> QED
  BY <1>1, <1>2, <1>3, <1>4, <1>5, <1>6, <1>7, <1>8, <1>9, <1>10, <1>11, <1>12
  DEF Next, WriterStep, Start, Destroy

\* No step takes STARTED out of the word: the only store of the writer comes
\* after it has seen the flag, and main's second store from a copy that has it.
LEMMA StartKept ==
  ASSUME DispatcherInv, Next, "STARTED" \in flags
  PROVE  "STARTED" \in flags'
<1> USE DEF DispatcherInv
<1>1. CASE ClearStore
  BY <1>1 DEF ClearStore
<1>2. CASE StartStore \/ CloseStore
  BY <1>2 DEF StartStore, CloseStore, SetFlagStore
<1>3. CASE UNCHANGED flags
  BY <1>3
<1>4. ClearStore \/ StartStore \/ CloseStore \/ UNCHANGED flags
  BY DEF Next, WriterStep, Start, Destroy, BlockStart, WakeStart, Block, Wake, LockBlock,
         WaitStart, Wait, LockWait, ReleaseStart, Release, ReleaseEnd, LockRelease,
         CheckStarted, TestStart, Loop, CheckDispatch, Test, ClearLoad, WakeSpuriously,
         MaskFails, ServerStops, Join, StartLoad, CloseLoad, SetFlagLoad, StartSignal,
         CloseSignal, Signal
<1> QED
  BY <1>1, <1>2, <1>3, <1>4

\* The invariant holds throughout.
LEMMA DispatcherInvariant == Spec => []DispatcherInv
BY DispatcherInit, DispatcherInductive, PTL DEF Spec

\* Whenever the writer thread has ended, the mutex that main destroys after the
\* join is free, on each of the three ways out of the thread.
THEOREM WriterReleases == Spec => []ExitReleases
<1>1. DispatcherInv => ExitReleases
  BY DEF DispatcherInv, TypeOK, ExitReleases, Holding
<1> QED
  BY DispatcherInvariant, <1>1, PTL

\* The start of the dispatcher is never undone by the unprotected updates of the
\* flags, in contrast to its closure.
THEOREM StartSurvives == Spec => StartStays
<1>1. DispatcherInv /\ [Next]_vars => [("STARTED" \in flags => "STARTED" \in flags')]_vars
  BY StartKept
<1> QED
  BY DispatcherInvariant, <1>1, PTL DEF Spec, StartStays
=============================================================================
