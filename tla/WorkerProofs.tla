---------------------------- MODULE WorkerProofs ----------------------------
(***************************************************************************)
(* The worker executor never calls a handler without a task, whatever the  *)
(* moments of the beats; and with the sleeps of cli/src/linux/test3.c it   *)
(* processes no task twice and loses at most one task for each sub         *)
(* monitor, for any number of sub monitors, bits to a byte, tasks and      *)
(* attempts.                                                               *)
(***************************************************************************)
EXTENDS Worker, FiniteSetTheorems, WellFoundedInduction, TLAPS

\* There are sub monitors, and attempts are made.
LEMMA Sizes ==
  /\ SubCount \in Nat \ {0} /\ TaskCount \in Nat /\ Tries \in Nat \ {0}
  /\ Master \in Threads /\ Subs \subseteq Threads /\ Master \notin Subs
  /\ Threads = Subs \union {Master}
BY WorkerAssumption DEF Master, Threads, Subs

\* A program pushes no more than the tasks there are.
LEMMA ProgramType ==
  ASSUME program \in Programs
  PROVE  program.tasks \in 0 .. TaskCount
BY WorkerAssumption

\* Sub monitors are numbered from 1.
LEMMA SubsFromOne == Subs \subseteq Nat /\ 0 \notin Subs
BY WorkerAssumption DEF Subs

\* The count of the attempts stays below its limit.
LEMMA TriesType ==
  ASSUME NEW n \in 0 .. Tries - 1
  PROVE  /\ (n + 1) % Tries \in 0 .. Tries - 1
         /\ n + 1 < Tries => (n + 1) % Tries = n + 1
<1>1. CASE n + 1 < Tries
  BY <1>1, Sizes
<1>2. CASE n + 1 = Tries
  BY <1>2, Sizes
<1> QED
  BY <1>1, <1>2, Sizes

\* The smallest member of a set of numbers.
LEMMA MinOfNats ==
  ASSUME NEW S \in SUBSET Nat, S # {}
  PROVE  Min(S) \in S /\ \A b \in S : Min(S) <= b
<1>1. PICK x \in S : \A y \in S : ~ (<<y, x>> \in OpToRel(<, Nat))
  BY NatLessThanWellFounded, WFMin
<1>2. ASSUME NEW y \in S, y < x PROVE FALSE
  <2>1. <<y, x>> \in OpToRel(<, Nat)
    BY <1>2 DEF OpToRel
  <2> QED
    BY <1>1, <2>1
<1>3. \A y \in S : x <= y
  BY <1>2
<1> QED
  BY <1>3 DEF Min

\* A scan returns the first member from its position on, or 0.
LEMMA NextOfType ==
  ASSUME NEW S \in SUBSET Subs, NEW b \in Nat
  PROVE  /\ NextOf(S, b) # 0 => NextOf(S, b) \in S /\ NextOf(S, b) >= b
         /\ NextOf(S, b) # 0 => \A s \in S : s >= b => s >= NextOf(S, b)
         /\ NextOf(S, b) = 0 => \A s \in S : s < b
<1> DEFINE T == {s \in S : s >= b}
<1>1. 0 \notin S /\ S \subseteq Nat /\ T \subseteq Nat
  BY SubsFromOne
<1>2. NextOf(S, b) = IF T = {} THEN 0 ELSE Min(T)
  BY DEF NextOf
<1>3. CASE T = {}
  BY <1>1, <1>2, <1>3
<1>4. CASE T # {}
  <2>1. Min(T) \in T /\ \A s \in T : Min(T) <= s
    BY <1>1, <1>4, MinOfNats
  <2> HIDE DEF T
  <2>2. NextOf(S, b) = Min(T)
    BY <1>2, <1>4
  <2>3. Min(T) \in S /\ Min(T) >= b /\ \A s \in S : s >= b => s >= Min(T)
    BY <1>1, <2>1 DEF T
  <2>4. Min(T) # 0
    BY <1>1, <2>3
  <2> QED
    BY <2>2, <2>3, <2>4
<1> QED
  BY <1>3, <1>4

\* A byte holds bits of sub monitors.
LEMMA ByteType ==
  ASSUME NEW b \in Nat
  PROVE  Byte(b) \subseteq Subs /\ Held(b) \subseteq Subs
BY DEF Byte, Held

\* What a scan finds in a byte is a bit from its position on that is clear, or that is
\* set, and it goes on at a later bit.
LEMMA ScanType ==
  ASSUME NEW b \in Nat
  PROVE  /\ NextOf(Byte(b) \ bitmap, b) # 0 =>
              /\ NextOf(Byte(b) \ bitmap, b) \in Subs \ bitmap
              /\ NextOf(Byte(b) \ bitmap, b) >= b
         /\ NextOf(Held(b), b) # 0 => NextOf(Held(b), b) \in Subs
         /\ NextByte(b) # 0 => NextByte(b) \in Subs /\ NextByte(b) >= b
<1>1. (Byte(b) \ bitmap) \in SUBSET Subs /\ (Subs \ Byte(b)) \in SUBSET Subs
      /\ Held(b) \in SUBSET Subs
  BY ByteType
<1>2. NextOf(Byte(b) \ bitmap, b) # 0 =>
        NextOf(Byte(b) \ bitmap, b) \in Byte(b) \ bitmap /\ NextOf(Byte(b) \ bitmap, b) >= b
  BY <1>1, NextOfType, Zenon
<1>3. NextOf(Held(b), b) # 0 => NextOf(Held(b), b) \in Held(b)
  BY <1>1, NextOfType, Zenon
<1>4. NextByte(b) # 0 => NextByte(b) \in Subs \ Byte(b) /\ NextByte(b) >= b
  BY <1>1, NextOfType, Zenon DEF NextByte
<1> QED
  BY <1>1, <1>2, <1>3, <1>4

\* The count of the runs of a task stops at 2.
LEMMA CappedCount ==
  ASSUME NEW n \in 0 .. 2
  PROVE  Min({2, n + 1}) = IF n = 0 THEN 1 ELSE 2
<1>1. Min({2, n + 1}) \in {2, n + 1} /\ \A b \in {2, n + 1} : Min({2, n + 1}) <= b
  BY MinOfNats
<1> QED
  BY <1>1

-----------------------------------------------------------------------------
(* Types *)

\* Each thread is at an access of its own code.
Places ==
  /\ pc[Master] \in MonitorStates \union MasterStates
  /\ \A s \in Subs : pc[s] \in MonitorStates \union SubStates

Typed == TypeOK /\ Places

\* The types hold before any thread has run.
LEMMA TypedInit == Init => Typed
<1> SUFFICES ASSUME Init PROVE Typed
  OBVIOUS
<1>1. bitmap \subseteq Subs /\ failstry \in {0, 1}
  BY WorkerAssumption DEF Init
<1>2. tries \in [Threads -> 0 .. Tries - 1] /\ pushed \in 0 .. TaskCount /\ at \in 0 .. SubCount + 1
  BY Sizes DEF Init
<1>3. /\ target \in Threads /\ queue \in Seq(Tasks)
      /\ pc \in [Threads -> MonitorStates] /\ ran \in [Tasks -> 0 .. 2]
      /\ pc[Master] = "born"
  BY Sizes DEF Init, MonitorStates
<1>4. TypeOK
  BY <1>1, <1>2, <1>3 DEF Init, TypeOK, MainStates
<1>5. Places
  BY <1>3, Sizes DEF Places
<1> QED
  BY <1>4, <1>5 DEF Typed

\* Every access keeps the types.
LEMMA TypedInductive == Typed /\ [Next]_vars => Typed'
<1> SUFFICES ASSUME Typed, [Next]_vars PROVE Typed'
  OBVIOUS
<1> USE Sizes DEF Typed, TypeOK, Places, MainStates, MonitorStates, MasterStates, SubStates,
        At, MainAt, Goto, mainVars, monitorVars, execVars, localVars
<1>1. CASE MainPush
  <2>1. pushed' \in 0 .. TaskCount /\ pushed + 1 \in Tasks
    BY <1>1, ProgramType DEF MainPush, Tasks
  <2>2. queue' \in Seq(Tasks)
    BY <1>1, <2>1 DEF MainPush
  <2> QED
    BY <1>1, <2>1, <2>2 DEF MainPush
<1>2. CASE MainBeat
  BY <1>2 DEF MainBeat, Ping
<1>3. CASE MainFilled
  BY <1>3 DEF MainFilled
<1>31. CASE MainTest
  BY <1>31 DEF MainTest
<1>32. CASE MainDrain
  BY <1>32 DEF MainDrain, Ping
<1>4. CASE MainStop
  BY <1>4 DEF MainStop
<1>5. CASE MainSignal
  BY <1>5 DEF MainSignal, Ping
<1>6. CASE MainJoin
  <2>1. target' \in Threads
    BY <1>6 DEF MainJoin, Threads
  <2> QED
    BY <1>6, <2>1 DEF MainJoin
<1>7. CASE BeatExchange
  BY <1>7 DEF BeatExchange
<1>8. CASE CleanScan
  <2>1. at' \in 0 .. SubCount + 1 /\ (pc'[Master] = "clean_check" => at' \in Subs)
    <3>1. at \in Nat
      OBVIOUS
    <3>2. /\ NextOf(Held(at), at) # 0 => NextOf(Held(at), at) \in Subs
          /\ NextByte(at) # 0 => NextByte(at) \in Subs
      BY <3>1, ScanType
    <3>3. \/ at' = NextOf(Held(at), at) /\ at' # 0
          \/ at' = NextByte(at) /\ at' # 0 /\ pc' = pc
          \/ at' = 1
      BY <1>8 DEF CleanScan
    <3>4. at' \in Subs
      BY <3>2, <3>3 DEF Subs
    <3> QED
      BY <3>4 DEF Subs
  <2>2. pc' \in [Threads -> MonitorStates \union MasterStates \union SubStates]
        /\ pc'[Master] \in {"clean_check", "clean_scan", "scan"} /\ \A s \in Subs : pc'[s] = pc[s]
    BY <1>8 DEF CleanScan
  <2> QED
    BY <1>8, <2>1, <2>2 DEF CleanScan
<1>9. CASE CleanCheck
  <2>1. at \in Subs /\ at' \in 0 .. SubCount + 1 /\ (pc'[Master] = "clean_load" => at' \in Subs)
    BY <1>9 DEF CleanCheck, Subs
  <2>2. pc' \in [Threads -> MonitorStates \union MasterStates \union SubStates]
        /\ pc'[Master] \in {"clean_load", "clean_scan"} /\ \A s \in Subs : pc'[s] = pc[s]
    BY <1>9 DEF CleanCheck
  <2> QED
    BY <1>9, <2>1, <2>2 DEF CleanCheck
<1>10. CASE CleanLoad
  BY <1>10 DEF CleanLoad, TryLoad, Held
<1>11. CASE CleanCas
  <2>1. at \in Subs /\ at' \in 0 .. SubCount + 1
    BY <1>11 DEF CleanCas, Subs
  <2> QED
    BY <1>11, <2>1, SMTT(30) DEF CleanCas, TryDone
<1>12. CASE CleanLost
  BY <1>12 DEF CleanLost, TryAgain
<1>13. CASE BeatScan
  <2> DEFINE n == NextOf(Byte(at) \ bitmap, at)
             m == NextByte(at)
  <2>1. at \in Nat
    OBVIOUS
  <2>2. (n # 0 => n \in Subs) /\ (m # 0 => m \in Subs)
    BY <2>1, ScanType
  <2> HIDE DEF n, m
  <2>3. CASE n # 0 /\ at' = n /\ Goto(Master, "inspect") /\ UNCHANGED <<tries, byteval>>
    <3>1. at' \in Subs /\ at' \in 0 .. SubCount + 1
      BY <2>2, <2>3 DEF Subs
    <3> QED
      BY <1>13, <2>3, <3>1 DEF BeatScan
  <2>4. CASE at' = 0 /\ Return(Master)
    BY <1>13, <2>4 DEF BeatScan, Return
  <2>5. CASE m # 0 /\ at' = m /\ UNCHANGED <<pc, tries, byteval>>
    <3>1. at' \in 0 .. SubCount + 1
      BY <2>2, <2>5 DEF Subs
    <3> QED
      BY <1>13, <2>5, <3>1 DEF BeatScan
  <2> QED
    BY <1>13, <2>3, <2>4, <2>5 DEF BeatScan, n, m
<1>14. CASE BeatInspect
  BY <1>14 DEF BeatInspect
<1>15. CASE BeatTake
  BY <1>15 DEF BeatTake
<1>16. CASE BeatNothing
  BY <1>16 DEF BeatNothing, Return
<1>17. CASE BeatMark
  BY <1>17 DEF BeatMark
<1>18. CASE BeatPing
  <2>1. at \in Subs /\ at' \in 0 .. SubCount + 1 /\ at \in Threads
    BY <1>18 DEF BeatPing, Subs
  <2>2. killed' \in BOOLEAN /\ pending' \in [Threads -> BOOLEAN]
    BY <1>18, <2>1 DEF BeatPing, Ping
  <2> QED
    BY <1>18, <2>1, <2>2 DEF BeatPing
<1>19. ASSUME NEW t \in Threads, BlockSignal(t) PROVE Typed'
  BY <1>19 DEF BlockSignal, Return
<1>20. ASSUME NEW t \in Threads, WakeUp(t) PROVE Typed'
  BY <1>20 DEF WakeUp
<1>21. ASSUME NEW s \in Subs, SubEnableLoad(s) PROVE Typed'
  <2>1. s \in Threads /\ s # Master /\ tries[s] \in 0 .. Tries - 1
    OBVIOUS
  <2>2. CASE TryAgain(s, "enable_load", "wait")
    BY <1>21, <2>1, <2>2, TriesType DEF SubEnableLoad, TryAgain
  <2>3. CASE Return(s)
    BY <1>21, <2>1, <2>3 DEF SubEnableLoad, Return
  <2>4. CASE TryLoad(s, s, "enable_cas")
    BY <1>21, <2>1, <2>4 DEF SubEnableLoad, TryLoad, Held
  <2> QED
    BY <1>21, <2>2, <2>3, <2>4 DEF SubEnableLoad
<1>22. ASSUME NEW s \in Subs, SubEnableCas(s) PROVE Typed'
  BY <1>22 DEF SubEnableCas, TryDone
<1>23. ASSUME NEW s \in Subs, SubEnableLost(s) PROVE Typed'
  <2>1. s \in Threads /\ s # Master /\ tries[s] \in 0 .. Tries - 1
    OBVIOUS
  <2>2. CASE TryAgain(s, "enable_load", "wait")
    BY <1>23, <2>1, <2>2, TriesType DEF SubEnableLost, TryAgain
  <2>3. CASE Return(s)
    BY <1>23, <2>1, <2>3 DEF SubEnableLost, Return
  <2> QED
    BY <1>23, <2>2, <2>3 DEF SubEnableLost
<1>24. ASSUME NEW s \in Subs, SubCall(s) PROVE Typed'
  BY <1>24 DEF SubCall
<1>25. ASSUME NEW s \in Subs, SubFinish(s) PROVE Typed'
  <2>1. \A k \in Tasks : ran[k] \in 0 .. 2
    OBVIOUS
  <2>2. ASSUME NEW k \in Tasks PROVE Min({2, ran[k] + 1}) \in 0 .. 2
    <3> HIDE DEF Typed
    <3>1. Min({2, ran[k] + 1}) = IF ran[k] = 0 THEN 1 ELSE 2
      BY <2>1, CappedCount
    <3> QED
      BY <3>1
  <2>3. ran' \in [Tasks -> 0 .. 2]
    BY <1>25, <2>1, <2>2 DEF SubFinish
  <2> QED
    BY <1>25, <2>3 DEF SubFinish
<1>26. ASSUME NEW s \in Subs, SubDisableLoad(s) PROVE Typed'
  BY <1>26 DEF SubDisableLoad, TryLoad, Held
<1>27. ASSUME NEW s \in Subs, SubDisableCas(s) PROVE Typed'
  BY <1>27 DEF SubDisableCas, Return
<1>28. ASSUME NEW s \in Subs, SubDisableLost(s) PROVE Typed'
  <2>1. s \in Threads /\ s # Master /\ tries[s] \in 0 .. Tries - 1
    OBVIOUS
  <2> QED
    BY <1>28, <2>1, TriesType DEF SubDisableLost, TryAgain
<1>29. ASSUME NEW s \in Subs, SubReport(s) PROVE Typed'
  BY <1>29 DEF SubReport, Return
<1>30. CASE UNCHANGED vars
  BY <1>30 DEF vars
<1> QED
  BY <1>1, <1>2, <1>3, <1>31, <1>32, <1>4, <1>5, <1>6, <1>7, <1>8, <1>9, <1>10, <1>11, <1>12,
     <1>13, <1>14, <1>15, <1>16, <1>17, <1>18, <1>19, <1>20, <1>21, <1>22, <1>23, <1>24, <1>25,
     <1>26, <1>27, <1>28, <1>29, <1>30 DEF Next, MainEnd, MasterStep, MonitorStep, SubStep

\* Every variable always has its type; in particular the master never looks at
\* a sub monitor that does not exist.
THEOREM WorkerTypeCorrect == Spec => []TypeOK
<1>1. Typed => TypeOK
  BY DEF Typed
<1> QED
  BY <1>1, TypedInit, TypedInductive, PTL DEF Spec

-----------------------------------------------------------------------------
(* A handler has a task *)

\* Sub monitor s may come to its handler without another task being handed to it.
HasTask(s) ==
  \/ pending[s] /\ running[s]
  \/ pc[s] \in SubStates
  \/ ~finished[s]
  \/ pc[Master] \in {"mark", "ping"} /\ at = s

\* A sub monitor that may come to its handler has been handed a task.  Main signals
\* a monitor only after it has cleared its running flag, so that the signal of
\* mcmchMonitorDestroy starts no beat.
HandedInv ==
  /\ main \in {"signal", "join"} => ~running[target]
  /\ \A s \in Subs : HasTask(s) => taskdata[s] # Nothing

\* What the queue yields is a task.
LEMMA HeadIsTask ==
  ASSUME Typed, queue # <<>>
  PROVE  Head(queue) \in Tasks /\ Head(queue) # Nothing
<1>1. queue \in Seq(Tasks)
  BY DEF Typed, TypeOK
<1>2. Head(queue) \in Tasks
  BY <1>1
<1> QED
  BY <1>2, Sizes DEF Tasks, Nothing

\* It holds before any thread has run.
LEMMA HandedInit == Init => HandedInv
BY Sizes DEF Init, HandedInv, HasTask, SubStates

\* Every access keeps it.
LEMMA HandedInductive ==
  ASSUME Typed, Typed', HandedInv, [Next]_vars
  PROVE  HandedInv'
<1> USE Sizes DEF Typed, TypeOK, Places, HandedInv, HasTask, MonitorStates, MasterStates,
        SubStates, Nothing, At, MainAt, Goto, mainVars, monitorVars, execVars, localVars
<1>1. CASE MainPush
  BY <1>1 DEF MainPush
<1>2. CASE MainBeat
  BY <1>2 DEF MainBeat, Ping
<1>3. CASE MainFilled
  BY <1>3 DEF MainFilled
<1>31. CASE MainTest
  BY <1>31 DEF MainTest
<1>32. CASE MainDrain
  BY <1>32 DEF MainDrain, Ping
<1>4. CASE MainStop
  BY <1>4 DEF MainStop
<1>5. CASE MainSignal
  BY <1>5 DEF MainSignal, Ping
<1>6. CASE MainJoin
  BY <1>6 DEF MainJoin
<1>7. CASE BeatExchange
  BY <1>7 DEF BeatExchange
<1>8. CASE CleanScan
  BY <1>8 DEF CleanScan
<1>9. CASE CleanCheck
  BY <1>9 DEF CleanCheck
<1>10. CASE CleanLoad
  BY <1>10 DEF CleanLoad, TryLoad
<1>11. CASE CleanCas
  BY <1>11 DEF CleanCas, TryDone
<1>12. CASE CleanLost
  BY <1>12 DEF CleanLost, TryAgain
<1>13. CASE BeatScan
  BY <1>13 DEF BeatScan, Return
<1>14. CASE BeatInspect
  BY <1>14 DEF BeatInspect
<1>15. CASE BeatTake
  <2>1. Head(queue) # Nothing
    BY <1>15, HeadIsTask DEF BeatTake
  <2> QED
    BY <1>15, <2>1 DEF BeatTake
<1>16. CASE BeatNothing
  BY <1>16 DEF BeatNothing, Return
<1>17. CASE BeatMark
  BY <1>17 DEF BeatMark
<1>18. CASE BeatPing
  BY <1>18 DEF BeatPing, Ping
<1>19. ASSUME NEW t \in Threads, BlockSignal(t) PROVE HandedInv'
  BY <1>19 DEF BlockSignal, Return
<1>20. ASSUME NEW t \in Threads, WakeUp(t) PROVE HandedInv'
  BY <1>20 DEF WakeUp
<1>21. ASSUME NEW s \in Subs, SubEnableLoad(s) PROVE HandedInv'
  BY <1>21, SMTT(30) DEF SubEnableLoad, TryLoad, TryAgain, Return
<1>22. ASSUME NEW s \in Subs, SubEnableCas(s) PROVE HandedInv'
  BY <1>22 DEF SubEnableCas, TryDone
<1>23. ASSUME NEW s \in Subs, SubEnableLost(s) PROVE HandedInv'
  BY <1>23, SMTT(30) DEF SubEnableLost, TryAgain, Return
<1>24. ASSUME NEW s \in Subs, SubCall(s) PROVE HandedInv'
  BY <1>24 DEF SubCall
<1>25. ASSUME NEW s \in Subs, SubFinish(s) PROVE HandedInv'
  BY <1>25 DEF SubFinish
<1>26. ASSUME NEW s \in Subs, SubDisableLoad(s) PROVE HandedInv'
  BY <1>26 DEF SubDisableLoad, TryLoad
<1>27. ASSUME NEW s \in Subs, SubDisableCas(s) PROVE HandedInv'
  BY <1>27 DEF SubDisableCas, Return
<1>28. ASSUME NEW s \in Subs, SubDisableLost(s) PROVE HandedInv'
  BY <1>28 DEF SubDisableLost, TryAgain
<1>29. ASSUME NEW s \in Subs, SubReport(s) PROVE HandedInv'
  BY <1>29 DEF SubReport, Return
<1>30. CASE UNCHANGED vars
  BY <1>30 DEF vars
<1> QED
  BY <1>1, <1>2, <1>3, <1>31, <1>32, <1>4, <1>5, <1>6, <1>7, <1>8, <1>9, <1>10, <1>11, <1>12,
     <1>13, <1>14, <1>15, <1>16, <1>17, <1>18, <1>19, <1>20, <1>21, <1>22, <1>23, <1>24, <1>25,
     <1>26, <1>27, <1>28, <1>29, <1>30 DEF Next, MainEnd, MasterStep, MonitorStep, SubStep


\* The handler is never called before a task has been handed to its monitor, with
\* any number of sub monitors and tasks, whatever malloc left in the bitmap and
\* whenever main beats and destroys the executor.
THEOREM HandlerNeverBare == Spec => []HandlerHasTask
<1>1. Init => Typed /\ HandedInv
  BY TypedInit, HandedInit
<1>2. Typed /\ HandedInv /\ [Next]_vars => Typed' /\ HandedInv'
  BY TypedInductive, HandedInductive
<1>3. HandedInv => HandlerHasTask
  BY DEF HandedInv, HasTask, HandlerHasTask, SubStates
<1> QED
  BY <1>1, <1>2, <1>3, PTL DEF Spec

-----------------------------------------------------------------------------
(* Main lets everybody settle *)

Cleaning == {"exchange", "clean_scan", "clean_check", "clean_load", "clean_cas"}
Serving  == {"scan", "inspect", "take", "mark", "ping"}
Leaving  == {"disable_load", "disable_cas", "report"}
Driving  == {"fill", "nap", "test", "drain"}

\* The beat has not come to sub monitor s yet.
Upcoming(s) ==
  \/ pc[Master] = "wait" /\ pending[Master] /\ running[Master]
  \/ pc[Master] \in Cleaning
  \/ pc[Master] \in Serving /\ s >= at

\* Sub monitor s does not answer a ping.
Idle(s) == ~pending[s] /\ pc[s] \in {"born", "wait", "handler"} \union Leaving

\* Main stops the master first and a sub monitor only when the master has exited;
\* while it pushes, nobody is answering a ping.
LifeCycle ==
  /\ \A t \in Threads : pc[t] = "exited" => ~running[t]
  /\ \A t \in Threads : t < target \/ main = "done" => pc[t] = "exited"
  /\ main \in Driving => running[Master]
  /\ pc[Master] # "exited" => \A s \in Subs : running[s]
  /\ main \in {"signal", "join"} => ~running[target]
  /\ pending[Master] /\ running[Master] => pc[Master] = "wait"
  /\ main = "fill" =>
       /\ pc[Master] \in {"born", "wait"} /\ ~pending[Master]
       /\ \A s \in Subs : Idle(s)

\* What the master has read of the sub monitor it looks at is still so.
MasterKnows ==
  /\ pc[Master] \in {"clean_load", "clean_cas"} => finished[at]
  /\ pc[Master] \in {"inspect", "take", "mark", "ping"} => at \notin bitmap
  /\ pc[Master] \in {"take", "mark"} => finished[at]
  /\ pc[Master] = "ping" => ~finished[at]

\* Sub monitor s has an unfinished task and its bit set exactly while it calls its
\* handler; it is pinged only when its bit is clear and it has a task to do.
SubKnows(s) ==
  /\ Upcoming(s) => Idle(s)
  /\ pc[s] \in {"call", "handler"} => s \in bitmap /\ ~finished[s]
  /\ pc[s] \in {"enable_load", "enable_cas"} => s \notin bitmap /\ ~finished[s]
  /\ s \in bitmap /\ ~finished[s] => pc[s] \in {"call", "handler"}
  /\ pending[s] /\ running[s] => s \notin bitmap /\ ~finished[s] /\ pc[s] \in {"wait"} \union Leaving
  /\ pc[s] \in Leaving /\ ~finished[s] => pending[s] \/ (pc[Master] = "ping" /\ at = s)
  /\ arg[s] = IF pc[s] = "handler" THEN taskdata[s] ELSE Nothing

\* The task of sub monitor s is still to be processed.
Open(s) == ~finished[s] \/ (pc[Master] = "mark" /\ at = s)

\* No task is in two places, and a task that waits or is open has not been processed.
TasksApart ==
  /\ \A i \in 1 .. Len(queue) : queue[i] \in 1 .. pushed /\ ran[queue[i]] = 0
  /\ \A i, j \in 1 .. Len(queue) : queue[i] = queue[j] => i = j
  /\ \A s \in Subs : Open(s) =>
       /\ taskdata[s] \in 1 .. pushed /\ ran[taskdata[s]] = 0
       /\ \A i \in 1 .. Len(queue) : queue[i] # taskdata[s]
  /\ \A s, u \in Subs : Open(s) /\ Open(u) /\ taskdata[s] = taskdata[u] => s = u
  /\ \A k \in Tasks : k > pushed => ran[k] = 0

\* A task that was pushed waits, is open or has been processed.
EachSomewhere ==
  \A k \in 1 .. pushed :
    \/ \E i \in 1 .. Len(queue) : queue[i] = k
    \/ \E s \in Subs : Open(s) /\ taskdata[s] = k
    \/ ran[k] = 1

Threading == LifeCycle /\ MasterKnows /\ \A s \in Subs : SubKnows(s)

\* Every access keeps the order of the life cycle.
LEMMA LifeCycleKept ==
  ASSUME Timed, Typed, Typed', Threading, [Next]_vars, ~killed'
  PROVE  LifeCycle'
<1> USE Sizes DEF Typed, TypeOK, Places, Threading, LifeCycle, SubKnows, MonitorStates,
        MasterStates, SubStates, MainStates, Driving, Idle, Leaving, At, MainAt, Goto, mainVars, monitorVars, execVars,
        localVars
<1>1. CASE MainPush
  <2>1. main = "nap" => Settled
    BY <1>1 DEF MainPush, Slept, Timed
  <2> QED
    BY <1>1, <2>1 DEF MainPush, Settled
<1>2. CASE MainBeat
  BY <1>2 DEF MainBeat, Ping
<1>3. CASE MainFilled
  BY <1>3 DEF MainFilled
<1>31. CASE MainTest
  BY <1>31 DEF MainTest
<1>32. CASE MainDrain
  <2>1. Settled
    BY <1>32 DEF MainDrain, Slept, Timed
  <2> QED
    BY <1>32, <2>1 DEF MainDrain, Ping, Settled
<1>4. CASE MainStop
  <2>1. ~running'[target] /\ target \in Threads /\ \A t \in Threads \ {target} : running'[t] = running[t]
    BY <1>4 DEF MainStop
  <2>2. pc[Master] # "exited" => target \notin Subs
    BY DEF Threads, Subs, Master
  <2>3. main = "stop" /\ main' = "signal" /\ UNCHANGED <<pc, pending, target>>
    BY <1>4 DEF MainStop
  <2>4. \A t \in Threads : running'[t] => running[t]
    BY <2>1
  <2>5. \A s \in Subs : running[s] /\ s # target => running'[s]
    BY <2>1
  <2> QED
    BY <2>1, <2>2, <2>3, <2>4, <2>5
<1>5. CASE MainSignal
  BY <1>5 DEF MainSignal, Ping
<1>6. CASE MainJoin
  <2>1. pc[target] = "exited" /\ UNCHANGED <<pc, running, pending>> /\ main = "join"
    BY <1>6 DEF MainJoin
  <2>2. \/ target < SubCount /\ target' = target + 1 /\ main' = "stop"
        \/ target = SubCount /\ target' = target /\ main' = "done"
    BY <1>6 DEF MainJoin, Threads
  <2>3. ASSUME NEW t \in Threads, t < target' \/ main' = "done" PROVE pc[t] = "exited"
    <3>1. t < target \/ t = target
      BY <2>2, <2>3 DEF Threads
    <3> QED
      BY <2>1, <3>1
  <2> QED
    BY <2>1, <2>2, <2>3
<1>7. CASE BeatExchange
  BY <1>7 DEF BeatExchange
<1>8. CASE CleanScan
  BY <1>8 DEF CleanScan
<1>9. CASE CleanCheck
  BY <1>9 DEF CleanCheck
<1>10. CASE CleanLoad
  BY <1>10 DEF CleanLoad, TryLoad
<1>11. CASE CleanCas
  BY <1>11 DEF CleanCas, TryDone
<1>12. CASE CleanLost
  BY <1>12 DEF CleanLost, TryAgain
<1>13. CASE BeatScan
  BY <1>13 DEF BeatScan, Return
<1>14. CASE BeatInspect
  BY <1>14 DEF BeatInspect
<1>15. CASE BeatTake
  BY <1>15 DEF BeatTake
<1>16. CASE BeatNothing
  BY <1>16 DEF BeatNothing, Return
<1>17. CASE BeatMark
  BY <1>17 DEF BeatMark
<1>18. CASE BeatPing
  BY <1>18 DEF BeatPing, Ping
<1>19. ASSUME NEW t \in Threads, BlockSignal(t) PROVE LifeCycle'
  BY <1>19 DEF BlockSignal, Return
<1>20. ASSUME NEW t \in Threads, WakeUp(t) PROVE LifeCycle'
  BY <1>20 DEF WakeUp
<1>21. ASSUME NEW s \in Subs, SubEnableLoad(s) PROVE LifeCycle'
  <2>1. main # "fill" /\ s # Master /\ s \in Threads
    BY <1>21 DEF SubEnableLoad
  <2>2. /\ pc' = [pc EXCEPT ![s] = pc'[s]] /\ (pc'[s] = "exited" => ~running[s])
        /\ pc[s] # "exited"
    <3>1. CASE Return(s)
      BY <1>21, <2>1, <3>1 DEF SubEnableLoad, Return
    <3>2. CASE TryAgain(s, "enable_load", "wait")
      BY <1>21, <2>1, <3>2 DEF SubEnableLoad, TryAgain
    <3>3. CASE TryLoad(s, s, "enable_cas")
      BY <1>21, <2>1, <3>3 DEF SubEnableLoad, TryLoad
    <3> QED
      BY <1>21, <3>1, <3>2, <3>3 DEF SubEnableLoad
  <2>3. UNCHANGED <<main, target, running, pending>>
    BY <1>21 DEF SubEnableLoad
  <2>4. pc'[Master] = pc[Master] /\ \A t \in Threads \ {s} : pc'[t] = pc[t]
    BY <2>1, <2>2
  <2> QED
    BY <2>1, <2>2, <2>3, <2>4
<1>22. ASSUME NEW s \in Subs, SubEnableCas(s) PROVE LifeCycle'
  BY <1>22 DEF SubEnableCas, TryDone
<1>23. ASSUME NEW s \in Subs, SubEnableLost(s) PROVE LifeCycle'
  <2>1. main # "fill" /\ s # Master /\ s \in Threads
    BY <1>23 DEF SubEnableLost
  <2>2. /\ pc' = [pc EXCEPT ![s] = pc'[s]] /\ (pc'[s] = "exited" => ~running[s])
        /\ pc[s] # "exited"
    <3>1. CASE Return(s)
      BY <1>23, <2>1, <3>1 DEF SubEnableLost, Return
    <3>2. CASE TryAgain(s, "enable_load", "wait")
      BY <1>23, <2>1, <3>2 DEF SubEnableLost, TryAgain
    <3>3. CASE TryLoad(s, s, "enable_cas")
      BY <1>23, <2>1, <3>3 DEF SubEnableLost, TryLoad
    <3> QED
      BY <1>23, <3>1, <3>2, <3>3 DEF SubEnableLost
  <2>3. UNCHANGED <<main, target, running, pending>>
    BY <1>23 DEF SubEnableLost
  <2>4. pc'[Master] = pc[Master] /\ \A t \in Threads \ {s} : pc'[t] = pc[t]
    BY <2>1, <2>2
  <2> QED
    BY <2>1, <2>2, <2>3, <2>4
<1>24. ASSUME NEW s \in Subs, SubCall(s) PROVE LifeCycle'
  BY <1>24 DEF SubCall
<1>25. ASSUME NEW s \in Subs, SubFinish(s) PROVE LifeCycle'
  BY <1>25 DEF SubFinish
<1>26. ASSUME NEW s \in Subs, SubDisableLoad(s) PROVE LifeCycle'
  BY <1>26 DEF SubDisableLoad, TryLoad
<1>27. ASSUME NEW s \in Subs, SubDisableCas(s) PROVE LifeCycle'
  BY <1>27 DEF SubDisableCas, Return
<1>28. ASSUME NEW s \in Subs, SubDisableLost(s) PROVE LifeCycle'
  BY <1>28 DEF SubDisableLost, TryAgain
<1>29. ASSUME NEW s \in Subs, SubReport(s) PROVE LifeCycle'
  BY <1>29 DEF SubReport, Return
<1>30. CASE UNCHANGED vars
  BY <1>30 DEF vars
<1> QED
  BY <1>1, <1>2, <1>3, <1>31, <1>32, <1>4, <1>5, <1>6, <1>7, <1>8, <1>9, <1>10, <1>11, <1>12,
     <1>13, <1>14, <1>15, <1>16, <1>17, <1>18, <1>19, <1>20, <1>21, <1>22, <1>23, <1>24, <1>25,
     <1>26, <1>27, <1>28, <1>29, <1>30 DEF Next, MainEnd, MasterStep, MonitorStep, SubStep

\* What the master has read stays so.
LEMMA MasterKnowsKept ==
  ASSUME Timed, Typed, Typed', Threading, [Next]_vars, ~killed'
  PROVE  MasterKnows'
<1> USE Sizes DEF Typed, TypeOK, Places, Threading, LifeCycle, MasterKnows, SubKnows,
        Upcoming, Idle, Driving, MainStates, Cleaning, Serving, Leaving, MonitorStates, MasterStates, SubStates, At,
        MainAt, Goto, mainVars, monitorVars, execVars, localVars
<1>1. CASE MainPush
  BY <1>1 DEF MainPush
<1>2. CASE MainBeat
  BY <1>2 DEF MainBeat, Ping
<1>3. CASE MainFilled
  BY <1>3 DEF MainFilled
<1>31. CASE MainTest
  BY <1>31 DEF MainTest
<1>32. CASE MainDrain
  <2>1. Settled
    BY <1>32 DEF MainDrain, Slept, Timed
  <2> QED
    BY <1>32, <2>1 DEF MainDrain, Ping, Settled
<1>4. CASE MainStop
  BY <1>4 DEF MainStop
<1>5. CASE MainSignal
  BY <1>5 DEF MainSignal, Ping
<1>6. CASE MainJoin
  BY <1>6 DEF MainJoin
<1>7. CASE BeatExchange
  BY <1>7 DEF BeatExchange
<1>8. CASE CleanScan
  BY <1>8 DEF CleanScan
<1>9. CASE CleanCheck
  BY <1>9 DEF CleanCheck
<1>10. CASE CleanLoad
  BY <1>10 DEF CleanLoad, TryLoad
<1>11. CASE CleanCas
  BY <1>11 DEF CleanCas, TryDone
<1>12. CASE CleanLost
  BY <1>12 DEF CleanLost, TryAgain
<1>13. CASE BeatScan
  <2> DEFINE n == NextOf(Byte(at) \ bitmap, at)
             m == NextByte(at)
  <2>1. at \in Nat
    OBVIOUS
  <2>2. (n # 0 => n \in Subs /\ n \notin bitmap /\ n >= at) /\ (m # 0 => m \in Subs /\ m >= at)
    BY <2>1, ScanType
  <2> HIDE DEF n, m
  <2>3. CASE n # 0 /\ at' = n /\ Goto(Master, "inspect") /\ UNCHANGED <<tries, byteval>>
    BY <1>13, <2>2, <2>3 DEF BeatScan
  <2>4. CASE at' = 0 /\ Return(Master)
    BY <1>13, <2>4 DEF BeatScan, Return
  <2>5. CASE m # 0 /\ at' = m /\ UNCHANGED <<pc, tries, byteval>>
    BY <1>13, <2>5 DEF BeatScan
  <2> QED
    BY <1>13, <2>3, <2>4, <2>5 DEF BeatScan, n, m
<1>14. CASE BeatInspect
  BY <1>14 DEF BeatInspect
<1>15. CASE BeatTake
  BY <1>15 DEF BeatTake
<1>16. CASE BeatNothing
  BY <1>16 DEF BeatNothing, Return
<1>17. CASE BeatMark
  BY <1>17 DEF BeatMark
<1>18. CASE BeatPing
  BY <1>18 DEF BeatPing, Ping
<1>19. ASSUME NEW t \in Threads, BlockSignal(t) PROVE MasterKnows'
  BY <1>19 DEF BlockSignal, Return
<1>20. ASSUME NEW t \in Threads, WakeUp(t) PROVE MasterKnows'
  BY <1>20 DEF WakeUp
<1>21. ASSUME NEW s \in Subs, SubEnableLoad(s) PROVE MasterKnows'
  BY <1>21 DEF SubEnableLoad, TryLoad, TryAgain, Return
<1>22. ASSUME NEW s \in Subs, SubEnableCas(s) PROVE MasterKnows'
  <2>1. pc[Master] \in {"inspect", "take", "mark", "ping"} => at \in Subs /\ Upcoming(at)
    BY SubsFromOne
  <2>2. pc[Master] \in {"inspect", "take", "mark", "ping"} => at # s
    BY <1>22, <2>1 DEF SubEnableCas
  <2> QED
    BY <1>22, <2>2 DEF SubEnableCas, TryDone
<1>23. ASSUME NEW s \in Subs, SubEnableLost(s) PROVE MasterKnows'
  BY <1>23 DEF SubEnableLost, TryAgain, Return
<1>24. ASSUME NEW s \in Subs, SubCall(s) PROVE MasterKnows'
  BY <1>24 DEF SubCall
<1>25. ASSUME NEW s \in Subs, SubFinish(s) PROVE MasterKnows'
  BY <1>25 DEF SubFinish
<1>26. ASSUME NEW s \in Subs, SubDisableLoad(s) PROVE MasterKnows'
  BY <1>26 DEF SubDisableLoad, TryLoad
<1>27. ASSUME NEW s \in Subs, SubDisableCas(s) PROVE MasterKnows'
  BY <1>27 DEF SubDisableCas, Return
<1>28. ASSUME NEW s \in Subs, SubDisableLost(s) PROVE MasterKnows'
  BY <1>28 DEF SubDisableLost, TryAgain
<1>29. ASSUME NEW s \in Subs, SubReport(s) PROVE MasterKnows'
  BY <1>29 DEF SubReport, Return
<1>30. CASE UNCHANGED vars
  BY <1>30 DEF vars
<1> QED
  BY <1>1, <1>2, <1>3, <1>31, <1>32, <1>4, <1>5, <1>6, <1>7, <1>8, <1>9, <1>10, <1>11, <1>12,
     <1>13, <1>14, <1>15, <1>16, <1>17, <1>18, <1>19, <1>20, <1>21, <1>22, <1>23, <1>24, <1>25,
     <1>26, <1>27, <1>28, <1>29, <1>30 DEF Next, MainEnd, MasterStep, MonitorStep, SubStep

\* Every access keeps what sub monitor v relies on.
LEMMA SubKnowsKept ==
  ASSUME Timed, Typed, Typed', Threading, NEW v \in Subs, [Next]_vars, ~killed'
  PROVE  SubKnows(v)'
<1> USE Sizes DEF Typed, TypeOK, Places, Threading, LifeCycle, MasterKnows, SubKnows,
        Upcoming, Idle, Driving, MainStates, Cleaning, Serving, Leaving, MonitorStates, MasterStates, SubStates, At,
        MainAt, Goto, mainVars, monitorVars, execVars, localVars
<1>1. CASE MainPush
  BY <1>1 DEF MainPush
<1>2. CASE MainBeat
  BY <1>2 DEF MainBeat, Ping
<1>3. CASE MainFilled
  BY <1>3 DEF MainFilled
<1>31. CASE MainTest
  BY <1>31 DEF MainTest
<1>32. CASE MainDrain
  <2>1. Settled
    BY <1>32 DEF MainDrain, Slept, Timed
  <2> QED
    BY <1>32, <2>1 DEF MainDrain, Ping, Settled
<1>4. CASE MainStop
  BY <1>4 DEF MainStop
<1>5. CASE MainSignal
  BY <1>5 DEF MainSignal, Ping
<1>6. CASE MainJoin
  BY <1>6 DEF MainJoin
<1>7. CASE BeatExchange
  BY <1>7 DEF BeatExchange
<1>8. CASE CleanScan
  BY <1>8 DEF CleanScan
<1>9. CASE CleanCheck
  BY <1>9 DEF CleanCheck
<1>10. CASE CleanLoad
  BY <1>10 DEF CleanLoad, TryLoad
<1>11. CASE CleanCas
  BY <1>11 DEF CleanCas, TryDone
<1>12. CASE CleanLost
  BY <1>12 DEF CleanLost, TryAgain
<1>13. CASE BeatScan
  <2> DEFINE n == NextOf(Byte(at) \ bitmap, at)
             m == NextByte(at)
  <2>1. at \in Nat
    OBVIOUS
  <2>2. (n # 0 => n \in Subs /\ n \notin bitmap /\ n >= at) /\ (m # 0 => m \in Subs /\ m >= at)
    BY <2>1, ScanType
  <2> HIDE DEF n, m
  <2>3. CASE n # 0 /\ at' = n /\ Goto(Master, "inspect") /\ UNCHANGED <<tries, byteval>>
    <3>1. n \in Nat /\ v \in Nat /\ at \in Nat /\ (v >= n => v >= at)
      BY <2>1, <2>2, <2>3, SubsFromOne
    <3>2. pc'[Master] = "inspect" /\ at' = n /\ pc[Master] = "scan" /\ pc'[v] = pc[v]
      BY <1>13, <2>3 DEF BeatScan
    <3>3. Upcoming(v)' => Upcoming(v)
      BY <3>1, <3>2
    <3>4. UNCHANGED <<bitmap, finished, taskdata, running, pending, arg>>
      BY <1>13 DEF BeatScan
    <3> HIDE DEF Upcoming
    <3> QED
      BY <3>2, <3>3, <3>4
  <2>4. CASE at' = 0 /\ Return(Master)
    BY <1>13, <2>4 DEF BeatScan, Return
  <2>5. CASE m # 0 /\ at' = m /\ UNCHANGED <<pc, tries, byteval>>
    <3>1. m \in Nat /\ v \in Nat /\ at \in Nat /\ (v >= m => v >= at)
      BY <2>1, <2>2, <2>5, SubsFromOne
    <3>2. UNCHANGED <<pc, bitmap, finished, taskdata, running, pending, arg>> /\ pc[Master] = "scan"
      BY <1>13, <2>5 DEF BeatScan
    <3>3. Upcoming(v)' => Upcoming(v)
      BY <2>5, <3>1, <3>2
    <3> HIDE DEF Upcoming
    <3> QED
      BY <3>2, <3>3
  <2> QED
    BY <1>13, <2>3, <2>4, <2>5 DEF BeatScan, n, m
<1>14. CASE BeatInspect
  BY <1>14 DEF BeatInspect
<1>15. CASE BeatTake
  BY <1>15 DEF BeatTake
<1>16. CASE BeatNothing
  BY <1>16 DEF BeatNothing, Return
<1>17. CASE BeatMark
  BY <1>17 DEF BeatMark
<1>18. CASE BeatPing
  <2>1. at \in Subs /\ at \in Nat /\ v \in Nat /\ Upcoming(at) /\ pc[at] # "handler"
    BY <1>18, SubsFromOne DEF BeatPing
  <2>2. pc'[Master] = "scan" /\ at' = at + 1 /\ \A t \in Threads \ {Master} : pc'[t] = pc[t]
    BY <1>18 DEF BeatPing
  <2>3. CASE v = at
    <3>1. ~Upcoming(v)'
      BY <2>1, <2>2, <2>3
    <3>2. pc'[v] \in {"wait"} \union Leaving /\ v \notin bitmap' /\ ~finished'[v] /\ pending'[v]
      BY <1>18, <2>1, <2>2, <2>3 DEF BeatPing, Ping
    <3>3. arg'[v] = Nothing
      BY <1>18, <2>1, <2>3 DEF BeatPing
    <3> HIDE DEF Upcoming
    <3> QED
      BY <3>1, <3>2, <3>3
  <2>4. CASE v # at
    <3>1. Upcoming(v)' => Upcoming(v)
      BY <1>18, <2>1, <2>2, <2>4 DEF BeatPing
    <3>2. pending'[v] = pending[v] /\ pc'[v] = pc[v] /\ arg'[v] = arg[v]
      BY <1>18, <2>1, <2>2, <2>4 DEF BeatPing, Ping
    <3>3. UNCHANGED <<bitmap, finished, taskdata, running>>
      BY <1>18 DEF BeatPing
    <3> HIDE DEF Upcoming
    <3> QED
      BY <1>18, <2>4, <3>1, <3>2, <3>3 DEF BeatPing
  <2> QED
    BY <2>3, <2>4
<1>19. ASSUME NEW t \in Threads, BlockSignal(t) PROVE SubKnows(v)'
  BY <1>19 DEF BlockSignal, Return
<1>20. ASSUME NEW t \in Threads, WakeUp(t) PROVE SubKnows(v)'
  BY <1>20 DEF WakeUp
<1>21. ASSUME NEW s \in Subs, SubEnableLoad(s) PROVE SubKnows(v)'
  BY <1>21, SMTT(30) DEF SubEnableLoad, TryLoad, TryAgain, Return
<1>22. ASSUME NEW s \in Subs, SubEnableCas(s) PROVE SubKnows(v)'
  BY <1>22 DEF SubEnableCas, TryDone
<1>23. ASSUME NEW s \in Subs, SubEnableLost(s) PROVE SubKnows(v)'
  BY <1>23, SMTT(30) DEF SubEnableLost, TryAgain, Return
<1>24. ASSUME NEW s \in Subs, SubCall(s) PROVE SubKnows(v)'
  BY <1>24 DEF SubCall
<1>25. ASSUME NEW s \in Subs, SubFinish(s) PROVE SubKnows(v)'
  BY <1>25 DEF SubFinish
<1>26. ASSUME NEW s \in Subs, SubDisableLoad(s) PROVE SubKnows(v)'
  BY <1>26 DEF SubDisableLoad, TryLoad
<1>27. ASSUME NEW s \in Subs, SubDisableCas(s) PROVE SubKnows(v)'
  BY <1>27 DEF SubDisableCas, Return
<1>28. ASSUME NEW s \in Subs, SubDisableLost(s) PROVE SubKnows(v)'
  BY <1>28 DEF SubDisableLost, TryAgain
<1>29. ASSUME NEW s \in Subs, SubReport(s) PROVE SubKnows(v)'
  BY <1>29 DEF SubReport, Return
<1>30. CASE UNCHANGED vars
  BY <1>30 DEF vars
<1> QED
  BY <1>1, <1>2, <1>3, <1>31, <1>32, <1>4, <1>5, <1>6, <1>7, <1>8, <1>9, <1>10, <1>11, <1>12,
     <1>13, <1>14, <1>15, <1>16, <1>17, <1>18, <1>19, <1>20, <1>21, <1>22, <1>23, <1>24, <1>25,
     <1>26, <1>27, <1>28, <1>29, <1>30 DEF Next, MainEnd, MasterStep, MonitorStep, SubStep

AtMostOnce == \A k \in Tasks : ran[k] <= 1

Tasking == TasksApart /\ EachSomewhere /\ AtMostOnce

\* A range with one more number.
LEMMA OneMore ==
  ASSUME NEW k \in Nat
  PROVE  1 .. k + 1 = (1 .. k) \union {k + 1} /\ k + 1 \notin 1 .. k
OBVIOUS

\* An access that leaves the tasks where they are.
LEMMA TasksAlike ==
  ASSUME Tasking, UNCHANGED <<queue, pushed, taskdata, ran>>, \A s \in Subs : Open(s)' = Open(s)
  PROVE  Tasking'
BY DEF Tasking, TasksApart, EachSomewhere, AtMostOnce

\* Every access keeps the tasks apart and loses none.
LEMMA TaskingKept ==
  ASSUME Timed, Typed, Typed', Threading, Tasking, [Next]_vars
  PROVE  Tasking'
<1> USE Sizes DEF Typed, TypeOK, Places, Threading, LifeCycle, MasterKnows, SubKnows,
        MonitorStates, MasterStates, SubStates, At, MainAt, Goto, mainVars, monitorVars,
        execVars, localVars
<1>1. CASE MainPush
  <2> DEFINE n == Len(queue)
  <2>1. /\ pushed \in Nat /\ pushed < TaskCount /\ pushed' = pushed + 1 /\ n \in Nat
        /\ UNCHANGED <<taskdata, ran>> /\ \A u \in Subs : Open(u)' = Open(u)
        /\ pushed + 1 \in Tasks
    BY <1>1, ProgramType DEF MainPush, Open, Tasks
  <2>2. /\ Len(queue') = n + 1 /\ queue'[n + 1] = pushed + 1
        /\ \A i \in 1 .. n : queue'[i] = queue[i]
    BY <1>1 DEF MainPush
  <2>3. TasksApart /\ EachSomewhere /\ AtMostOnce
    BY DEF Tasking
  <2> HIDE DEF n, Typed, Threading
  <2>4. 1 .. n + 1 = (1 .. n) \union {n + 1} /\ 1 .. pushed + 1 = (1 .. pushed) \union {pushed + 1}
        /\ n + 1 \notin 1 .. n /\ pushed + 1 \notin 1 .. pushed /\ ran[pushed + 1] = 0
    <3>1. ran[pushed + 1] = 0
      BY <2>1, <2>3 DEF TasksApart
    <3> QED
      BY <2>1, <3>1, OneMore
  <2>5. TasksApart'
    <3>1. \A i \in 1 .. n + 1 : queue'[i] \in 1 .. pushed + 1 /\ ran[queue'[i]] = 0
      BY <2>2, <2>3, <2>4 DEF TasksApart, n
    <3>2. \A i, j \in 1 .. n + 1 : queue'[i] = queue'[j] => i = j
      BY <2>2, <2>3, <2>4 DEF TasksApart, n
    <3>3. ASSUME NEW u \in Subs, Open(u)
          PROVE  /\ taskdata[u] \in 1 .. pushed + 1 /\ ran[taskdata[u]] = 0
                 /\ \A i \in 1 .. n + 1 : queue'[i] # taskdata[u]
      BY <2>2, <2>3, <2>4, <3>3 DEF TasksApart, n
    <3>4. \A u, w \in Subs : Open(u) /\ Open(w) /\ taskdata[u] = taskdata[w] => u = w
      BY <2>3 DEF TasksApart
    <3>5. \A k \in Tasks : k > pushed + 1 => ran[k] = 0
      BY <2>1, <2>3 DEF TasksApart, Tasks
    <3> QED
      BY <2>1, <2>2, <3>1, <3>2, <3>3, <3>4, <3>5 DEF TasksApart
  <2>6. EachSomewhere'
    BY <2>1, <2>2, <2>3, <2>4 DEF EachSomewhere, n
  <2>7. AtMostOnce'
    BY <2>1, <2>3 DEF AtMostOnce
  <2> QED
    BY <2>5, <2>6, <2>7 DEF Tasking
<1>2. CASE MainBeat
  <2>1. \A s \in Subs : Open(s)' = Open(s)
    BY <1>2 DEF Open, MainBeat
  <2> QED
    BY <1>2, <2>1, TasksAlike DEF MainBeat
<1>3. CASE MainFilled
  <2>1. \A s \in Subs : Open(s)' = Open(s)
    BY <1>3 DEF Open, MainFilled
  <2> QED
    BY <1>3, <2>1, TasksAlike DEF MainFilled
<1>31. CASE MainTest
  <2>1. \A s \in Subs : Open(s)' = Open(s)
    BY <1>31 DEF Open, MainTest
  <2> QED
    BY <1>31, <2>1, TasksAlike DEF MainTest
<1>32. CASE MainDrain
  <2>1. \A s \in Subs : Open(s)' = Open(s)
    BY <1>32 DEF Open, MainDrain
  <2> QED
    BY <1>32, <2>1, TasksAlike DEF MainDrain
<1>4. CASE MainStop
  <2>1. \A s \in Subs : Open(s)' = Open(s)
    BY <1>4 DEF Open, MainStop
  <2> QED
    BY <1>4, <2>1, TasksAlike DEF MainStop
<1>5. CASE MainSignal
  <2>1. \A s \in Subs : Open(s)' = Open(s)
    BY <1>5 DEF Open, MainSignal, Ping
  <2> QED
    BY <1>5, <2>1, TasksAlike DEF MainSignal, Ping
<1>6. CASE MainJoin
  <2>1. \A s \in Subs : Open(s)' = Open(s)
    BY <1>6 DEF Open, MainJoin
  <2> QED
    BY <1>6, <2>1, TasksAlike DEF MainJoin
<1>7. CASE BeatExchange
  <2>1. \A s \in Subs : Open(s)' = Open(s)
    BY <1>7 DEF Open, BeatExchange
  <2> QED
    BY <1>7, <2>1, TasksAlike DEF BeatExchange
<1>8. CASE CleanScan
  <2>1. \A s \in Subs : Open(s)' = Open(s)
    BY <1>8 DEF Open, CleanScan
  <2> QED
    BY <1>8, <2>1, TasksAlike DEF CleanScan
<1>9. CASE CleanCheck
  <2>1. \A s \in Subs : Open(s)' = Open(s)
    BY <1>9 DEF Open, CleanCheck
  <2> QED
    BY <1>9, <2>1, TasksAlike DEF CleanCheck
<1>10. CASE CleanLoad
  <2>1. \A s \in Subs : Open(s)' = Open(s)
    BY <1>10 DEF Open, CleanLoad, TryLoad
  <2> QED
    BY <1>10, <2>1, TasksAlike DEF CleanLoad, TryLoad
<1>11. CASE CleanCas
  <2>1. \A s \in Subs : Open(s)' = Open(s)
    BY <1>11 DEF Open, CleanCas, TryDone
  <2> QED
    BY <1>11, <2>1, TasksAlike DEF CleanCas, TryDone
<1>12. CASE CleanLost
  <2>1. \A s \in Subs : Open(s)' = Open(s)
    BY <1>12 DEF Open, CleanLost, TryAgain
  <2> QED
    BY <1>12, <2>1, TasksAlike DEF CleanLost, TryAgain
<1>13. CASE BeatScan
  <2>1. \A s \in Subs : Open(s)' = Open(s)
    BY <1>13 DEF Open, BeatScan, Return
  <2> QED
    BY <1>13, <2>1, TasksAlike DEF BeatScan, Return
<1>14. CASE BeatInspect
  <2>1. \A s \in Subs : Open(s)' = Open(s)
    BY <1>14 DEF Open, BeatInspect
  <2> QED
    BY <1>14, <2>1, TasksAlike DEF BeatInspect
<1>15. CASE BeatTake
  <2> DEFINE n == Len(queue)
  <2>1. /\ n \in Nat /\ n > 0 /\ UNCHANGED <<pushed, ran>> /\ at \in Subs
        /\ taskdata' = [taskdata EXCEPT ![at] = queue[1]]
    BY <1>15 DEF BeatTake
  <2>2. Len(queue') = n - 1 /\ \A i \in 1 .. n - 1 : queue'[i] = queue[i + 1]
    BY <1>15, <2>1 DEF BeatTake
  <2>3. TasksApart /\ EachSomewhere /\ AtMostOnce
    BY DEF Tasking
  <2>4. ~Open(at) /\ Open(at)' /\ \A u \in Subs \ {at} : Open(u)' = Open(u)
    BY <1>15 DEF BeatTake, Open
  <2>5. taskdata'[at] = queue[1] /\ \A u \in Subs \ {at} : taskdata'[u] = taskdata[u]
    BY <2>1
  <2>6. /\ 1 \in 1 .. n /\ \A i \in 1 .. n - 1 : i + 1 \in 1 .. n /\ i + 1 # 1
        /\ \A i, j \in 1 .. n - 1 : i + 1 = j + 1 => i = j
        /\ \A i \in 1 .. n : i # 1 => i - 1 \in 1 .. n - 1 /\ i - 1 + 1 = i
    BY <2>1, SMTT(30)
  <2> HIDE DEF n, Typed, Threading
  <2>7. TasksApart'
    <3>1. \A i \in 1 .. n - 1 : queue'[i] \in 1 .. pushed /\ ran[queue'[i]] = 0
      BY <2>2, <2>3, <2>6 DEF TasksApart, n
    <3>2. \A i, j \in 1 .. n - 1 : queue'[i] = queue'[j] => i = j
      BY <2>2, <2>3, <2>6 DEF TasksApart, n
    <3>3. ASSUME NEW u \in Subs, Open(u)'
          PROVE  /\ taskdata'[u] \in 1 .. pushed /\ ran[taskdata'[u]] = 0
                 /\ \A i \in 1 .. n - 1 : queue'[i] # taskdata'[u]
      BY <2>2, <2>3, <2>4, <2>5, <2>6, <3>3 DEF TasksApart, n
    <3>4. ASSUME NEW u \in Subs, NEW w \in Subs, Open(u)', Open(w)', taskdata'[u] = taskdata'[w]
          PROVE  u = w
      BY <2>3, <2>4, <2>5, <2>6, <3>4 DEF TasksApart, n
    <3>5. \A k \in Tasks : k > pushed => ran[k] = 0
      BY <2>3 DEF TasksApart
    <3> QED
      BY <2>1, <2>2, <3>1, <3>2, <3>3, <3>4, <3>5 DEF TasksApart
  <2>8. EachSomewhere'
    <3> SUFFICES ASSUME NEW k \in 1 .. pushed, ran[k] # 1
                 PROVE  \/ \E i \in 1 .. n - 1 : queue'[i] = k
                        \/ \E u \in Subs : Open(u)' /\ taskdata'[u] = k
      BY <2>1, <2>2 DEF EachSomewhere
    <3>1. CASE \E i \in 1 .. n : queue[i] = k
      <4>1. PICK i \in 1 .. n : queue[i] = k
        BY <3>1
      <4>2. CASE i = 1
        <5>1. PICK u \in Subs : u = at
          BY <2>1
        <5>2. Open(u)' /\ taskdata'[u] = k
          BY <1>15, <2>4, <2>5, <4>1, <4>2, <5>1 DEF BeatTake, Open
        <5> QED
          BY <5>2
      <4>3. CASE i # 1
        BY <2>2, <2>6, <4>1, <4>3
      <4> QED
        BY <4>2, <4>3
    <3>2. CASE \E u \in Subs : Open(u) /\ taskdata[u] = k
      BY <2>4, <2>5, <3>2
    <3> QED
      BY <2>3, <3>1, <3>2 DEF EachSomewhere, n
  <2>9. AtMostOnce'
    BY <2>1, <2>3 DEF AtMostOnce
  <2> QED
    BY <2>7, <2>8, <2>9 DEF Tasking
<1>16. CASE BeatNothing
  <2>1. \A s \in Subs : Open(s)' = Open(s)
    BY <1>16 DEF Open, BeatNothing, Return
  <2> QED
    BY <1>16, <2>1, TasksAlike DEF BeatNothing, Return
<1>17. CASE BeatMark
  <2>1. \A s \in Subs : Open(s)' = Open(s)
    BY <1>17 DEF Open, BeatMark
  <2> QED
    BY <1>17, <2>1, TasksAlike DEF BeatMark
<1>18. CASE BeatPing
  <2>1. \A s \in Subs : Open(s)' = Open(s)
    BY <1>18 DEF Open, BeatPing, Ping
  <2> QED
    BY <1>18, <2>1, TasksAlike DEF BeatPing, Ping
<1>19. ASSUME NEW t \in Threads, BlockSignal(t) PROVE Tasking'
  <2>1. \A s \in Subs : Open(s)' = Open(s)
    BY <1>19 DEF Open, BlockSignal, Return
  <2> QED
    BY <1>19, <2>1, TasksAlike DEF BlockSignal, Return
<1>20. ASSUME NEW t \in Threads, WakeUp(t) PROVE Tasking'
  <2>1. \A s \in Subs : Open(s)' = Open(s)
    BY <1>20 DEF Open, WakeUp
  <2> QED
    BY <1>20, <2>1, TasksAlike DEF WakeUp
<1>21. ASSUME NEW s \in Subs, SubEnableLoad(s) PROVE Tasking'
  <2>1. \A u \in Subs : Open(u)' = Open(u)
    BY <1>21 DEF Open, SubEnableLoad, TryLoad, TryAgain, Return
  <2> QED
    BY <1>21, <2>1, TasksAlike DEF SubEnableLoad, TryLoad, TryAgain, Return
<1>22. ASSUME NEW s \in Subs, SubEnableCas(s) PROVE Tasking'
  <2>1. \A u \in Subs : Open(u)' = Open(u)
    BY <1>22 DEF Open, SubEnableCas, TryDone
  <2> QED
    BY <1>22, <2>1, TasksAlike DEF SubEnableCas, TryDone
<1>23. ASSUME NEW s \in Subs, SubEnableLost(s) PROVE Tasking'
  <2>1. \A u \in Subs : Open(u)' = Open(u)
    BY <1>23, SMTT(30) DEF Open, SubEnableLost, TryAgain, Return
  <2> QED
    BY <1>23, <2>1, TasksAlike DEF SubEnableLost, TryAgain, Return
<1>24. ASSUME NEW s \in Subs, SubCall(s) PROVE Tasking'
  <2>1. \A u \in Subs : Open(u)' = Open(u)
    BY <1>24 DEF Open, SubCall
  <2> QED
    BY <1>24, <2>1, TasksAlike DEF SubCall
<1>25. ASSUME NEW s \in Subs, SubFinish(s) PROVE Tasking'
  <2> DEFINE k == taskdata[s]
  <2>1. TasksApart /\ EachSomewhere /\ AtMostOnce
    BY DEF Tasking
  <2>2. /\ UNCHANGED <<queue, pushed, taskdata>> /\ ~finished[s] /\ arg[s] = k
        /\ Open(s) /\ ~Open(s)' /\ \A u \in Subs \ {s} : Open(u)' = Open(u)
    BY <1>25 DEF SubFinish, Open
  <2>3. /\ k \in 1 .. pushed /\ ran[k] = 0 /\ k \in Tasks
        /\ \A i \in 1 .. Len(queue) : queue[i] # k
        /\ \A u \in Subs \ {s} : Open(u) => taskdata[u] # k
    <3>1. k \in 1 .. pushed /\ ran[k] = 0 /\ \A i \in 1 .. Len(queue) : queue[i] # k
      BY <2>1, <2>2 DEF TasksApart
    <3>2. \A u \in Subs \ {s} : Open(u) => taskdata[u] # k
      BY <2>1, <2>2 DEF TasksApart
    <3>3. pushed \in 0 .. TaskCount
      OBVIOUS
    <3>4. k \in Tasks
      BY <3>1, <3>3 DEF Tasks
    <3> QED
      BY <3>1, <3>2, <3>4
  <2>4. Min({2, ran[k] + 1}) = 1
    BY <2>3, CappedCount
  <2>5. ran'[k] = 1 /\ \A j \in Tasks \ {k} : ran'[j] = ran[j]
    BY <1>25, <2>2, <2>3, <2>4 DEF SubFinish
  <2>6. pushed \in Nat /\ 1 .. pushed \subseteq Tasks
    BY DEF Tasks
  <2> HIDE DEF k, Typed, Threading
  <2>7. TasksApart'
    <3>1. \A i \in 1 .. Len(queue) : queue[i] \in 1 .. pushed /\ ran'[queue[i]] = 0
      BY <2>1, <2>3, <2>5, <2>6 DEF TasksApart
    <3>2. \A i, j \in 1 .. Len(queue) : queue[i] = queue[j] => i = j
      BY <2>1 DEF TasksApart
    <3>3. ASSUME NEW u \in Subs, Open(u)'
          PROVE  /\ taskdata[u] \in 1 .. pushed /\ ran'[taskdata[u]] = 0
                 /\ \A i \in 1 .. Len(queue) : queue[i] # taskdata[u]
      BY <2>1, <2>2, <2>3, <2>5, <2>6, <3>3 DEF TasksApart
    <3>4. ASSUME NEW u \in Subs, NEW w \in Subs, Open(u)', Open(w)', taskdata[u] = taskdata[w]
          PROVE  u = w
      BY <2>1, <2>2, <3>4 DEF TasksApart
    <3>5. \A j \in Tasks : j > pushed => ran'[j] = 0
      BY <2>1, <2>3, <2>5, <2>6 DEF TasksApart, Tasks
    <3> QED
      BY <2>2, <3>1, <3>2, <3>3, <3>4, <3>5 DEF TasksApart
  <2>8. EachSomewhere'
    BY <2>1, <2>2, <2>3, <2>5, <2>6 DEF EachSomewhere, k
  <2>9. AtMostOnce'
    BY <2>1, <2>3, <2>5 DEF AtMostOnce
  <2> QED
    BY <2>7, <2>8, <2>9 DEF Tasking
<1>26. ASSUME NEW s \in Subs, SubDisableLoad(s) PROVE Tasking'
  <2>1. \A u \in Subs : Open(u)' = Open(u)
    BY <1>26 DEF Open, SubDisableLoad, TryLoad
  <2> QED
    BY <1>26, <2>1, TasksAlike DEF SubDisableLoad, TryLoad
<1>27. ASSUME NEW s \in Subs, SubDisableCas(s) PROVE Tasking'
  <2>1. \A u \in Subs : Open(u)' = Open(u)
    BY <1>27 DEF Open, SubDisableCas, Return
  <2> QED
    BY <1>27, <2>1, TasksAlike DEF SubDisableCas, Return
<1>28. ASSUME NEW s \in Subs, SubDisableLost(s) PROVE Tasking'
  <2>1. \A u \in Subs : Open(u)' = Open(u)
    BY <1>28 DEF Open, SubDisableLost, TryAgain
  <2> QED
    BY <1>28, <2>1, TasksAlike DEF SubDisableLost, TryAgain
<1>29. ASSUME NEW s \in Subs, SubReport(s) PROVE Tasking'
  <2>1. \A u \in Subs : Open(u)' = Open(u)
    BY <1>29 DEF Open, SubReport, Return
  <2> QED
    BY <1>29, <2>1, TasksAlike DEF SubReport, Return
<1>30. CASE UNCHANGED vars
  BY <1>30, TasksAlike DEF vars, Open
<1> QED
  BY <1>1, <1>2, <1>3, <1>31, <1>32, <1>4, <1>5, <1>6, <1>7, <1>8, <1>9, <1>10, <1>11, <1>12,
     <1>13, <1>14, <1>15, <1>16, <1>17, <1>18, <1>19, <1>20, <1>21, <1>22, <1>23, <1>24, <1>25,
     <1>26, <1>27, <1>28, <1>29, <1>30 DEF Next, MainEnd, MasterStep, MonitorStep, SubStep

-----------------------------------------------------------------------------
(* Once, and not overwritten *)

\* Main destroys the executor only when the queue is empty, and pushes nothing after.
LeftEmpty == main \notin Driving => queue = <<>>

TimedInv == Typed /\ (Timed => LeftEmpty /\ (killed \/ Threading) /\ Tasking)

\* The program stays the same.
LEMMA TimedKept ==
  ASSUME [Next]_vars
  PROVE  Timed' = Timed
<1> USE DEF mainVars
<1>1. CASE MainPush \/ MainBeat \/ MainEnd
  BY <1>1 DEF Timed, MainPush, MainBeat, MainEnd, MainFilled, MainTest, MainDrain, MainStop,
         MainSignal, MainJoin
<1>2. CASE MasterStep
  BY <1>2 DEF Timed, MasterStep, BeatExchange, CleanScan, CleanCheck, CleanLoad, CleanCas,
         CleanLost, BeatScan, BeatInspect, BeatTake, BeatNothing, BeatMark, BeatPing
<1>3. CASE \E t \in Threads : MonitorStep(t)
  BY <1>3 DEF Timed, MonitorStep, BlockSignal, WakeUp
<1>4. CASE \E s \in Subs : SubStep(s)
  BY <1>4 DEF Timed, SubStep, SubEnableLoad, SubEnableCas, SubEnableLost, SubCall, SubFinish,
         SubDisableLoad, SubDisableCas, SubDisableLost, SubReport
<1>5. CASE UNCHANGED vars
  BY <1>5 DEF Timed, vars
<1> QED
  BY <1>1, <1>2, <1>3, <1>4, <1>5 DEF Next

\* Every access keeps the queue empty that main has found empty.
LEMMA LeftEmptyKept ==
  ASSUME Typed, LeftEmpty, [Next]_vars
  PROVE  LeftEmpty'
<1> USE DEF LeftEmpty, Driving, At, MainAt, mainVars, monitorVars, execVars, localVars
<1>1. CASE MainPush \/ MainBeat
  BY <1>1 DEF MainPush, MainBeat
<1>2. CASE MainEnd
  BY <1>2 DEF MainEnd, MainFilled, MainTest, MainDrain, MainStop, MainSignal, MainJoin
<1>3. CASE MasterStep
  BY <1>3 DEF MasterStep, BeatExchange, CleanScan, CleanCheck, CleanLoad, CleanCas, CleanLost,
         BeatScan, BeatInspect, BeatTake, BeatNothing, BeatMark, BeatPing
<1>4. CASE \E t \in Threads : MonitorStep(t)
  BY <1>4 DEF MonitorStep, BlockSignal, WakeUp
<1>5. CASE \E s \in Subs : SubStep(s)
  BY <1>5 DEF SubStep, SubEnableLoad, SubEnableCas, SubEnableLost, SubCall, SubFinish,
         SubDisableLoad, SubDisableCas, SubDisableLost, SubReport
<1>6. CASE UNCHANGED vars
  BY <1>6 DEF vars
<1> QED
  BY <1>1, <1>2, <1>3, <1>4, <1>5, <1>6 DEF Next

\* Nothing happens in a process that has ended.
LEMMA NothingAfterKill ==
  ASSUME killed, [Next]_vars
  PROVE  UNCHANGED vars
<1> USE DEF At, MainAt
<1>1. ~MainPush /\ ~MainBeat /\ ~MainEnd
  BY DEF MainPush, MainBeat, MainEnd, MainFilled, MainTest, MainDrain, MainStop, MainSignal,
         MainJoin
<1>2. ~MasterStep
  BY DEF MasterStep, BeatExchange, CleanScan, CleanCheck, CleanLoad, CleanCas, CleanLost,
         BeatScan, BeatInspect, BeatTake, BeatNothing, BeatMark, BeatPing
<1>3. ~\E t \in Threads : MonitorStep(t)
  BY DEF MonitorStep, BlockSignal, WakeUp
<1>4. ~\E s \in Subs : SubStep(s)
  BY DEF SubStep, SubEnableLoad, SubEnableCas, SubEnableLost, SubCall, SubFinish,
         SubDisableLoad, SubDisableCas, SubDisableLost, SubReport
<1> QED
  BY <1>1, <1>2, <1>3, <1>4 DEF Next

\* It holds before any thread has run.
LEMMA TimedInit == Init => TimedInv
<1> SUFFICES ASSUME Init PROVE TimedInv
  OBVIOUS
<1>1. Typed
  BY TypedInit
<1>2. LifeCycle /\ MasterKnows
  BY Sizes DEF Init, LifeCycle, MasterKnows, MasterStates, Driving, Idle, Threads, Master
<1>3. \A s \in Subs : SubKnows(s)
  BY Sizes DEF Init, SubKnows, Upcoming, Cleaning, Serving, Leaving
<1>4. Tasking
  <2>1. Len(queue) = 0 /\ pushed = 0 /\ \A s \in Subs : ~Open(s)
    BY Sizes DEF Init, Open
  <2>2. \A k \in Tasks : ran[k] = 0
    BY DEF Init
  <2> QED
    BY <2>1, <2>2 DEF Tasking, TasksApart, EachSomewhere, AtMostOnce
<1>5. LeftEmpty
  BY DEF Init, LeftEmpty, Driving
<1> QED
  BY <1>1, <1>2, <1>3, <1>4, <1>5 DEF TimedInv, Threading

\* Every access keeps it.
LEMMA TimedInductive == TimedInv /\ [Next]_vars => TimedInv'
<1> SUFFICES ASSUME TimedInv, [Next]_vars, Timed PROVE TimedInv'
  BY TypedInductive, TimedKept DEF TimedInv
<1>1. Typed /\ Typed' /\ LeftEmpty' /\ (killed \/ Threading) /\ Tasking
  BY TypedInductive, LeftEmptyKept DEF TimedInv
<1>2. CASE killed
  <2>1. UNCHANGED vars
    BY <1>2, NothingAfterKill
  <2>2. Tasking' /\ killed'
    <3>1. UNCHANGED <<pc, queue, pushed, taskdata, finished, at, ran, killed>>
      BY <2>1 DEF vars, mainVars, execVars, localVars
    <3>2. \A s \in Subs : Open(s)' = Open(s)
      BY <3>1 DEF Open
    <3> QED
      BY <1>1, <1>2, <3>1, <3>2, TasksAlike
  <2> QED
    BY <1>1, <2>2 DEF TimedInv
<1>3. CASE ~killed
  <2>1. Threading /\ Tasking'
    BY <1>1, <1>3, TaskingKept
  <2>2. ASSUME ~killed' PROVE LifeCycle' /\ MasterKnows' /\ \A v \in Subs : SubKnows(v)'
    BY <1>1, <2>1, <2>2, LifeCycleKept, MasterKnowsKept, SubKnowsKept
  <2> QED
    BY <1>1, <2>1, <2>2 DEF TimedInv, Threading
<1> QED
  BY <1>2, <1>3

\* With the sleeps of test3.c no task is processed twice, although sub monitors that
\* fail to enable their bits are pinged again (line 90), and however few attempts at
\* the bitmap a monitor makes.
THEOREM TimelyOnce == Spec => []ProcessedOnce
<1>1. TimedInv => ProcessedOnce
  BY DEF TimedInv, Tasking, AtMostOnce, ProcessedOnce
<1> QED
  BY <1>1, TimedInit, TimedInductive, PTL DEF Spec

\* Nor is a task overwritten in the hands of a sub monitor that has not run it.
THEOREM TimelyNotOverwritten == Spec => []NoneOverwritten
<1>1. TimedInv => NoneOverwritten
  <2> SUFFICES ASSUME TimedInv, Timed, NEW k \in 1 .. pushed
               PROVE  Contains(queue, k) \/ HandedOut(k) \/ ran[k] > 0
    BY DEF NoneOverwritten
  <2>1. CASE \E i \in 1 .. Len(queue) : queue[i] = k
    BY <2>1 DEF Contains
  <2>2. CASE \E s \in Subs : Open(s) /\ taskdata[s] = k
    BY <2>2 DEF HandedOut, Open
  <2> QED
    BY <2>1, <2>2 DEF TimedInv, Tasking, EachSomewhere
<1> QED
  BY <1>1, TimedInit, TimedInductive, PTL DEF Spec

\* With the sleeps of test3.c, which destroys the executor straight after its last
\* beat, no more tasks are lost than there are sub monitors, whatever malloc left in
\* the bitmap and however few attempts at it a monitor makes.
THEOREM TimelyLossBounded == Spec => []LossBounded
<1>1. TimedInv => LossBounded
  <2> SUFFICES ASSUME TimedInv, Timed, main = "done"
               PROVE  Cardinality({k \in 1 .. pushed : ran[k] = 0}) <= SubCount
    BY DEF LossBounded
  <2> DEFINE L == {k \in 1 .. pushed : ran[k] = 0}
             H == {taskdata[s] : s \in Subs}
  <2>1. ASSUME NEW k \in L PROVE k \in H
    <3>1. queue = <<>>
      BY DEF TimedInv, LeftEmpty, Driving
    <3>2. \E s \in Subs : taskdata[s] = k
      BY <2>1, <3>1 DEF TimedInv, Tasking, EachSomewhere
    <3> QED
      BY <3>2
  <2>2. IsFiniteSet(Subs) /\ Cardinality(Subs) = SubCount
    BY Sizes, FS_Interval DEF Subs
  <2>3. IsFiniteSet(H) /\ Cardinality(H) <= SubCount
    <3>1. taskdata \in Surjection(Subs, H)
      BY DEF TimedInv, Typed, TypeOK, Surjection
    <3> QED
      BY <2>2, <3>1, FS_Surjection
  <2>4. IsFiniteSet(L) /\ Cardinality(L) <= Cardinality(H)
    <3>1. L \subseteq H
      BY <2>1
    <3> QED
      BY <2>3, <3>1, FS_Subset
  <2>5. Cardinality(L) \in Nat /\ Cardinality(H) \in Nat
    BY <2>3, <2>4, FS_CardinalityType
  <2> QED
    BY <2>3, <2>4, <2>5, Sizes
<1> QED
  BY <1>1, TimedInit, TimedInductive, PTL DEF Spec
=============================================================================
