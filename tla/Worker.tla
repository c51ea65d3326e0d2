------------------------------- MODULE Worker -------------------------------
(***************************************************************************)
(* The worker executor of routines/src/linux/worker.c on the monitors of   *)
(* routines/src/linux/monitor.c, driven by a main thread as in the stress  *)
(* tests of cli/src/linux.  A monitor is a thread that sleeps in sigwait   *)
(* and runs its beat handler at each SIGUSR1; a signal that is pending     *)
(* already is not queued twice.  Main pushes tasks into a set queue and    *)
(* pings the master monitor, whose beat hands tasks to sub monitors and    *)
(* pings them.                                                             *)
(*                                                                         *)
(* Thread 0 is the master, thread s in 1 .. SubCount the sub monitor whose *)
(* bit is s - 1; bitmap is the set of the sub monitors whose bit is set.   *)
(* Bits are changed a byte at a time, and a scan loads a byte at a time:   *)
(* that is how the two bytes of 16 monitors are scanned, and it allows     *)
(* what the longer loads of a longer bitmap could see.  The queue is the   *)
(* FIFO set that SetQueue implements with one pusher and one taker.  One   *)
(* action is one access to shared state; the test of running at line 54 of *)
(* monitor.c is made with the last access of the beat before it: what it   *)
(* could miss is seen at line 56, after the signal that always follows.    *)
(***************************************************************************)
EXTENDS Integers, Sequences, FiniteSets, FiniteSetsExt, SequencesExt

CONSTANTS
  SubCount,   \* sub monitors, the length of mcmchWorkerCreate
  ByteBits,   \* bits of a byte of the bitmap (8 in the code)
  TaskCount,  \* bound on the tasks that main pushes
  Tries,      \* attempts at a bit of the bitmap (10 in the code)
  Memory,     \* what malloc leaves in the bitmap and in failstry
  Programs    \* the programs that drive the executor: how many tasks they push and
              \* where they sleep long enough for everyone to settle, which is at
              \* "nap" and "drain" in cli/src/linux/test3.c and at "test" in test.c

Master  == 0
Subs    == 1 .. SubCount
Threads == 0 .. SubCount
Tasks   == 1 .. TaskCount
Nothing == 0

ASSUME WorkerAssumption ==
  /\ SubCount \in Nat \ {0} /\ ByteBits \in Nat \ {0}
  /\ TaskCount \in Nat /\ Tries \in Nat \ {0}
  /\ Memory \subseteq (SUBSET Subs) \X {0, 1}
  /\ Programs \subseteq [tasks : 0 .. TaskCount, sleeps : SUBSET {"nap", "drain", "test"}]

VARIABLES
  program,          \* the program that is running
  main, target,     \* main's place, and the monitor it is destroying
  pushed,           \* how many tasks main has pushed
  queue,            \* the set queue
  pc,               \* the access a monitor's thread makes next
  pending,          \* whether SIGUSR1 is pending for a thread
  running,          \* the running flag of a monitor
  bitmap, failstry, \* of the executor
  taskdata, finished, \* of a sub monitor
  arg,              \* the argument of the handler a sub monitor is running
  at,               \* the sub monitor the master's loop has reached
  tries, byteval,   \* of an attempt at the bitmap
  ran,              \* history: how often a task has been processed, 2 for more
  killed            \* SIGUSR1 has ended the process

mainVars   == <<program, main, target, pushed>>
monitorVars == <<pending, running>>
execVars   == <<bitmap, failstry, taskdata, finished>>
localVars  == <<arg, at, tries, byteval>>
vars == <<mainVars, queue, pc, monitorVars, execVars, localVars, ran, killed>>

\* mcmchWorkerCreate and mcmchWorkerStart: the threads exist and have not run.
\* Neither the bitmap nor failstry is initialised.
Init ==
  /\ program \in Programs
  /\ main = "fill" /\ target = Master
  /\ pushed = 0 /\ queue = <<>>
  /\ pc = [t \in Threads |-> "born"]
  /\ pending = [t \in Threads |-> FALSE]
  /\ running = [t \in Threads |-> TRUE]
  /\ \E m \in Memory : bitmap = m[1] /\ failstry = m[2]
  /\ taskdata = [s \in Subs |-> Nothing]
  /\ finished = [s \in Subs |-> TRUE]
  /\ arg = [s \in Subs |-> Nothing]
  /\ at = 0
  /\ tries = [t \in Threads |-> 0]
  /\ byteval = [t \in Threads |-> {}]
  /\ ran = [k \in Tasks |-> 0]
  /\ killed = FALSE

\* The next access of thread t, or of main, in a process that is still alive.
At(t, state)  == ~killed /\ pc[t] = state
MainAt(state) == ~killed /\ main = state

Goto(t, state) == pc' = [pc EXCEPT ![t] = state]

-----------------------------------------------------------------------------
(* Monitors *)

\* pthread_kill(SIGUSR1): a thread that has not blocked the signal yet takes
\* its default action, which ends the process; one that has exited ignores it.
Ping(t) ==
  /\ killed' = (pc[t] = "born")
  /\ pending' = [pending EXCEPT ![t] = @ \/ pc[t] \notin {"born", "exited"}]

\* The end of a beat, and the test of running at line 54.
Return(t) ==
  /\ Goto(t, IF running[t] THEN "wait" ELSE "exited")
  /\ tries' = [tries EXCEPT ![t] = 0]
  /\ byteval' = [byteval EXCEPT ![t] = {}]

BlockSignal(t) ==
  /\ At(t, "born")
  /\ Return(t)
  /\ UNCHANGED <<mainVars, queue, monitorVars, execVars, arg, at, ran, killed>>

\* sigwait returns; the beat begins unless the monitor is being destroyed.
WakeUp(t) ==
  /\ At(t, "wait")
  /\ pending[t]
  /\ pending' = [pending EXCEPT ![t] = FALSE]
  /\ Goto(t, CASE ~running[t] -> "exited"
               [] running[t] /\ t = Master -> "exchange"
               [] OTHER -> "enable_load")
  /\ UNCHANGED <<mainVars, queue, running, execVars, localVars, ran, killed>>

-----------------------------------------------------------------------------
(* Attempts at a bit of the executor's bitmap, at most Tries of them *)

\* The sub monitors whose bits share a byte with bit b.
Byte(b) == {s \in Subs : (s - 1) \div ByteBits = (b - 1) \div ByteBits}

\* The byte of the bitmap that holds bit b.
Held(b) == bitmap \intersect Byte(b)

TryLoad(t, b, cas) ==
  /\ byteval' = [byteval EXCEPT ![t] = Held(b)]
  /\ Goto(t, cas)
  /\ UNCHANGED tries

\* An attempt has failed: try again at load, or give up.
TryAgain(t, load, giveUp) ==
  /\ tries' = [tries EXCEPT ![t] = (@ + 1) % Tries]
  /\ Goto(t, IF tries[t] + 1 < Tries THEN load ELSE giveUp)
  /\ byteval' = [byteval EXCEPT ![t] = {}]

TryDone(t, state) ==
  /\ tries' = [tries EXCEPT ![t] = 0]
  /\ byteval' = [byteval EXCEPT ![t] = {}]
  /\ Goto(t, state)

-----------------------------------------------------------------------------
(* The master's beat *)

\* The first member of S from position b on; 0 when there is none.
NextOf(S, b) ==
  LET T == {s \in S : s >= b} IN IF T = {} THEN 0 ELSE Min(T)

\* Lines 79-83: who has failed to clear its bit since the last beat?
BeatExchange ==
  /\ At(Master, "exchange")
  /\ failstry' = 0
  /\ at' = 1
  /\ Goto(Master, IF failstry # 0 THEN "clean_scan" ELSE "scan")
  /\ UNCHANGED <<mainVars, queue, monitorVars, bitmap, taskdata, finished,
                 arg, tries, byteval, ran, killed>>

\* A scan goes on at the first bit of the next byte.
NextByte(b) == NextOf(Subs \ Byte(b), b)

CleanScan ==
  LET s == NextOf(Held(at), at)
  IN  /\ At(Master, "clean_scan")
      /\ \/ s # 0 /\ at' = s /\ Goto(Master, "clean_check")
         \/ s = 0 /\ NextByte(at) # 0 /\ at' = NextByte(at) /\ UNCHANGED pc
         \/ s = 0 /\ NextByte(at) = 0 /\ at' = 1 /\ Goto(Master, "scan")
      /\ UNCHANGED <<mainVars, queue, monitorVars, execVars, arg, tries, byteval, ran, killed>>

CleanCheck ==
  /\ At(Master, "clean_check")
  /\ at' = IF finished[at] THEN at ELSE at + 1
  /\ Goto(Master, IF finished[at] THEN "clean_load" ELSE "clean_scan")
  /\ UNCHANGED <<mainVars, queue, monitorVars, execVars, arg, tries, byteval, ran, killed>>

CleanLoad ==
  /\ At(Master, "clean_load")
  /\ TryLoad(Master, at, "clean_cas")
  /\ UNCHANGED <<mainVars, queue, monitorVars, execVars, arg, at, ran, killed>>

CleanCas ==
  /\ At(Master, "clean_cas")
  /\ Held(at) = byteval[Master]
  /\ bitmap' = bitmap \ {at}
  /\ at' = at + 1
  /\ TryDone(Master, "clean_scan")
  /\ UNCHANGED <<mainVars, queue, monitorVars, failstry, taskdata, finished, arg, ran, killed>>

\* After the last attempt failstry is set again, for the next beat (line 63).
CleanLost ==
  /\ At(Master, "clean_cas")
  /\ Held(at) # byteval[Master]
  /\ TryAgain(Master, "clean_load", "scan")
  /\ LET last == tries[Master] + 1 = Tries
     IN  /\ failstry' = IF last THEN 1 ELSE failstry
         /\ at' = IF last THEN 1 ELSE at
  /\ UNCHANGED <<mainVars, queue, monitorVars, bitmap, taskdata, finished, arg, ran, killed>>

\* Mutant: the scan does not stop at the last sub monitor.
BadBeatScan ==
  LET s == NextOf((1 .. SubCount + 1) \ bitmap, at)
  IN  /\ At(Master, "scan")
      /\ \/ s # 0 /\ at' = s /\ Goto(Master, "inspect") /\ UNCHANGED <<tries, byteval>>
         \/ s = 0 /\ at' = 0 /\ Return(Master)
      /\ UNCHANGED <<mainVars, queue, monitorVars, execVars, arg, ran, killed>>

BeatScan ==
  LET s == NextOf(Byte(at) \ bitmap, at)
  IN  /\ At(Master, "scan")
      /\ \/ s # 0 /\ at' = s /\ Goto(Master, "inspect") /\ UNCHANGED <<tries, byteval>>
         \/ s = 0 /\ NextByte(at) # 0 /\ at' = NextByte(at) /\ UNCHANGED <<pc, tries, byteval>>
         \/ s = 0 /\ NextByte(at) = 0 /\ at' = 0 /\ Return(Master)
      /\ UNCHANGED <<mainVars, queue, monitorVars, execVars, arg, ran, killed>>

BeatInspect ==
  /\ At(Master, "inspect")
  /\ Goto(Master, IF finished[at] THEN "take" ELSE "ping")
  /\ UNCHANGED <<mainVars, queue, monitorVars, execVars, localVars, ran, killed>>

BeatTake ==
  /\ At(Master, "take")
  /\ queue # <<>>
  /\ taskdata' = [taskdata EXCEPT ![at] = Head(queue)]
  /\ queue' = Tail(queue)
  /\ Goto(Master, "mark")
  /\ UNCHANGED <<mainVars, monitorVars, bitmap, failstry, finished, localVars, ran, killed>>

\* Mutant: the status of the take is not looked at.
BadBeatNothing ==
  /\ At(Master, "take")
  /\ queue = <<>>
  /\ Goto(Master, "mark")
  /\ UNCHANGED <<mainVars, queue, monitorVars, execVars, localVars, ran, killed>>

BeatNothing ==
  /\ At(Master, "take")
  /\ queue = <<>>
  /\ at' = 0
  /\ Return(Master)
  /\ UNCHANGED <<mainVars, queue, monitorVars, execVars, arg, ran, killed>>

\* Mutant: the sub monitor still counts as finished.
BadBeatMark ==
  /\ At(Master, "mark")
  /\ Goto(Master, "ping")
  /\ UNCHANGED <<mainVars, queue, monitorVars, execVars, localVars, ran, killed>>

BeatMark ==
  /\ At(Master, "mark")
  /\ finished' = [finished EXCEPT ![at] = FALSE]
  /\ Goto(Master, "ping")
  /\ UNCHANGED <<mainVars, queue, monitorVars, bitmap, failstry, taskdata, localVars, ran, killed>>

\* Lines 90 and 97.
BeatPing ==
  /\ At(Master, "ping")
  /\ Ping(at)
  /\ at' = at + 1
  /\ Goto(Master, "scan")
  /\ UNCHANGED <<mainVars, queue, running, execVars, arg, tries, byteval, ran>>

-----------------------------------------------------------------------------
(* A sub monitor's beat *)

SubEnableLoad(s) ==
  /\ At(s, "enable_load")
  /\ \/ s \in bitmap /\ IF tries[s] + 1 < Tries THEN TryAgain(s, "enable_load", "wait") ELSE Return(s)
     \/ s \notin bitmap /\ TryLoad(s, s, "enable_cas")
  /\ UNCHANGED <<mainVars, queue, monitorVars, execVars, arg, at, ran, killed>>

SubEnableCas(s) ==
  /\ At(s, "enable_cas")
  /\ Held(s) = byteval[s]
  /\ bitmap' = bitmap \union {s}
  /\ TryDone(s, "call")
  /\ UNCHANGED <<mainVars, queue, monitorVars, failstry, taskdata, finished, arg, at, ran, killed>>

SubEnableLost(s) ==
  /\ At(s, "enable_cas")
  /\ Held(s) # byteval[s]
  /\ IF tries[s] + 1 < Tries THEN TryAgain(s, "enable_load", "wait") ELSE Return(s)
  /\ UNCHANGED <<mainVars, queue, monitorVars, execVars, arg, at, ran, killed>>

SubCall(s) ==
  /\ At(s, "call")
  /\ arg' = [arg EXCEPT ![s] = taskdata[s]]
  /\ Goto(s, "handler")
  /\ UNCHANGED <<mainVars, queue, monitorVars, execVars, at, tries, byteval, ran, killed>>

\* Mutant: finished is not set after the handler.
BadSubFinish(s) ==
  /\ At(s, "handler")
  /\ ran' = [k \in Tasks |-> IF k = arg[s] THEN Min({2, ran[k] + 1}) ELSE ran[k]]
  /\ arg' = [arg EXCEPT ![s] = Nothing]
  /\ Goto(s, "disable_load")
  /\ UNCHANGED <<mainVars, queue, monitorVars, execVars, at, tries, byteval, killed>>

SubFinish(s) ==
  /\ At(s, "handler")
  /\ ran' = [k \in Tasks |-> IF k = arg[s] THEN Min({2, ran[k] + 1}) ELSE ran[k]]
  /\ arg' = [arg EXCEPT ![s] = Nothing]
  /\ finished' = [finished EXCEPT ![s] = TRUE]
  /\ Goto(s, "disable_load")
  /\ UNCHANGED <<mainVars, queue, monitorVars, bitmap, failstry, taskdata, at, tries, byteval, killed>>

SubDisableLoad(s) ==
  /\ At(s, "disable_load")
  /\ TryLoad(s, s, "disable_cas")
  /\ UNCHANGED <<mainVars, queue, monitorVars, execVars, arg, at, ran, killed>>

SubDisableCas(s) ==
  /\ At(s, "disable_cas")
  /\ Held(s) = byteval[s]
  /\ bitmap' = bitmap \ {s}
  /\ Return(s)
  /\ UNCHANGED <<mainVars, queue, monitorVars, failstry, taskdata, finished, arg, at, ran, killed>>

SubDisableLost(s) ==
  /\ At(s, "disable_cas")
  /\ Held(s) # byteval[s]
  /\ TryAgain(s, "disable_load", "report")
  /\ UNCHANGED <<mainVars, queue, monitorVars, execVars, arg, at, ran, killed>>

SubReport(s) ==
  /\ At(s, "report")
  /\ failstry' = 1
  /\ Return(s)
  /\ UNCHANGED <<mainVars, queue, monitorVars, bitmap, taskdata, finished, arg, at, ran, killed>>

-----------------------------------------------------------------------------
(* Main *)

\* Every thread has dealt with its last signal: the master sleeps, and a sub
\* monitor sleeps too or is in the handler, which takes its time.
Settled ==
  /\ pc[Master] = "wait" /\ ~pending[Master]
  /\ \A s \in Subs : pc[s] = "handler" \/ (pc[s] = "wait" /\ ~pending[s])

\* Where main sleeps, everyone has settled before it goes on.
Slept == main \in program.sleeps => Settled

MainPush ==
  /\ MainAt("fill") \/ MainAt("nap")
  /\ pushed < program.tasks
  /\ Slept
  /\ pushed' = pushed + 1
  /\ queue' = Append(queue, pushed + 1)
  /\ main' = "fill"
  /\ UNCHANGED <<program, target, pc, monitorVars, execVars, localVars, ran, killed>>

\* mcmchWorkerBeat between two pushes, or after the last one.
MainBeat ==
  /\ MainAt("fill")
  /\ Ping(Master)
  /\ main' = "nap"
  /\ UNCHANGED <<program, target, pushed, queue, pc, running, execVars, localVars, ran>>

\* The loop that fills the queue ends.
MainFilled ==
  /\ MainAt("fill") \/ MainAt("nap")
  /\ pushed = program.tasks
  /\ Slept
  /\ main' = "test"
  /\ UNCHANGED <<program, target, pushed, queue, pc, monitorVars, execVars, localVars, ran, killed>>

\* Mutant: main does not look at the queue.
BadMainTest ==
  /\ MainAt("test")
  /\ Slept
  /\ main' = "stop"
  /\ UNCHANGED <<program, target, pushed, queue, pc, monitorVars, execVars, localVars, ran, killed>>

\* Is the queue empty?
MainTest ==
  /\ MainAt("test")
  /\ Slept
  /\ main' = IF queue = <<>> THEN "stop" ELSE "drain"
  /\ UNCHANGED <<program, target, pushed, queue, pc, monitorVars, execVars, localVars, ran, killed>>

\* mcmchWorkerBeat while the queue is not empty.
MainDrain ==
  /\ MainAt("drain")
  /\ Slept
  /\ Ping(Master)
  /\ main' = "test"
  /\ UNCHANGED <<program, target, pushed, queue, pc, running, execVars, localVars, ran>>

\* mcmchWorkerDestroy, once the queue is empty: for the master and then for
\* each sub monitor, running is cleared, the thread is pinged and joined.
MainStop ==
  /\ MainAt("stop")
  /\ running' = [running EXCEPT ![target] = FALSE]
  /\ main' = "signal"
  /\ UNCHANGED <<program, target, pushed, queue, pc, pending, execVars, localVars, ran, killed>>

\* Mutant: the thread is joined without being woken.
BadMainSignal ==
  /\ MainAt("signal")
  /\ main' = "join"
  /\ UNCHANGED <<program, target, pushed, queue, pc, monitorVars, execVars, localVars, ran, killed>>

MainSignal ==
  /\ MainAt("signal")
  /\ Ping(target)
  /\ main' = "join"
  /\ UNCHANGED <<program, target, pushed, queue, pc, running, execVars, localVars, ran>>

MainJoin ==
  /\ MainAt("join")
  /\ At(target, "exited")
  /\ target' = IF target < SubCount THEN target + 1 ELSE target
  /\ main' = IF target < SubCount THEN "stop" ELSE "done"
  /\ UNCHANGED <<program, pushed, queue, pc, monitorVars, execVars, localVars, ran, killed>>

-----------------------------------------------------------------------------
MasterStep ==
  \/ BeatExchange \/ CleanScan \/ CleanCheck \/ CleanLoad \/ CleanCas \/ CleanLost
  \/ BeatScan \/ BeatInspect \/ BeatTake \/ BeatNothing \/ BeatMark \/ BeatPing

SubStep(s) ==
  \/ SubEnableLoad(s) \/ SubEnableCas(s) \/ SubEnableLost(s)
  \/ SubCall(s) \/ SubFinish(s)
  \/ SubDisableLoad(s) \/ SubDisableCas(s) \/ SubDisableLost(s) \/ SubReport(s)

MonitorStep(t) == BlockSignal(t) \/ WakeUp(t)

MainEnd == MainFilled \/ MainTest \/ MainDrain \/ MainStop \/ MainSignal \/ MainJoin

Next ==
  \/ MainPush \/ MainBeat \/ MainEnd
  \/ MasterStep
  \/ \E t \in Threads : MonitorStep(t)
  \/ \E s \in Subs : SubStep(s)

Spec == Init /\ [][Next]_vars

\* The threads run on and tasks end; main pushes all its tasks, beats until the
\* queue is empty and then destroys the executor.  It need not beat before that.
Fairness ==
  /\ WF_vars(MainPush)
  /\ WF_vars(MainEnd)
  /\ WF_vars(MasterStep)
  /\ \A t \in Threads : WF_vars(MonitorStep(t))
  /\ \A s \in Subs : WF_vars(SubStep(s))

FairSpec == Spec /\ Fairness

-----------------------------------------------------------------------------
(* Properties *)

MainStates == {"fill", "nap", "drain", "test", "stop", "signal", "join", "done"}
MonitorStates == {"born", "wait", "exited"}
MasterStates ==
  {"exchange", "clean_scan", "clean_check", "clean_load", "clean_cas",
   "scan", "inspect", "take", "mark", "ping"}
SubStates ==
  {"enable_load", "enable_cas", "call", "handler", "disable_load", "disable_cas", "report"}

\* Every variable has its type; in particular the master never looks at a sub
\* monitor that does not exist.
TypeOK ==
  /\ program \in Programs /\ main \in MainStates /\ target \in Threads
  /\ pushed \in 0 .. TaskCount /\ queue \in Seq(Tasks)
  /\ pc \in [Threads -> MonitorStates \union MasterStates \union SubStates]
  /\ pending \in [Threads -> BOOLEAN] /\ running \in [Threads -> BOOLEAN]
  /\ bitmap \subseteq Subs /\ failstry \in {0, 1}
  /\ taskdata \in [Subs -> Tasks \union {Nothing}]
  /\ finished \in [Subs -> BOOLEAN]
  /\ arg \in [Subs -> Tasks \union {Nothing}]
  /\ at \in 0 .. SubCount + 1
  /\ pc[Master] \in {"clean_check", "clean_load", "clean_cas", "inspect", "take", "mark", "ping"}
        => at \in Subs
  /\ tries \in [Threads -> 0 .. Tries - 1]
  /\ byteval \in [Threads -> SUBSET Subs]
  /\ ran \in [Tasks -> 0 .. 2]
  /\ killed \in BOOLEAN

\* The handler is never called before a task has been handed to its monitor:
\* it never sees the taskdata that malloc left there (line 104).
HandlerHasTask ==
  \A s \in Subs : pc[s] \in {"call", "handler"} => taskdata[s] # Nothing

\* The program sleeps where test3.c does: after each beat between pushes, and before
\* each beat after them.  It need not sleep before it destroys the executor.
Timed == {"nap", "drain"} \subseteq program.sleeps

\* With the sleeps of test3.c a task is processed once: a sub monitor is not pinged
\* again for a task it has already seen (line 90).
ProcessedOnce == Timed => \A k \in Tasks : ran[k] <= 1

\* A sub monitor has task k and will process it, or is doing so.
HandedOut(k) ==
  \E s \in Subs :
    \/ arg[s] = k
    \/ /\ taskdata[s] = k
       /\ ~finished[s] \/ (at = s /\ pc[Master] = "mark")

\* With the sleeps of test3.c a task that was pushed waits in the queue, is in the
\* hands of one sub monitor, or has been processed: the master never overwrites the
\* taskdata of a monitor that has not run it.
NoneOverwritten ==
  Timed => \A k \in 1 .. pushed : Contains(queue, k) \/ HandedOut(k) \/ ran[k] > 0

\* What the stress test of cli/src/linux/test.c checks at its end: once the executor
\* has been destroyed, every item that was pushed has been processed.
NoneLost == main = "done" => \A k \in 1 .. pushed : ran[k] > 0

\* What test3.c can still lose, which destroys the executor straight after its last
\* beat: no more tasks than there are sub monitors, each having one in its hands.
LossBounded ==
  Timed /\ main = "done" => Cardinality({k \in 1 .. pushed : ran[k] = 0}) <= SubCount

\* The stress test ends: the queue is emptied, and every join returns.
Finishes == <>(main = "done" \/ killed)
=============================================================================
