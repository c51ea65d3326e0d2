------------------------------ MODULE Routines ------------------------------
(***************************************************************************)
(* The execution pool of routines/src/{common,linux}/pool.c and the        *)
(* routines its threads may run: the signal routine of linux/routine.c,    *)
(* and the two consumers of common/consumer.c, the one that waits for      *)
(* SIGUSR1 and the one that waits on a signal lock.  Every thread of the   *)
(* pool runs the same routine, so that all of them share its running flag  *)
(* and its lock.  Main is the program kept in comments at the end of       *)
(* cli/src/linux/test3.c: link and start the pool, push and dispatch,      *)
(* clear running, destroy the pool.                                        *)
(*                                                                         *)
(* One action is one access to shared state.  SIGUSR1 is pending or not; a *)
(* thread that has not blocked it yet takes the process with it.  A timed  *)
(* wait fails with a timeout only: the deadline is always a valid time     *)
(* (lines 34-39 of routine.c), so that the ERROR branch is not reached.    *)
(***************************************************************************)
EXTENDS Integers, FiniteSets

CONSTANTS
  Length,   \* threads of the pool
  Kinds,    \* the routines that may be linked to it
  MaxPush   \* bound on the values main pushes

ASSUME LengthAssumption == Length \in Nat \ {0}
ASSUME KindsAssumption  == Kinds \subseteq {"signal", "consumer", "locked"}
ASSUME PushAssumption   == MaxPush \in Nat

Slots == 0 .. Length - 1
NoOne == -1

VARIABLES
  kind,      \* the routine that was linked
  running,   \* routine->running
  enabled,   \* the bitmap of the pool: slots that may run
  pending,   \* slots with a SIGUSR1 they have not taken yet
  pc,        \* where each thread of the pool is
  mutex,     \* the owner of lock->mutex, or NoOne
  asleep,    \* threads in the queue of lock->cond
  queue,     \* values pushed and not taken, for the key of a consumer
  pushed,    \* values pushed so far
  taken,     \* threads with a value they have not handled
  main, at,  \* where main is, and the slot its loop has reached
  alive      \* 0 when a signal has ended the process

lockVars == <<mutex, asleep>>
dataVars == <<queue, pushed, taken>>
mainVars == <<main, at>>
poolVars == <<kind, running, enabled, pending, alive>>
vars     == <<poolVars, pc, lockVars, dataVars, mainVars>>

\* mcmchSignalRoutineCreate or mcmchConsumerRoutineCreate, and its lock.
RoutineCreate   == kind \in Kinds /\ running = 1
LockInitilize   == mutex = NoOne /\ asleep = {}
PoolCreate      == enabled = {} /\ pending = {} /\ alive = 1
PoolLink        == pc = [t \in Slots |-> "born"]

Init ==
  /\ RoutineCreate /\ LockInitilize /\ PoolCreate /\ PoolLink
  /\ queue = 0 /\ pushed = 0 /\ taken = {}
  /\ main = "enable" /\ at = 0

Goto(t, place) == pc' = [pc EXCEPT ![t] = place]

\* sigwait: take the pending signal, or stay where one is.
SigWait(t, place) ==
  /\ t \in pending
  /\ pending' = pending \ {t}
  /\ Goto(t, place)
  /\ UNCHANGED <<kind, running, enabled, alive, lockVars, dataVars, mainVars>>

\* A step that reads shared state and changes nothing but the thread's place.
Look(t, place) == Goto(t, place) /\ UNCHANGED <<poolVars, lockVars, dataVars, mainVars>>

-----------------------------------------------------------------------------
(* __mcmch__priv_pool_routine_entry, around the routine *)

BlockSignal(t) == pc[t] = "born" /\ Look(t, "gate")

Gate(t) ==
  /\ pc[t] = "gate"
  /\ Look(t, IF t \in enabled THEN "loop" ELSE "gatewait")

GateWait(t) == pc[t] = "gatewait" /\ SigWait(t, "gate")

Leave(t) ==
  /\ pc[t] = "leave"
  /\ Look(t, IF t \in enabled THEN "leavewait" ELSE "done")

LeaveWait(t) == pc[t] = "leavewait" /\ SigWait(t, "leave")

-----------------------------------------------------------------------------
(* The signal lock *)

LockBlock(t, place) ==
  /\ mutex = NoOne
  /\ mutex' = t
  /\ Goto(t, place)
  /\ UNCHANGED <<poolVars, asleep, dataVars, mainVars>>

LockRelease(t, place) ==
  /\ mutex' = NoOne
  /\ Goto(t, place)
  /\ UNCHANGED <<poolVars, asleep, dataVars, mainVars>>

\* The wait gives the mutex back and goes to sleep at once.
LockTimedWait(t) ==
  /\ pc[t] = "wait"
  /\ mutex' = NoOne
  /\ asleep' = asleep \union {t}
  /\ Goto(t, "asleep")
  /\ UNCHANGED <<poolVars, dataVars, mainVars>>

\* The sleeper leaves the queue of the condition, and then needs the mutex.
Rise(t, place) ==
  /\ t \in asleep
  /\ asleep' = asleep \ {t}
  /\ Goto(t, place)
  /\ UNCHANGED <<poolVars, mutex, dataVars>>

Timeout(t) == Rise(t, "timedout") /\ UNCHANGED mainVars

WakeSpuriously(t) == Rise(t, "woken") /\ UNCHANGED mainVars

Reacquire(t) ==
  \/ pc[t] = "woken" /\ LockBlock(t, "awake")
  \/ pc[t] = "timedout" /\ LockBlock(t, "expired")

-----------------------------------------------------------------------------
(* The routines *)

\* The test of running at the head of each of the three loops.
Loop(t) ==
  /\ pc[t] = "loop"
  /\ Look(t, CASE running = 0 -> "leave"
               [] running = 1 /\ kind = "consumer" -> "key"
               [] OTHER -> "block")

Block(t) == pc[t] = "block" /\ LockBlock(t, IF kind = "signal" THEN "wait" ELSE "key")

\* Mutant: a wait that has timed out is begun again without looking at running.
BadTestExpired(t) ==
  /\ pc[t] = "expired"
  /\ Look(t, IF kind = "signal" THEN "wait" ELSE "key")

\* Mutant: after a timeout the consumer with a lock does not look for a value.
WaitsBlindly(t) ==
  /\ pc[t] = "expired"
  /\ Look(t, CASE running = 0 /\ kind = "signal" -> "shutdown"
               [] running = 0 /\ kind # "signal" -> "test"
               [] OTHER -> "wait")

\* The wait has timed out: end, or look for a value (locked consumer) and wait.
TestExpired(t) ==
  /\ pc[t] = "expired"
  /\ Look(t, CASE running = 0 /\ kind = "signal" -> "shutdown"
               [] running = 0 /\ kind # "signal" -> "test"
               [] running = 1 /\ kind = "signal" -> "wait"
               [] OTHER -> "key")

\* The wait has returned MCMPST_SUCCESS, or the locked consumer has a value.
TestRunning(t) ==
  /\ pc[t] \in {"awake", "test"}
  /\ Look(t, CASE running = 0 -> "shutdown"
               [] running = 1 /\ kind = "signal" -> "continue"
               [] OTHER -> "retake")

\* The handler of a signal routine releases the lock itself when it is to
\* continue, as mcmchHeartbeatRuntineHandler does.
Continue(t) == pc[t] = "continue" /\ LockRelease(t, "loop")

\* Mutant: the routine ends with the lock.
BadShutdown(t) == pc[t] = "shutdown" /\ Look(t, "leave")

\* The handler is told to shut down (signal routine), and the routine releases
\* the lock and ends.
Shutdown(t) == pc[t] = "shutdown" /\ LockRelease(t, "leave")

\* The consumers without a lock call the key side by side.  Overlapping takes of
\* the set queue may return one value twice or skip some (setqueue.c line 120):
\* all that is known is that nothing comes before the first push.
TakeOverlapping(t) ==
  /\ kind = "consumer" /\ pushed > 0
  /\ queue' \in 0 .. queue
  /\ taken' \in {taken, taken \union {t}}

\* consumer->key, mcmchSetQueueTake of a queue the threads share, takes a value
\* if there is one; the consumers with a lock call it one at a time.
TakeKey(t) ==
  \/ queue > 0 /\ queue' = queue - 1 /\ taken' = taken \union {t}
  \/ queue = 0 /\ UNCHANGED <<queue, taken>>
  \/ TakeOverlapping(t)

\* Line 56, and lines 21 and 34 of the consumer with a lock.
Key(t) ==
  /\ pc[t] = "key"
  /\ TakeKey(t)
  /\ Goto(t, CASE kind = "consumer" -> "signalwait"
               [] kind # "consumer" /\ t \in taken' -> "test"
               [] OTHER -> "wait")
  /\ UNCHANGED <<poolVars, pushed, lockVars, mainVars>>

\* Mutant: the status of the key is not looked at.
BadSignalWait(t) == pc[t] = "signalwait" /\ SigWait(t, "handle")

\* mcmchPoolWaitSignal, also for a thread that has got its value.
SignalWait(t) ==
  /\ pc[t] = "signalwait"
  /\ SigWait(t, IF t \in taken THEN "handle" ELSE "key")

\* Mutant: the key is called again without a look at what it has returned.
BadRetake(t) ==
  /\ pc[t] = "retake"
  /\ TakeKey(t)
  /\ Goto(t, "release")
  /\ UNCHANGED <<poolVars, pushed, lockVars, mainVars>>

\* Lines 39-41: after a signal the locked consumer looks once more.
Retake(t) ==
  /\ pc[t] = "retake"
  /\ IF t \in taken THEN UNCHANGED <<queue, taken>> ELSE TakeKey(t)
  /\ Goto(t, "release")
  /\ UNCHANGED <<poolVars, pushed, lockVars, mainVars>>

Release(t) ==
  /\ pc[t] = "release"
  /\ LockRelease(t, IF t \in taken THEN "handle" ELSE "loop")

Handle(t) ==
  /\ pc[t] = "handle"
  /\ taken' = taken \ {t}
  /\ Goto(t, "loop")
  /\ UNCHANGED <<poolVars, queue, pushed, lockVars, mainVars>>

Step(t) ==
  \/ BlockSignal(t) \/ Gate(t) \/ GateWait(t) \/ Leave(t) \/ LeaveWait(t)
  \/ LockTimedWait(t) \/ Timeout(t) \/ Reacquire(t)
  \/ Loop(t) \/ Block(t) \/ TestExpired(t) \/ TestRunning(t)
  \/ Continue(t) \/ Shutdown(t)
  \/ Key(t) \/ SignalWait(t) \/ Retake(t) \/ Release(t) \/ Handle(t)

-----------------------------------------------------------------------------
(* Main *)

MainAt(place, slot) == main' = place /\ at' = slot

\* pthread_kill with SIGUSR1: fatal for a thread that has not blocked it.
Kill(t) ==
  /\ pending' = IF pc[t] \in {"born", "done"} THEN pending ELSE pending \union {t}
  /\ alive' = IF pc[t] = "born" THEN 0 ELSE 1

StartEnable ==
  /\ main = "enable"
  /\ enabled' = enabled \union {at}
  /\ MainAt("startkill", at)
  /\ UNCHANGED <<kind, running, pending, alive, pc, lockVars, dataVars>>

\* Mutant: the loop starts one thread too many.
BadStartKill ==
  /\ main = "startkill"
  /\ Kill(at)
  /\ IF at < Length THEN MainAt("enable", at + 1) ELSE MainAt("serve", 0)
  /\ UNCHANGED <<kind, running, enabled, pc, lockVars, dataVars>>

StartKill ==
  /\ main = "startkill"
  /\ Kill(at)
  /\ IF at + 1 < Length THEN MainAt("enable", at + 1) ELSE MainAt("serve", 0)
  /\ UNCHANGED <<kind, running, enabled, pc, lockVars, dataVars>>

Push ==
  /\ main = "serve" /\ pushed < MaxPush /\ kind # "signal"
  /\ queue' = queue + 1 /\ pushed' = pushed + 1
  /\ UNCHANGED <<poolVars, pc, lockVars, taken, mainVars>>

\* pthread_cond_signal wakes one sleeper; with none it is lost.
SignalDispatch ==
  /\ main = "serve"
  /\ \E t \in asleep : Rise(t, "woken")
  /\ UNCHANGED mainVars

SignalAllDispatch ==
  /\ main = "serve"
  /\ asleep # {}
  /\ pc' = [t \in Slots |-> IF t \in asleep THEN "woken" ELSE pc[t]]
  /\ asleep' = {}
  /\ UNCHANGED <<poolVars, mutex, dataVars, mainVars>>

\* mcmchSignalRoutineInterrompt, or routine.running = 0: no signal is sent.
Interrompt ==
  /\ main = "serve"
  /\ running' = 0
  /\ MainAt("disable", 0)
  /\ UNCHANGED <<kind, enabled, pending, alive, pc, lockVars, dataVars>>

DestroyDisable ==
  /\ main = "disable"
  /\ enabled' = enabled \ {at}
  /\ MainAt("destroykill", at)
  /\ UNCHANGED <<kind, running, pending, alive, pc, lockVars, dataVars>>

DestroyKill ==
  /\ main = "destroykill"
  /\ Kill(at)
  /\ MainAt("join", at)
  /\ UNCHANGED <<kind, running, enabled, pc, lockVars, dataVars>>

Join ==
  /\ main = "join"
  /\ pc[at] = "done"
  /\ IF at + 1 < Length THEN MainAt("disable", at + 1) ELSE MainAt("end", 0)
  /\ UNCHANGED <<poolVars, pc, lockVars, dataVars>>

MainStep == StartEnable \/ StartKill \/ DestroyDisable \/ DestroyKill \/ Join

Next ==
  /\ alive = 1
  /\ \/ MainStep \/ Push \/ SignalDispatch \/ SignalAllDispatch \/ Interrompt
     \/ \E t \in Slots : Step(t) \/ WakeSpuriously(t)

Spec == Init /\ [][Next]_vars

\* Threads run on and time passes; main need not push, dispatch or stop.
FairSpec ==
  /\ Spec
  /\ WF_vars(alive = 1 /\ MainStep)
  /\ \A t \in Slots : WF_vars(alive = 1 /\ Step(t))

-----------------------------------------------------------------------------
(* Properties *)

\* The places where a thread has the mutex.
Holding == {"wait", "awake", "expired", "continue", "shutdown", "test", "retake", "release"}

HoldsLock(t) == pc[t] \in Holding \/ (pc[t] = "key" /\ kind = "locked")

\* Every variable has its type.
TypeOK ==
  /\ kind \in Kinds /\ running \in {0, 1} /\ alive \in {0, 1}
  /\ enabled \subseteq Slots /\ pending \subseteq Slots
  /\ pc \in [Slots -> Holding \union
       {"born", "gate", "gatewait", "loop", "block", "asleep", "woken", "timedout",
        "key", "signalwait", "handle", "leave", "leavewait", "done"}]
  /\ mutex \in Slots \union {NoOne} /\ asleep \subseteq Slots
  /\ queue \in Nat /\ pushed \in Nat /\ taken \subseteq Slots
  /\ main \in {"enable", "startkill", "serve", "disable", "destroykill", "join", "end"}
  /\ at \in Slots

\* Whichever way a routine is left (interrupted while it waits, while it sleeps
\* without a signal, between two beats), its threads have given the lock back,
\* and nobody but the owner believes to hold it: routine.c lines 23-46 and
\* consumer.c lines 20-42 release on every path, or leave it to the handler.
LockBalanced == \A t \in Slots : mutex = t <=> HoldsLock(t)

\* A thread calls its handler only when its last key has reported a value and it
\* has called no handler since, and it does not call the key again while it has a
\* value, whatever signals it takes in between (consumer.c lines 21-44 and 55-59).
\* That the value is nobody else's is the key's affair, not the consumer's.
HandlerHasValue ==
  \A t \in Slots :
    /\ pc[t] = "handle" => t \in taken
    /\ t \in taken => pc[t] \in {"signalwait", "test", "retake", "release", "handle",
                                 "shutdown", "leave", "leavewait", "done"}

\* With the lock no value is lost on the way to its handler: the values in the
\* queue and in the hands of threads become fewer only when a handler is called,
\* by one each.  No key is called over a value that was just taken, although a
\* signal, a timeout and the test of running lie in between (consumer.c lines
\* 21-44).  A thread that is stopped keeps its value and handles it no more.
Values == queue + Cardinality(taken)

ValuesKept ==
  [][kind = "locked" =>
       \/ Values' >= Values
       \/ Values' = Values - 1 /\ \E t \in Slots : pc[t] = "handle" /\ pc'[t] = "loop"]_vars

\* Once running is cleared and every thread has been let in, destroying the pool
\* ends, although no signal is sent to the lock and a SIGUSR1 may be merged with
\* an older one: the timed wait looks at running again, and the bit is cleared
\* before the signal is sent (pool.c lines 74-77).  It does not end for a thread
\* that finds its bit cleared before it ever saw it set, nor for the consumer
\* that waits for SIGUSR1 (see the README).
PoolDestroyReturns ==
  kind # "consumer" =>
    ((running = 0 /\ \A t \in Slots : pc[t] \notin {"born", "gate", "gatewait"})
       ~> (main = "end" \/ alive = 0))

\* A value that was pushed is taken as long as the pool runs, also when the
\* dispatch that followed it found nobody asleep: after a timeout the consumer
\* with a lock asks for a value again (consumer.c line 34).
ValuesAreTaken ==
  kind = "locked" => ((queue > 0) ~> (queue = 0 \/ running = 0 \/ alive = 0))

-----------------------------------------------------------------------------
(* LockBalanced and HandlerHasValue are inductive together with what the     *)
(* linked routine makes impossible                                           *)

\* Only a thread that waits is in the queue of the condition.
SleepersWait == \A t \in asleep : pc[t] = "asleep"

\* The consumer that waits for SIGUSR1 never touches the lock, the one with a
\* lock never waits for SIGUSR1, and the signal routine takes no values.
KindsApart ==
  /\ kind = "consumer" =>
       \A t \in Slots : pc[t] \notin Holding \union {"block", "asleep", "woken", "timedout"}
  /\ kind # "consumer" => \A t \in Slots : pc[t] # "signalwait"
  /\ kind = "signal" => queue = 0 /\ taken = {} /\ \A t \in Slots : pc[t] # "key"

RoutinesInv == TypeOK /\ LockBalanced /\ HandlerHasValue /\ SleepersWait /\ KindsApart
=============================================================================
