----------------------------- MODULE Dispatcher -----------------------------
(***************************************************************************)
(* The writer thread of server/src/common/dispatcher.c, on the signal lock *)
(* of routines/src/linux/routine.c, and the main thread of                 *)
(* cli/src/linux/main.c that starts it and destroys it.  The two share a   *)
(* word of flags; |= and &= on it are a load and a store, which the other  *)
(* thread may come between.  Only the writer takes the mutex: main changes *)
(* the word and signals the condition without it.                          *)
(*                                                                         *)
(* No code sets the flag ONDISPATCH, for mcmchDispatcherWriterNotify is    *)
(* empty.  Lines 91-99 of dispatcher.c, which serve the queue, are never   *)
(* reached and are left out.                                               *)
(***************************************************************************)
CONSTANT Spurious  \* whether a wait may end without a signal

ASSUME SpuriousAssumption == Spurious \in BOOLEAN

VARIABLES
  flags,       \* the flags that are set
  mutex,       \* "free", or "taken" by the writer
  main,        \* what main does next
  mainCopy,    \* the word main has loaded and not stored yet
  writer,      \* what the writer does next
  writerCopy   \* the word the writer has loaded and not stored yet

mainVars   == <<main, mainCopy>>
writerVars == <<writer, writerCopy, mutex>>
vars       == <<flags, mainVars, writerVars>>

Flags == {"STARTED", "CLOSURE", "WORKING", "ONDISPATCH"}

\* mcmchDispatcherCreateWriterInstance: the thread exists and has not run.
Init ==
  /\ flags = {} /\ mutex = "free"
  /\ main = "created" /\ mainCopy = {}
  /\ writer = "block_start" /\ writerCopy = {}

-----------------------------------------------------------------------------
(* The signal lock *)

Goto(state) == writer' = state

\* pthread_mutex_lock, and the same at the end of pthread_cond_wait.
LockBlock(from, to) ==
  /\ writer = from /\ mutex = "free"
  /\ mutex' = "taken"
  /\ Goto(to)
  /\ UNCHANGED <<flags, mainVars, writerCopy>>

LockRelease(from, to) ==
  /\ writer = from
  /\ mutex' = "free"
  /\ Goto(to)
  /\ UNCHANGED <<flags, mainVars, writerCopy>>

\* pthread_cond_wait gives the mutex back and sleeps in one step.
LockWait(from, asleep) == LockRelease(from, asleep)

Asleep == {"asleep_start", "asleep"}

Awoken == IF writer = "asleep_start" THEN "awake_start" ELSE "awake"

\* pthread_cond_signal wakes the writer if it is asleep, or does nothing.
SignalDispatch == Goto(IF writer \in Asleep THEN Awoken ELSE writer)

\* A wait may return although nobody has signalled, as routine.h says.
WakeSpuriously ==
  /\ Spurious
  /\ writer \in Asleep
  /\ Goto(Awoken)
  /\ UNCHANGED <<flags, mainVars, writerCopy, mutex>>

-----------------------------------------------------------------------------
(* mcmchDispatcherWriterRuntineHandler *)

BlockStart == LockBlock("block_start", "check_started")

CheckStarted ==
  /\ writer = "check_started"
  /\ Goto(IF "STARTED" \in flags THEN "release_start" ELSE "wait_start")
  /\ UNCHANGED <<flags, mainVars, writerCopy, mutex>>

WaitStart == LockWait("wait_start", "asleep_start")

WakeStart == LockBlock("awake_start", "test_start")

\* Mutant: the closure is not looked for before the start.
BadTestStart ==
  /\ writer = "test_start"
  /\ Goto("check_started")
  /\ UNCHANGED <<flags, mainVars, writerCopy, mutex>>

TestStart ==
  /\ writer = "test_start"
  /\ Goto(IF "CLOSURE" \in flags THEN "release_end" ELSE "check_started")
  /\ UNCHANGED <<flags, mainVars, writerCopy, mutex>>

ReleaseStart == LockRelease("release_start", "loop")

Loop ==
  /\ writer = "loop"
  /\ Goto(IF "CLOSURE" \in flags THEN "exited" ELSE "block")
  /\ UNCHANGED <<flags, mainVars, writerCopy, mutex>>

Block == LockBlock("block", "clear_load")

ClearLoad ==
  /\ writer = "clear_load"
  /\ writerCopy' = flags
  /\ Goto("clear_store")
  /\ UNCHANGED <<flags, mainVars, mutex>>

\* Mutant: the other flags are cleared too.
BadClearStore ==
  /\ writer = "clear_store"
  /\ flags' = {}
  /\ writerCopy' = {}
  /\ Goto("check_dispatch")
  /\ UNCHANGED <<mainVars, mutex>>

ClearStore ==
  /\ writer = "clear_store"
  /\ flags' = writerCopy \ {"WORKING"}
  /\ writerCopy' = {}
  /\ Goto("check_dispatch")
  /\ UNCHANGED <<mainVars, mutex>>

CheckDispatch ==
  /\ writer = "check_dispatch"
  /\ "ONDISPATCH" \notin flags
  /\ Goto("wait")
  /\ UNCHANGED <<flags, mainVars, writerCopy, mutex>>

Wait == LockWait("wait", "asleep")

Wake == LockBlock("awake", "test")

\* Mutant: the writer ends without giving the mutex back.
BadTest ==
  /\ writer = "test"
  /\ Goto(IF "CLOSURE" \in flags THEN "exited" ELSE "release")
  /\ UNCHANGED <<flags, mainVars, writerCopy, mutex>>

Test ==
  /\ writer = "test"
  /\ Goto(IF "CLOSURE" \in flags THEN "release_end" ELSE "release")
  /\ UNCHANGED <<flags, mainVars, writerCopy, mutex>>

Release == LockRelease("release", "loop")

ReleaseEnd == LockRelease("release_end", "exited")

WriterStep ==
  \/ BlockStart \/ CheckStarted \/ WaitStart \/ WakeStart \/ TestStart \/ ReleaseStart
  \/ Loop \/ Block \/ ClearLoad \/ ClearStore \/ CheckDispatch
  \/ Wait \/ Wake \/ Test \/ Release \/ ReleaseEnd

-----------------------------------------------------------------------------
(* run_server *)

\* main sets a flag: load and store.
SetFlagLoad(from, to) ==
  /\ main = from
  /\ mainCopy' = flags
  /\ main' = to
  /\ UNCHANGED <<flags, writerVars>>

SetFlagStore(from, flag, to) ==
  /\ main = from
  /\ flags' = mainCopy \union {flag}
  /\ mainCopy' = {}
  /\ main' = to
  /\ UNCHANGED writerVars

Signal(from, to) ==
  /\ main = from
  /\ main' = to
  /\ SignalDispatch
  /\ UNCHANGED <<flags, mainCopy, writerCopy, mutex>>

\* Line 78 of main.c: when sigprocmask fails the writer is destroyed at once.
MaskFails ==
  /\ main = "created"
  /\ main' = "close"
  /\ UNCHANGED <<flags, mainCopy, writerVars>>

StartLoad   == SetFlagLoad("created", "start_store")
StartStore  == SetFlagStore("start_store", "STARTED", "start_signal")
StartSignal == Signal("start_signal", "serve")

\* The server stops: SIGINT, SIGTERM, or an error of epoll_wait.
ServerStops ==
  /\ main = "serve"
  /\ main' = "close"
  /\ UNCHANGED <<flags, mainCopy, writerVars>>

CloseLoad   == SetFlagLoad("close", "close_store")
CloseStore  == SetFlagStore("close_store", "CLOSURE", "close_signal")
CloseSignal == Signal("close_signal", "join")

Join ==
  /\ main = "join"
  /\ writer = "exited"
  /\ main' = "done"
  /\ UNCHANGED <<flags, mainCopy, writerVars>>

Start   == StartLoad \/ StartStore \/ StartSignal
Destroy == CloseLoad \/ CloseStore \/ CloseSignal \/ Join

-----------------------------------------------------------------------------
Next ==
  \/ WriterStep \/ WakeSpuriously
  \/ MaskFails \/ Start \/ ServerStops \/ Destroy

Spec == Init /\ [][Next]_vars

\* Both threads run on; the server need never stop.
Fairness == WF_vars(WriterStep) /\ WF_vars(Start) /\ WF_vars(Destroy)

FairSpec == Spec /\ Fairness

-----------------------------------------------------------------------------
(* Properties *)

WriterStates ==
  {"block_start", "check_started", "wait_start", "asleep_start", "awake_start",
   "test_start", "release_start", "loop", "block", "clear_load", "clear_store",
   "check_dispatch", "wait", "asleep", "awake", "test", "release", "release_end",
   "exited"}

MainStates ==
  {"created", "start_store", "start_signal", "serve", "close", "close_store",
   "close_signal", "join", "done"}

\* Every variable has its type.
TypeOK ==
  /\ flags \subseteq Flags /\ mainCopy \subseteq Flags /\ writerCopy \subseteq Flags
  /\ mutex \in {"free", "taken"}
  /\ main \in MainStates /\ writer \in WriterStates

\* However the writer ends, it has given the mutex back, so that main may
\* destroy the lock (line 49 of dispatcher.c).
ExitReleases == writer = "exited" => mutex = "free"

\* The flag STARTED, once set, stays set, although both threads store the whole
\* word from copies they have loaded before.
StartStays == [][ "STARTED" \in flags => "STARTED" \in flags' ]_vars

\* The writer will look at the flags before it sleeps again.
WillLook ==
  {"awake_start", "test_start", "release_start", "loop", "awake", "test", "release",
   "release_end"}

\* Destroy reaches a writer that is asleep when it signals, or that will look
\* at the flags again: the writer ends, and join returns.
ClosureReaches ==
  (/\ "CLOSURE" \in flags
   /\ \/ main = "close_signal" /\ writer \in Asleep \union WillLook
      \/ main = "join" /\ writer \in WillLook) ~> main = "done"

\* mcmchDispatcherDestroyWriterInstance returns: "Fechando o processo, limpando
\* os dados" (main.c, line 106).
DestroyReturns == main = "close" ~> main = "done"

-----------------------------------------------------------------------------
(* The two safety properties are inductive together with where the mutex is  *)
(* held and what the copies of the word hold.                                *)

Holding ==
  {"check_started", "wait_start", "test_start", "release_start", "clear_load",
   "clear_store", "check_dispatch", "wait", "test", "release", "release_end"}

\* The writer may not have seen STARTED.
NotStarted ==
  {"block_start", "check_started", "wait_start", "asleep_start", "awake_start",
   "test_start", "release_end", "exited"}

DispatcherInv ==
  /\ TypeOK
  /\ mutex = "taken" <=> writer \in Holding
  /\ writer \notin NotStarted => "STARTED" \in flags
  /\ writer = "clear_store" => "STARTED" \in writerCopy
  /\ main = "close_store" /\ "STARTED" \in flags => "STARTED" \in mainCopy
=============================================================================
