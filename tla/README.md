# mcmp: TLA+ models, checks and proofs

mcmp (also `monarch`/`mcmch` in its older parts) is a message broker in C. Its build
(`src/meson.build`) compiles the status codes and the `utilities` library; `routines`,
`server` and `cli` are built on that library and are still under construction. The heart of
the program is therefore a set of small lock-free containers and the threads that share
them. This directory models them, checks the models with TLC and proves the central facts
with TLAPS.

All paths below are relative to the repository (`src/` in PROJECT.json).

## 1. Inventory

| component | state | operations | interacts with | what is hard | correctness |
|---|---|---|---|---|---|
| set queue `utilities/src/common/setqueue.c` | ring `items`, `head`, `tail`, a bitmap of queued values, a bitmap of ready slots | Create, Push, Take, Destroy | main pushes and the worker's master takes; the dispatcher takes | every call is a chain of separate atomic accesses with retry loops; three structures must agree | FIFO, no value twice, none lost, statuses truthful, full and empty exact |
| chunked queue `utilities/src/common/chunkedqueue.c` | per chunk: ring, `head`, `tail` | Create, Push, Take, Destroy | `cli/src/linux/test.c` | slot published before it is written | each chunk a bounded FIFO queue |
| atomic bitmap `utilities/src/common/atomicbitmap.c` | bytes changed by compare-and-swap | NextAvaibleBit, NextOccupiedBit, TryEnableBit, TryDisableBit | worker, lock registry | scans in loads of 8, 4, 2 and 1 bytes while bits change | scan misses nothing that stays, a bit has one owner |
| bitmap `utilities/src/common/bitmap.c` | bytes | NextAvaibleBit, NextOccupiedBit, EnableBit, DisableBit, CleanOrder | clients, monitor table, pool | first byte mask, chunk lengths, bits changed during a walk | scan result = first wanted bit |
| worker executor `routines/src/linux/worker.c` | bitmap of busy sub monitors, `failstry`, `taskdata` and `finished` of each | Create, Start, Beat, Destroy; beat handlers of master and subs | set queue, atomic bitmap, monitors, main | shared fields without locks, bounded retries, repeated pings | each task processed once, none lost, shutdown ends |
| monitor `routines/src/linux/monitor.c` | thread, `running`, static table of 512 monitors with a bitmap of 64 bytes | Create, Start, Ping, Destroy; monitor lock | worker, heartbeat, broadcast | SIGUSR1 merges, thread may not have blocked it yet, join | beats happen after pings, destroy returns |
| lock registry `routines/src/linux/lock.c` | table of mutexes, bitmap | Create, Acquire, Release, Destroy | atomic bitmap, bitmap | a scan and a claim with retries; destroy clears a bit with a plain load and store | a lock has one owner, one thread inside; Create fails for a reason |
| signal lock, signal routine `routines/src/linux/routine.c` | mutex, condition variable, `running` | Block, Wait, TimedWait, Release, Dispatch, Interrompt | dispatcher, consumer, pool | dispatches that find nobody asleep, four ways out of the loop | lock balanced, an interrupted routine ends |
| consumer `routines/src/common/consumer.c` | `running`, the value just taken | loop of key and handler, waiting for SIGUSR1 or on a signal lock | signal lock, pool | value taken before or after the wait | a handler has a value, no value stays behind |
| execution pool `routines/src/{common,linux}/pool.c` | bitmap of slots that may run, threads | Create, Link, Start, WaitSignal, Destroy | all routines | SIGUSR1 merges, gate at entry and exit | destroy returns |
| dispatcher, heartbeat `server/src/common` | flag words, queue, thread | Create, Start, Dispatch, Stop, Beat | set queue, signal lock, monitor | two threads update one word | stop is seen, join returns |
| broadcast, clients `server/src` | table of clients and a bitmap | Add, Del, Flush, search by descriptor | bitmap, epoll | bits beyond the last slot, walking while clearing, stale contents of a freed slot | a client in one slot, found while it is there, refused only when full; flush closes all |
| server, protocol, main loop | socket, epoll | accept, read, dispatch by code | all of the above | mostly I/O | a request reaches its handler |
| environment, log, time, status | last status of a thread | libc wrappers | all | none | - |

`PROJECT.json` lists the same components with their status, and under `hazards` the places
where each of them can go wrong in a way a unit test hardly reaches.

## 2. Modules

| module | models | checked by | proofs |
|---|---|---|---|
| `SetQueue` | `setqueue.c`, one action per atomic access | `MCSetQueue` | `SetQueueProofs` |
| `FifoSet` | what the set queue promises | refined by `SetQueue` | `SetQueueProofs` |
| `ChunkedQueue` | `chunkedqueue.c`, one action per atomic access | `MCChunkedQueue` | `ChunkedQueueProofs` |
| `FifoChunks` | what the chunked queue promises | refined by `ChunkedQueue` | `ChunkedQueueProofs` |
| `AtomicBitmap` | `atomicbitmap.c`, one action per atomic access | `MCLockRegistry` | `AtomicBitmapProofs` |
| `LockRegistry` | `lock.c` over `AtomicBitmap` | `MCLockRegistry` | `LockRegistryProofs` |
| `Bitmap` | `bitmap.c`, and the flush loop of `server/src/common/clients.c` | `MCTables` | `TablesProofs` |
| `Tables` | the tables of `clients.c`, `broadcast.c` and `monitor.c` over `Bitmap` | `MCTables` | `TablesProofs` |
| `Routines` | the pool, the signal routine, both consumers, the signal lock with its timed wait, the main of `test3.c` (in comments there) | itself, `routines.cfg` | `RoutinesProofs` |
| `Worker` | `worker.c`, the threads of `monitor.c`, the main thread of the stress tests | `MCWorker` | `WorkerProofs` |
| `Dispatcher` | `dispatcher.c`, the signal lock of `routine.c`, what `run_server` does with them | itself, `dispatcher.cfg` | `DispatcherProofs` |

Conventions. Bitmaps are sets of bit numbers. `pc` holds the access a thread makes next; what
a thread computes between two accesses belongs to the first of them. A status returned with
`MCMPST_RETURN` is recorded in `ret`, and the call's locals are reset, which keeps the number
of states down. Memory is sequentially consistent: the code uses acquire and release
orders, and in every module the accesses that matter go through the same words.
Definitions named `Bad...`, `NeverFull`, `FullTooEarly`, `WaitsBlindly` and `EarlyBroadcastAdd` are
deliberate faults, unused in the specifications: each shows that a property would notice such a fault.
`LockRegistry` and `Tables` use the module of their bitmap in two ways, chosen in the initial
state by `usage`: `direct` is the bitmap under callers that call its functions freely, the other usages are the
components of the program. One run answers for the bitmap and for what is built on it.

**SetQueue.** `Push` is: range test and load of the value word (`PushOutOfRange`,
`PushPresent`, `PushLoadSet`), its compare-and-swap (`PushCasSet`, `PushSetLost`: a lost race
returns RETRYOP), loads of `tail` and `head`, the ready bit when the ring looks full
(`PushCheckReady`), giving the value bit back (`PushUndo`) or claiming the slot
(`PushCasHead`, `PushHeadLost`), storing the item, and the ready bit. `Take` is the
loads of `tail`, `head` and ready, the claim of the slot, reading the item, clearing the value
bit, clearing the ready bit. The inner loops at lines 86, 131 and 141 only repeat one
word's compare-and-swap and are one atomic update each.

**ChunkedQueue.** The same shape without bitmaps; a slot never written holds `Uninit`, which is
what malloc left there. `ApartSpec` is the queue with callers that keep their calls apart: no two calls on one chunk are
under way at the same time (`CallsApart`), calls on different chunks may interleave.

**AtomicBitmap.** A scan loads chunks of 8, 4, 2 or 1 bytes, `Stride` picks the length as the
loops do. The history variables `always` (the bits that have looked the way a scan wants them since it
began) and `own` (what a setter has enabled) are there for the properties only. `TryEnable` and `TryDisable` are a load and a compare-and-swap
of the byte. The memory after the bitmap holds bits too (`Beyond`, any set of them): a chunk that reached past the end would see
them and return a bit that is not there.

**LockRegistry.** `Create` is `CreateCall`, the loads of a scan (`CreateScan`), the accesses of the claim (`CreateTry`, with
`Retry` until `Tries` claims have failed) and `pthread_mutex_init` (`CreateInit`); every access to the bitmap is an
action of `AtomicBitmap`. A registry of the caller's own and a lock outside the table are refused (`CreateElsewhere`, `DestroyElsewhere`). `Destroy` passes `0 - i` to the plain `DisableBit` (line 61 subtracts the lock from the table
instead of the table from the lock): for the locks of the first byte it loads and stores byte 0, and the shift by a
negative count leaves the byte as it was loaded except for lock 0 (32-bit shifts of x86: the count is taken
modulo 32 and the mask falls outside the byte); for the others it touches memory before the bitmap,
which the model leaves alone. `stale` records that such a store has put back a byte that another thread had changed
since the load, `others` how many changes a `Create` has had to live with.

**Bitmap.** The scans are functions of the bitmap and of the memory after it (`Beyond`), compared with the first wanted
bit of the bitmap (`ScansExact`); a chunk loop that runs past the end would stop at a bit of that memory. Enable, Disable
and Clean are actions. The flush loop of `clients.c` walks over the bitmap and clears it.

**Tables.** Add scans for a free bit, writes the entry, enables the bit. `BroadcastAdd` and `MonitorCreate` test the slot against
the table's length, `ClientsAdd` tests for -1 only and is used with a length that fills its bytes, as in
`cli/src/linux/main.c`. `ClientsDel`, `MonitorDestroy` and the flush free a slot and leave its contents, so `GetBitIndex`
may meet an old descriptor; `ClientsDelMisaligned` refuses a pointer between two slots. `BroadcastDel` frees nothing (finding 4), so
`RefusedWhenFull` counts a client that was deleted from the broadcast among those that hold a slot. One thread uses each table.

**Worker.** Thread 0 is the master monitor, the others are sub monitors. A ping makes SIGUSR1
pending; pending signals merge; a thread that has not blocked the signal yet dies with the
process (`killed`). The master's beat is: exchange of `failstry`, cleanup of zombies, and the loop
that takes tasks, marks monitors and pings them. A sub monitor's beat is: TryEnable at most
`Tries` times, the handler, `finished`, TryDisable at most `Tries` times, report. Main is one of the stress tests (`program`: how many
tasks it pushes and where it sleeps, section 3): it pushes tasks and beats between the pushes (`fill`, `nap`), beats while the queue is not
empty (`test`, `drain`), and destroys. The queue is the FIFO
set: main is its only pusher and the master its only taker, the situation for which
`SetQueue` is proved to implement it. The bitmap has any number of bytes, of `ByteBits` bits each: a compare-and-swap is disturbed by
the monitors of its own byte, and a scan loads one byte after the other.
Neither the bitmap nor `failstry` is initialised by `mcmchWorkerCreate`, so `Memory` says what
malloc left there.

**Routines.** The threads of a pool run one routine, `kind`: `signal` (`mcmchSignalRoutineHandler`), `consumer`
(waits for SIGUSR1, the one `mcmchConsumerRoutineCreate` installs) or `locked` (waits on a signal lock). `pc` is the next
access; `wait`, `asleep`, `woken`/`timedout`, `awake`/`expired` are the stages of a timed wait, which
gives the mutex back when it falls asleep and needs it again before it returns. SIGUSR1 is pending or not, and ends the
process (`alive = 0`) when the thread has not blocked it yet. The values of a queue are alike and only counted; `taken` says who has been given
one. The consumer with a lock calls its key, a take from a set queue, one thread at a time (`TakeKey`). The other consumers call it side by
side, as the pool of eight in the comments of `test3.c` would: such takes may return one value twice or skip some, so the
key may then answer anything once something has been pushed (`TakeOverlapping`). A signal handler that continues releases the lock itself (`Continue`), as the only handler in the repository does.

**Dispatcher.** `writer` and `main` are the places of the two threads; `|=` and `&=` on the word of
flags are a load into a copy and a store. Only the writer takes the mutex. A wait gives the
mutex back and sleeps in one step; a signal wakes a sleeper or does nothing; with `Spurious` a sleeper may wake by
itself. `mcmchDispatcherWriterNotify` is empty, nothing sets ONDISPATCH, and lines 91-99 of the thread
are therefore never reached and not modelled.

## 3. Runs

| run | instance | checks | shows |
|---|---|---|---|
| `setqueue_spsc` | 1 pusher, 1 taker, 3 slots, words of 2 bits | `TypeOK`, `RingPublished`, `MembershipExact`, `SlotExclusive`, `EmptyMeansDrained`, `OverflowMeansFull`, `EveryValueLeaves`, `ImplementsFifoSet` | the queue is a live FIFO set in the way the repository uses it |
| `setqueue_mpmc` | 2 threads that push and take, 2 slots | `ReadyIsWritten`, `SomeCallReturns` | what still holds for several pushers and takers |
| `chunkedqueue_apart` | 1 pusher, 1 taker, 2 chunks of 3 slots, calls on one chunk kept apart | `TypeOK`, `ImplementsFifoChunks`, `TakenWasPushed` | without overlap on a chunk, each chunk is a FIFO queue of 2 places and a take yields what was pushed |
| `chunkedqueue_spsc` | 1 pusher, 1 taker, 1 chunk | `TakenWasPushed`, **violated** | finding 1 |
| `lockregistry` | 12 bytes of 2 bits; 1 scanner and 2 setters, or 2 threads that create, use and destroy locks | `TypeOK`, `ScanCorrect`, `LocksApart`, `OverflowIsEarned` | scans stay right while bits change; a lock has one owner unless a destroy stored a stale byte; Create gives up only for a reason |
| `tables` | 16 bytes of 4 bits, alternating bits after them, tables of 61 and 64 slots, 3 entries | `ScansExact`, `PlacesApart`, `LookupExact`, `FlushClosesAll`, `RefusedWhenFull` | scans are exact and do not look past the end; the tables hand out their slots, all of them, and no others |
| `broadcast_del` | the same | `DelClientRemoves`, **violated** | finding 4 |
| `routines` | a pool of 2 threads, each of the 3 routines, 2 values | `TypeOK`, `LockBalanced`, `HandlerHasValue`, `ValuesKept`, `PoolDestroyReturns`, `ValuesAreTaken` | the lock is released on every path, a handler is called once for each answer of its thread's key, with the lock no value disappears between key and handler, a pool whose threads have been let in can be joined, a value does not wait for a dispatch that came too early |
| `worker` | 3 subs in bytes of 2 bits, 2 tries; `test.c` with 2 tasks and `test3.c` with 4 | `TypeOK`, `HandlerHasTask`, `ProcessedOnce`, `NoneOverwritten`, `LossBounded`, `Finishes` | the executor is safe to run and to stop under both programs; with the sleeps of `test3.c` each task is processed at most once, none is overwritten, and what the early destroy loses is bounded |
| `worker_lost` | `test.c` with 1 sub and 3 tasks | `NoneLost`, **violated** | finding 2 |
| `dispatcher` | the two threads, spurious wake-ups allowed | `ExitReleases`, `StartStays`, `ClosureReaches` | the lock is free at the end, the start is never undone, a closure that can be seen ends the writer |
| `dispatcher_hang` | the two threads, no spurious wake-ups | `DestroyReturns`, **violated** | finding 3 |

### Bounds, and why they are enough

* Set queue: 3 slots give a ring that wraps, has a middle, and whose bitmap has a full word
  (2 bits) and a partial one, so that neighbours and strangers of a value both occur. The
  proofs then cover every length. Two threads that do everything need only 2 slots for head and
  tail to meet and to pass each other.
* Chunked queue: length 5 in chunks of 3 is rounded up to two chunks; 2 places per chunk
  separate full, half full and empty. The two items are only copied and compared, so they are symmetric (`ItemSymmetry`).
* Lock registry: 2 tries and 2 calls of Create for each of 2 threads, over an empty table and one with 2 places left:
  Create ends for want of a place and for want of tries, and stale stores that make two threads own one lock occur
  (without the condition `stale = 0` TLC refutes `LocksApart`).
* Routines: 2 threads are a holder and a waiter of the lock, and a neighbour in the pool's loops; 2 values are one for each thread. Only
  `MaxPush` is a bound on the behaviour.
* Atomic bitmap: 12 bytes are the shortest bitmap for which a scan uses loads of 8, 4, 2 and 1
  bytes, from different offsets. The width of a byte does not matter to the loads, so 2 bits.
* Bitmap and tables: a scan of 16 bytes uses a chunk of 8 bytes and each shorter one. Bytes of 4 bits have a
  first byte with bits below, at and above the offset. A table of 61 slots has 3 bits too many in its last byte;
  0, 59 or 62 slots taken before leave room for all three entries or for two of them, so that the third is refused. After the
  end every second bit is set, so that a chunk reaching past it meets free and taken bits; the theorems are for any memory.
* Worker: 3 sub monitors in bytes of 2 bits are two that disturb each other's compare-and-swaps and one that
  is in the next byte, so that scans go from byte to byte as with the code's 16. With 2 tries giving up, zombies and their
  cleanup all happen. 4 tasks are more than there are monitors: one is handed out a second task, and `LossBounded` can fail. In `test.c` 2 tasks
  are enough for a monitor that is pinged twice and for one that finds its own bit still set. `Memory` is a clear bitmap, or any bitmap with `failstry`
  set, which the first beat cleans up. With other memory the monitors whose bits are set are never used (`Finishes` may fail, the theorems do not).
* Why `worker` does not claim that nothing is lost: a monitor that uses up its tries ignores its ping, and its task waits for the
  next beat, or is lost when there is none. Between two beats each other monitor of the byte can change it three times, so more than
  `3 * (n - 1)` tries would be needed for `n` monitors to a byte: 22 for the code's 8, which has 10.
* Dispatcher: nothing is bounded, the instance is the whole system (one writer, one main).
* `ran` counts to 2, which is all that "more than once" needs.

### Fairness

* Set queue: a call that has begun goes on, and takers poll. Pushers need not push. The
  code's threads are ordinary threads that no lock stops; the master polls at each beat.
* Worker: threads run, handlers return, and main pushes all its tasks, beats until
  the queue is empty and destroys, as the loops of `test.c` and `test3.c` do. It need not beat between the pushes.
* Dispatcher: both threads run on; the server need never stop, and no spurious wake-up has to happen.
* Routines: the threads of the pool run, a timed wait ends at its deadline at the latest, and main goes through the loops
  of Start and Destroy. Main need not push, dispatch or interrupt, and no spurious wake-up has to happen.
* The other modules state safety only.

### Timing

A member of `Programs` says where main sleeps long enough for every thread to deal with its signal
(`Settled`: handlers may still be running, they take longer than a beat). `test3.c` sleeps 200 ms after each beat between pushes (`nap`)
and 500 ms before each beat after them (`drain`), and destroys the executor without a pause. `test.c` beats between pushes without
a pause, and sleeps 500 ms after each later beat, before it looks at the queue again (`test`; its first look has no sleep before it, the model gives
it one, which only removes behaviours). That everyone has settled by then is an assumption about the scheduler, not something the code enforces. The
properties that need it (`ProcessedOnce`, `NoneOverwritten`, `LossBounded`) name it as `Timed`, the sleeps of `test3.c`; the others are checked for both
programs, and `TypeOK` and `HandlerHasTask` are proved for programs that sleep nowhere too. The first beat of either may come before a thread
has blocked SIGUSR1, which ends the process.

## 4. Findings

1. `chunkedqueue_spsc` - Push publishes the slot before it copies the item (lines 68 and 76),
   and Take gives the slot back before it copies the item out (lines 47 and 55). A take returns
   SUCCESS with what malloc left in the slot.
2. `worker_lost` - a beat that meets a monitor that has not set its bit pings it a second
   time (line 90). The second ping runs the task again, and meanwhile the master, which has read
   the bitmap before, gives the monitor another task; the end of the stale run sets `finished` and
   the new task is lost. The stress test kept in comments in `cli/src/linux/test.c` beats that fast and
   ends with "Nenhum item foi perdido!".
3. `dispatcher_hang` - Destroy sets CLOSURE and signals without the mutex (lines 46 and 47). A writer
   between its last look at the flags and its wait misses the signal, and the join never returns. The
   writer's own update of the word (line 79) can also overwrite the closure with an older copy.
4. `broadcast_del` - `mcmchBroadcastDelClient` computes the index of the client from the client instead of the broadcast
   (`broadcast.c:66`). It is negative, so the answer is OVERFLOW, the bit is never cleared, and the client keeps its slot. `broadcast.h:23-28`
   says that the call removes the client and returns success.

Two limits of the set queue, which no caller meets and which `Solo` excludes. A queue of length 1
(`mcmpSetQueueCreate(1)`) accepts a value that no take ever sees, for head and tail are always equal. With two pushers, one that
has claimed its slot and not published it lets the other move `head` onto `tail`, so that a full ring reads as
empty although both pushes report success.

Further facts about the code that the models contain. A property is stated so that it says what remains true beside them.

* `lock.c:61` computes the index with its operands swapped: only lock 0's place becomes free again, the others leak, and from
  the ninth lock on `Destroy` writes a byte before the bitmap. `lock.c:63` clears without an atomic access: a claim made between its load and its
  store is undone, and the lock is handed out twice (`stale` in `LocksApart`).
* `pool.c:43-44`: a thread that first looks at its bit after `Destroy` has cleared it waits at the gate for ever, and the
  join with it (hence the premise of `PoolDestroyReturns`). A thread that has not blocked SIGUSR1 yet ends the process.
* `consumer.c:55-58`: the consumer that waits for SIGUSR1 goes back to `sigwait` whatever `running` says, and a dispatch on the
  lock never reaches it; its pool may not be joinable. `consumer.c:36` drops a value that was taken when `running` is cleared meanwhile.
* `routine.c:22`: a routine interrupted between two waits ends without calling its handler for the shutdown.
* `clients.c:34` has no range test; the caller's length fills its bytes.
* `monitor.c:74` scans and enables without atomicity; only the main thread creates monitors. `worker.c:149` and `163` ignore the
  status of that call.
* `dispatcher.c:55`: Notify is empty, so queued values stay in the dispatcher's queue. `heartbeat.c:22`: the monitor is
  created and never started.

## 5. Proofs

Every safety property that a passing run checks is also a theorem, for every value of the constants. What is assumed of them:

* `SetQueue`: `Length` and `WordBits` are positive (`LengthAssumption`, `WordBitsAssumption`). The theorems named `Spsc...` assume
  `Solo`: at most one pusher, at most one taker, `Length >= 2`.
* `ChunkedQueue`: `Length` and `Alignment` are positive, and what malloc left is not an item (`SizeAssumption`, `UninitAssumption`).
* `AtomicBitmap`, `LockRegistry`: sizes are positive, inputs are natural numbers (`SizeAssumption`, `InputAssumption`), lockers are
  threads that scan and set (`LockersAssumption`).
* `Bitmap`, `Tables`: sizes are positive (`BitmapAssumption`); a table's length is the bitmap's or less by part of a byte, as the
  rounding of the code makes it, and for clients it is the whole bitmap (`CapacityAssumption`); the entries that are added are not among
  those already there (`EarlierAssumption`, `EntriesAssumption`).
* `Routines`: a pool has at least one thread (`LengthAssumption`) and runs one of the three routines (`KindsAssumption`).
* `Worker`: sub monitors, bits to a byte and tries are positive, memory and programs are what the types allow (`WorkerAssumption`). The
  theorems named `Timely...` are about properties that hold for the sleeps of `test3.c` (`Timed`, section 3), and for any number of sub monitors, bits to a byte,
  tries and tasks: the 16 monitors in two bytes and the 10 tries of the code included.

Nothing is assumed about the number of threads elsewhere. None of the invariants is inductive alone; what had to be added is, in
almost every case, what a thread knows at each access: which of the values it has read are still right.

**SetQueueProofs**

* `TypeCorrect`: `Spec => []TypeOK`, for any threads. Needed everywhere below.
* `ReadsAreWritten`: `Spec => []ReadyIsWritten`, for any threads. The invariant adds to
  `ReadyIsWritten` that a push about to set the ready bit has stored into its slot.
* `SpscRingPublished`, `SpscMembershipExact`, `SpscSlotExclusive`, from one invariant. Whether a push may claim a slot depends on a
  `tail` read before. `SpscInv` adds `PushKnows` (its copy of `head` is
  still right; if the ring is full then its copy of `tail` is still right; when it is about to claim the slot
  the ring is not full) and `TakeKnows` (its copy of `tail` is right, its slot is ready).
  The argument is one step per action; the arithmetic of the ring is in the lemmas on `Arc`.
* `SpscEmptyMeansDrained`, `SpscOverflowMeansFull`: the action properties, from `SpscInv` and the
  lemmas that say which action can return the status.
* `SpscImplementsFifoSet`: `Spec => Abs!AbsSafety`. The abstract queue is the
  published part of the ring, read from `tail`; a push takes effect when it sets the ready bit, a
  take when it moves `tail`. Two of the 23 actions map to abstract steps, the others to stutters.

**ChunkedQueueProofs**

* `ChunkedTypeCorrect`: `Spec => []TypeOK`, for any threads, calls that overlap included.
* `ApartImplementsFifoChunks`: `ApartSpec => ImplementsFifoChunks`, for any threads, length and alignment, a short last
  chunk included. `ApartInv` adds `Knows`: the copies a call has made of its chunk's `head` and `tail` are still right, for nobody else is on that
  chunk. A push takes effect when it stores the item, a take when it moves `tail`. `SoleImplementsFifoChunks` is the case of one thread.
* `ApartTakenWasPushed`: the property that finding 1 refutes holds once the calls on a chunk are kept apart, so the overlap is
  all that the finding rests on. The invariant adds `Filled`: the abstract queues hold items, and so does the slot a take is about to read.

**AtomicBitmapProofs**

* `BitmapCorrect`: `Spec => [](TypeOK /\ ScanCorrect /\ OwnedAlone)` for every number of
  bytes, threads and offsets. `BitmapInv` adds that the bits in `always` still look as wanted
  (`ScanKnows`) and what a thread about to swap a byte knows of its copy (`TryKnows`); a swap that
  succeeds then changes one bit only (`CasChangesOneBit`). The inductive step is proved for any offset and
  any bit (`AnyStep`), so that the registry's calls are covered too. The part about scans, `ScansSound`, is inductive whatever else
  changes the bitmap.

**LockRegistryProofs**

* `LocksStayApart`: `RegistrySpec => []LocksApart` for every table, number of tries and set of threads. `RegistryInv` adds, while
  `stale = 0`: `BitmapInv`; at which access of the bitmap each call is, and for which bit (`CallKnows`); that the bit a
  Destroy is about to store belongs to nobody and to no other Destroy (`ClearKnows`); that a lock with somebody
  inside is locked and usable (`InsideKnows`), so that it is neither destroyed nor initialised anew. A Destroy whose
  byte has not changed takes away at most its own bit.
* `RegistryTypeCorrect`, `RegistryScansCorrect`, `OverflowIsAlwaysEarned`: these hold whatever Destroy does to the bitmap, stale stores
  included, so they have an invariant of their own, `CreateInv`: `ScansSound`, where each call is, and `Tallied`, which says
  that a Create has met at least as many changes by others as it has lost claims, and one more from the moment
  the place it has found is no longer what it saw.

**TablesProofs**

* `ScansAlwaysExact`: both scans of `bitmap.c` return the first wanted bit, for every length, contents and offset, and whatever the memory after the bitmap holds. This is an induction over
  the loops' recursive functions, and done without an induction rule: a recursive function is some solution of its equation,
  if there is one. The expected result is shown to be a solution, by its defining property; and two solutions agree, for
  otherwise there is a last offset at which they differ, and the equation makes them equal there.
* `LookupAlwaysExact`: the walk of `GetBitIndex` is another recursive function, treated in the same way.
* `FlushClosesEveryClient`, `PlacesStayApart`, `RefusedOnlyWhenFull`: from what the scans return. `TablesInv` is: types, where a flush
  stands (`Flushing`: at the first bit it has not closed; the bits are those it began with less the closed ones), where the entries are
  (`Places`, which also says that no other bit is set), and that the slots of earlier entries keep their contents (`EarlierKept`).

**RoutinesProofs**

* `RoutinesTypeCorrect`, `LockStaysBalanced`, `HandlersHaveValues`: `TypeOK`, `LockBalanced` and `HandlerHasValue`, for a pool of any
  length. `RoutinesInv` adds that only waiters are in the condition's queue (`SleepersWait`) and which places each routine
  never reaches (`KindsApart`): `key` is entered with the lock by one consumer and without it by the other. `HandlerHasValue` is about one
  thread's control flow, between its key and its handler; whether two threads can be given one value depends on the key.
* `NoValueLost`: `ValuesKept`, for the consumer with a lock, from the same invariant: no key is called over a value that is still
  in the thread's hands, so the values in the queue and in hands become fewer only by a call of the handler.

**WorkerProofs**

* `WorkerTypeCorrect`: `TypeOK`, with the places at which the master and a sub monitor can be.
* `HandlerNeverBare`: `HandlerHasTask`, however the beats fall. `HandedInv` says that a sub monitor on its way to the handler,
  or that may still be sent there, has been given a task. A ping of Destroy comes after `running` is cleared and starts no beat.
* `TimelyOnce`, `TimelyNotOverwritten`: with the sleeps of `test3.c`, whatever the number of tries. `TimedInv` says of a process that is alive
  where the threads are (`Threading`): the phases of main and what it has waited for (`LifeCycle`), what the master knows of the monitor it has found
  (`MasterKnows`), and for a sub monitor how its bit, its signal, `finished` and its place belong together (`SubKnows`). `Tasking` says where the tasks
  are: each in one place only (`TasksApart`), none nowhere (`EachSomewhere`), none run twice.
* `TimelyLossBounded`: main destroys only when it has found the queue empty, and nothing enters it after (`LeftEmpty`). A task that was not
  processed is then in the taskdata of a sub monitor, and two of them are not in the same one: there are at most as many as sub monitors.

**DispatcherProofs**

* `WriterReleases`, `StartSurvives`: `ExitReleases` and `StartStays` of the dispatcher. `DispatcherInv` adds
  where the mutex is held, that a writer past line 66 runs with STARTED set, and that the copies about
  to be stored have it.

Only model-checked: the liveness properties (`EveryValueLeaves`, `SomeCallReturns`, `Finishes`, `ClosureReaches`, `PoolDestroyReturns`,
`ValuesAreTaken`) and the fairness of `FifoSet!AbsSpec`. They speak of `ENABLED`, which these provers do not handle.

## 6. Not modelled

* Server and protocol: sockets, a datagram whose signature and operation code are compared, handlers that are empty or end in a
  TODO before they store anything. There is no state to check.
* The epoll loop of `main.c` is I/O; what it does with the dispatcher is in `Dispatcher`.
* Heartbeat: half rewritten. The monitor's handler is declared and defined nowhere, the monitor never started, the client of a
  slot is a null placeholder and the macros it uses do not exist. Its walk over the bitmap is the one of `Bitmap`, and the way its
  routine handler treats the lock is `Continue` of `Routines`.
* The monitor lock (`monitor.c:115-159`): the heartbeat is its only caller.
* `queue.c` is compiled by no build file.
* Logging, time and the environment are calls into the system without state of their own. `Destroy` of the containers is
  `free`. Failing allocations end a `Create` before there is anything to check.
* The weak memory orders, see section 2.

## 7. Plan

Done: the containers with their abstract specifications, the worker executor with its monitors, the dispatcher, the pool with its
routines, the lock registry, the tables; and for each of them a proof of every safety property its runs check.

Left, in this order:

1. The set queue with several pushers or several takers: which part of `SpscInv` survives when only one side is alone.
2. The heartbeat and the monitor lock, when the source has a handler to model.
