---------------------------- MODULE LockRegistry ----------------------------
(***************************************************************************)
(* The registry of locks of routines/src/linux/lock.c: a static table of   *)
(* mutexes whose free places are kept in an atomic bitmap.  Create scans   *)
(* for a free place and tries to claim it, again and again up to a bound;  *)
(* Destroy clears the bit with the plain bitmap's DisableBit, a load and a *)
(* store of the byte, at an index whose sign is wrong.                     *)
(*                                                                         *)
(* The module drives the bitmap in one of two ways, chosen at first: by    *)
(* threads that call its functions directly, or by the registry.           *)
(* Everything Create does to the bitmap are actions of AtomicBitmap.       *)
(* stale and others are history variables.                                 *)
(***************************************************************************)
EXTENDS AtomicBitmap

CONSTANTS
  Lockers,     \* threads that create and destroy locks
  Tries,       \* claims a Create attempts (100 in the code)
  MaxCreates,  \* bound on the calls of Create of a thread
  Earlier      \* how many locks there may be at first

ASSUME LockersAssumption == Lockers \subseteq Scanners \intersect Setters
ASSUME BoundAssumption ==
  /\ Tries \in Nat \ {0} /\ MaxCreates \in Nat
  /\ Earlier \subseteq 0 .. BitCount

VARIABLES
  usage,    \* "direct" or "locks"
  call,     \* where a locker is in Create or Destroy
  tries,    \* claims that have failed
  creates,  \* calls of Create so far
  result,   \* the status of the last Create or Destroy
  locked,   \* the locked mutexes
  inside,   \* the locks a thread has acquired and not released
  stale,    \* 1 once a Destroy has stored a byte that another thread had changed
  others    \* changes of the bitmap by other threads during a Create

callVars  == <<call, tries, creates, result>>
mutexVars == <<locked, inside>>
history   == <<stale, others>>
registryVars == <<vars, usage, callVars, mutexVars, history>>

RegistryInit ==
  /\ Init
  /\ usage \in {"direct", "locks"}
  /\ usage = "locks" => \E n \in Earlier : bits = 0 .. n - 1
  /\ call = [t \in Lockers |-> "none"]
  /\ tries = [t \in Lockers |-> 0]
  /\ creates = [t \in Lockers |-> 0]
  /\ result = [t \in Lockers |-> "none"]
  /\ locked = {} /\ inside = [t \in Lockers |-> {}]
  /\ stale = 0 /\ others = [t \in Lockers |-> 0]

Goto(t, place) == call' = [call EXCEPT ![t] = place]

Return(t, status) == Goto(t, "none") /\ result' = [result EXCEPT ![t] = status]

\* A thread in Create sees that others change the bitmap.
Witness(t) ==
  others' = [u \in Lockers |->
               IF u # t /\ call[u] # "none" /\ bits' # bits THEN others[u] + 1 ELSE others[u]]

-----------------------------------------------------------------------------
(* mcmchLockCreate *)

CreateCall(t) ==
  /\ call[t] = "none" /\ creates[t] < MaxCreates
  /\ creates' = [creates EXCEPT ![t] = @ + 1]
  /\ tries' = [tries EXCEPT ![t] = 0]
  /\ others' = [others EXCEPT ![t] = 0]
  /\ Goto(t, "scan")
  /\ UNCHANGED <<vars, result, mutexVars, stale>>

\* A registry of the caller's own is refused.
CreateElsewhere(t) ==
  /\ call[t] = "none"
  /\ Return(t, "NOT_IMPLEMENTED")
  /\ UNCHANGED <<vars, tries, creates, mutexVars, history>>

\* One load of the scan; without a free place the call ends.
CreateScan(t) ==
  /\ call[t] = "scan"
  /\ ScanBegin(t, "free", 0) \/ ScanChunk(t) \/ ScanEnd(t)
  /\ \/ pc'[t] = "scan" /\ UNCHANGED <<call, result>>
     \/ pc'[t] = "idle" /\ found'[t] = -1 /\ Return(t, "OVERFLOW")
     \/ pc'[t] = "idle" /\ found'[t] # -1 /\ Goto(t, "try") /\ UNCHANGED result
  /\ UNCHANGED <<tries, creates, mutexVars, history>>

\* Mutant: a claim that failed is repeated at the same place.
BadRetry(t) == Goto(t, "try") /\ UNCHANGED result

\* A claim that failed: look for another place.
Retry(t) == Goto(t, "scan") /\ UNCHANGED result

\* One access of the claim of the place found.
CreateTry(t) ==
  /\ call[t] = "try"
  /\ \/ EnableLoad(t, found[t]) \/ EnableAlready(t, found[t])
     \/ EnableCas(t) \/ CasLost(t)
  /\ \/ pc'[t] # "idle" /\ UNCHANGED <<call, result, tries>>
     \/ ret'[t] = "SUCCESS" /\ Goto(t, "init") /\ UNCHANGED <<result, tries>>
     \/ /\ ret'[t] \in {"ALROP", "INVOP"}
        /\ tries' = [tries EXCEPT ![t] = @ + 1]
        /\ IF tries'[t] < Tries THEN Retry(t) ELSE Return(t, "OVERFLOW")
  /\ Witness(t)
  /\ UNCHANGED <<creates, mutexVars, stale>>

\* pthread_mutex_init of the place claimed.
CreateInit(t) ==
  /\ call[t] = "init"
  /\ locked' = locked \ {found[t]}
  /\ Return(t, "SUCCESS")
  /\ UNCHANGED <<vars, tries, creates, inside, history>>

-----------------------------------------------------------------------------
(* mcmchLockAcquire, mcmchLockRelease, mcmchLockDestroy *)

\* A lock that its Create has returned, and that nobody has destroyed.
Usable(i) ==
  \E t \in Lockers : i \in own[t] /\ ~ (call[t] = "init" /\ found[t] = i)

Acquire(t, i) ==
  /\ call[t] = "none"
  /\ Usable(i) /\ i \notin locked
  /\ locked' = locked \union {i}
  /\ inside' = [inside EXCEPT ![t] = @ \union {i}]
  /\ UNCHANGED <<vars, callVars, history>>

Release(t, i) ==
  /\ call[t] = "none"
  /\ i \in inside[t]
  /\ locked' = locked \ {i}
  /\ inside' = [inside EXCEPT ![t] = @ \ {i}]
  /\ UNCHANGED <<vars, callVars, history>>

\* The caller destroys a lock of its own that nobody holds.  The index given to
\* DisableBit is 0 - i: in the first byte for the first locks, and in a byte
\* before the bitmap for the others.
DestroyLoad(t, i) ==
  /\ call[t] = "none"
  /\ i \in own[t] /\ i \notin locked
  /\ own' = [own EXCEPT ![t] = @ \ {i}]
  /\ \/ /\ i < WordBits
        /\ idx' = [idx EXCEPT ![t] = i]
        /\ byteval' = [byteval EXCEPT ![t] = bits \intersect ByteOf(0)]
        /\ Goto(t, "clear") /\ UNCHANGED result
     \/ i >= WordBits /\ Return(t, "SUCCESS") /\ UNCHANGED <<idx, byteval>>
  /\ UNCHANGED <<bits, pc, scanVars, ret, always, tries, creates, mutexVars, history>>

\* A lock that is not in the table is refused.
DestroyElsewhere(t) ==
  /\ call[t] = "none"
  /\ Return(t, "NOT_IMPLEMENTED")
  /\ UNCHANGED <<vars, tries, creates, mutexVars, history>>

\* The shift by a negative count leaves the byte as it was loaded, except for
\* the lock at the very beginning of the table.
DestroyStore(t) ==
  /\ call[t] = "clear"
  /\ bits' = (bits \ ByteOf(0)) \union (IF idx[t] = 0 THEN byteval[t] \ {0} ELSE byteval[t])
  /\ always' = [s \in Scanners |-> always[s] \intersect Match(bits', wanted[s])]
  /\ stale' = IF bits \intersect ByteOf(0) = byteval[t] THEN stale ELSE 1
  /\ idx' = [idx EXCEPT ![t] = 0] /\ byteval' = [byteval EXCEPT ![t] = {}]
  /\ Witness(t)
  /\ Return(t, "SUCCESS")
  /\ UNCHANGED <<pc, scanVars, ret, own, tries, creates, mutexVars>>

-----------------------------------------------------------------------------
DirectStep ==
  \/ \E s \in Scanners \ Lockers : ScanStep(s)
  \/ \E t \in Setters : TryStep(t)

LockStep(t) ==
  \/ CreateCall(t) \/ CreateScan(t) \/ CreateTry(t) \/ CreateInit(t) \/ DestroyStore(t)
  \/ CreateElsewhere(t) \/ DestroyElsewhere(t)
  \/ \E i \in Bits : Acquire(t, i) \/ Release(t, i) \/ DestroyLoad(t, i)

RegistryNext ==
  /\ UNCHANGED usage
  /\ \/ usage = "direct" /\ DirectStep /\ UNCHANGED <<callVars, mutexVars, history>>
     \/ usage = "locks" /\ \E t \in Lockers : LockStep(t)

RegistrySpec == RegistryInit /\ [][RegistryNext]_registryVars

-----------------------------------------------------------------------------
(* Properties *)

\* A lock belongs to the thread that created it and one thread at a time is
\* inside it, for all the interleavings of Create, unless a Destroy has stored a
\* byte that was changed under it (lock.c line 63): nothing else in the registry
\* undoes a claim.
LocksApart ==
  stale = 0 =>
    /\ OwnedAlone
    /\ \A t, u \in Lockers : t # u => inside[t] \intersect inside[u] = {}

\* Create reports an overflow only when no place has stayed free during its last
\* scan, or when each of its claims was lost to a change by another thread: the
\* loop of lock.c lines 36-45 cannot run out of tries by itself.
OverflowIsEarned ==
  [][\A t \in Lockers :
       call[t] \in {"scan", "try"} /\ call'[t] = "none" /\ result'[t] = "OVERFLOW" =>
         \/ found'[t] = -1 /\ always'[t] = {}
         \/ others'[t] >= Tries]_registryVars

-----------------------------------------------------------------------------
(* LocksApart is inductive together with what the calls in progress know *)

\* Where the bitmap's functions are during a call, and with which bit.
CallKnows(t) ==
  /\ call[t] = "scan" => pc[t] \in {"idle", "scan"}
  /\ call[t] = "try"  => /\ found[t] \in Bits
                         /\ \/ pc[t] = "idle"
                            \/ pc[t] = "cas_enable" /\ idx[t] = found[t]
  /\ call[t] \in {"none", "init", "clear"} => pc[t] = "idle"
  /\ call[t] = "init" => found[t] \in own[t]

\* A Destroy that is to clear a bit of the first byte: the bit is set, nobody has
\* it, and no other Destroy is about to clear it.
ClearKnows(t) ==
  call[t] = "clear" =>
    /\ idx[t] \in bits
    /\ \A u \in Setters : idx[t] \notin own[u]
    /\ \A u \in Lockers : u # t /\ call[u] = "clear" => idx[u] # idx[t]

\* A lock somebody is inside of is locked and has been neither destroyed nor
\* created anew.
InsideKnows == \A t \in Lockers : \A i \in inside[t] : i \in locked /\ Usable(i)

RegistryType ==
  /\ usage \in {"direct", "locks"}
  /\ call \in [Lockers -> {"none", "scan", "try", "init", "clear"}]
  /\ inside \in [Lockers -> SUBSET Bits] /\ locked \subseteq Bits
  /\ stale \in {0, 1}
  /\ usage = "direct" => \A t \in Lockers : call[t] = "none" /\ inside[t] = {}

RegistryInv ==
  /\ RegistryType
  /\ stale = 0 =>
       /\ BitmapInv /\ LocksApart /\ InsideKnows
       /\ usage = "locks" => \A t \in Lockers : CallKnows(t) /\ ClearKnows(t)
=============================================================================
