------------------------- MODULE LockRegistryProofs -------------------------
(***************************************************************************)
(* The locks of the registry stay apart, for every size of the table, any  *)
(* number of tries and any threads, until a Destroy has stored a byte that *)
(* was changed under it.                                                   *)
(***************************************************************************)
EXTENDS LockRegistry, AtomicBitmapProofs

\* The variables' types and the relations between them hold at first.
LEMMA RegistryInitial == RegistryInit => RegistryInv
<1> SUFFICES ASSUME RegistryInit PROVE RegistryInv
  OBVIOUS
<1>1. BitmapInv
  BY BitmapInit DEF RegistryInit
<1>2. RegistryType
  BY DEF RegistryInit, RegistryType
<1>3. LocksApart /\ InsideKnows
  BY <1>1 DEF RegistryInit, BitmapInv, LocksApart, InsideKnows
<1>4. \A t \in Lockers : CallKnows(t) /\ ClearKnows(t)
  BY LockersAssumption DEF RegistryInit, Init, Threads, CallKnows, ClearKnows
<1> QED
  BY <1>1, <1>2, <1>3, <1>4 DEF RegistryInv

\* A claim that succeeds takes a bit that was clear, and so belonged to nobody.
LEMMA ClaimIsNew ==
  ASSUME BitmapInv, NEW t \in Setters, EnableCas(t)
  PROVE  /\ bits' = bits \union {idx[t]} /\ idx[t] \notin bits
         /\ \A u \in Setters : idx[t] \notin own[u]
         /\ own' = [own EXCEPT ![t] = @ \union {idx[t]}]
<1>1. pc[t] = "cas_enable" /\ idx[t] \notin byteval[t]
  BY DEF EnableCas, BitmapInv, TryKnows
<1>2. bits' = bits \union {idx[t]} /\ idx[t] \notin bits
  BY <1>1, CasChangesOneBit DEF EnableCas, CasByte
<1> QED
  BY <1>2 DEF EnableCas, BitmapInv, OwnedAlone

\* The types are kept by every step.
LEMMA RegistryTypeInductive ==
  ASSUME RegistryType, [RegistryNext]_registryVars
  PROVE  RegistryType'
<1> USE DEF RegistryType, callVars, mutexVars, history
<1>1. CASE UNCHANGED registryVars
  BY <1>1 DEF registryVars
<1>2. CASE UNCHANGED usage /\ usage = "direct" /\ DirectStep /\ UNCHANGED <<callVars, mutexVars, history>>
  BY <1>2
<1>3. ASSUME UNCHANGED usage, usage = "locks", NEW t \in Lockers, LockStep(t)
      PROVE  RegistryType'
  <2>1. CASE CreateCall(t)
    BY <1>3, <2>1 DEF CreateCall, Goto
  <2>2. CASE CreateScan(t)
    BY <1>3, <2>2 DEF CreateScan, Goto, Return
  <2>3. CASE CreateTry(t)
    BY <1>3, <2>3 DEF CreateTry, Goto, Return, Retry
  <2>4. CASE CreateInit(t)
    BY <1>3, <2>4 DEF CreateInit, Goto, Return
  <2>5. CASE DestroyStore(t)
    BY <1>3, <2>5 DEF DestroyStore, Goto, Return
  <2>6. CASE \E i \in Bits : Acquire(t, i) \/ Release(t, i)
    BY <1>3, <2>6 DEF Acquire, Release
  <2>7. CASE \E i \in Bits : DestroyLoad(t, i)
    BY <1>3, <2>7 DEF DestroyLoad, Goto, Return
  <2>8. CASE CreateElsewhere(t) \/ DestroyElsewhere(t)
    BY <1>3, <2>8 DEF CreateElsewhere, DestroyElsewhere, Goto, Return
  <2> QED
    BY <1>3, <2>1, <2>2, <2>3, <2>4, <2>5, <2>6, <2>7, <2>8 DEF LockStep
<1> QED
  BY <1>1, <1>2, <1>3 DEF RegistryNext

\* What the invariant says as long as no stale byte has been stored.
Sound ==
  /\ RegistryType /\ stale = 0
  /\ BitmapInv /\ LocksApart /\ InsideKnows
  /\ usage = "locks" => \A t \in Lockers : CallKnows(t) /\ ClearKnows(t)

\* The scans of Create.
LEMMA CreateScanSound ==
  ASSUME Sound, usage = "locks", UNCHANGED usage, NEW t \in Lockers, CreateScan(t), RegistryType'
  PROVE  Sound'
<1> USE DEF Sound
<1>0. t \in Scanners /\ t \in Setters
  BY LockersAssumption
<1>1. BitmapInv'
  <2>1. ScanBegin(t, "free", 0) \/ ScanChunk(t) \/ ScanEnd(t)
    BY DEF CreateScan
  <2>2. AnyStep
    BY <1>0, <2>1 DEF AnyStep
  <2> QED
    BY <2>2, BitmapInductive
<1>2. /\ UNCHANGED <<bits, own, idx, byteval, stale, locked, inside>>
      /\ \A u \in Lockers : u # t => call'[u] = call[u] /\ pc'[u] = pc[u] /\ found'[u] = found[u]
      /\ call[t] = "scan"
      /\ \/ call'[t] = "scan" /\ pc'[t] = "scan"
         \/ call'[t] = "none" /\ pc'[t] = "idle"
         \/ call'[t] = "try" /\ pc'[t] = "idle" /\ found'[t] # -1
  <2>1. UNCHANGED <<bits, own, idx, byteval, stale, locked, inside>>
    BY DEF CreateScan, ScanBegin, ScanChunk, ScanEnd, tryVars, mutexVars, history
  <2>2. \A u \in Lockers : u # t => pc'[u] = pc[u] /\ found'[u] = found[u]
    BY LockersAssumption DEF CreateScan, ScanBegin, ScanChunk, ScanEnd, ScanReturn, BitmapInv,
       TypeOK, Threads
  <2>3. /\ \A u \in Lockers : u # t => call'[u] = call[u]
        /\ call[t] = "scan"
        /\ \/ call'[t] = "scan" /\ pc'[t] = "scan"
           \/ call'[t] = "none" /\ pc'[t] = "idle"
           \/ call'[t] = "try" /\ pc'[t] = "idle" /\ found'[t] # -1
    BY DEF CreateScan, Return, Goto, RegistryType
  <2> QED
    BY <2>1, <2>2, <2>3
<1>3. found'[t] \in Bits \union {-1}
  BY <1>0, <1>1 DEF BitmapInv, TypeOK
<1>4. LocksApart'
  BY <1>1, <1>2 DEF LocksApart, BitmapInv
<1>5. InsideKnows'
  BY <1>2 DEF InsideKnows, Usable
<1>6. \A u \in Lockers : CallKnows(u)'
  BY <1>2, <1>3 DEF CallKnows
<1>7. \A u \in Lockers : ClearKnows(u)'
  BY <1>2 DEF ClearKnows
<1> QED
  BY <1>1, <1>2, <1>4, <1>5, <1>6, <1>7

\* The claims of Create.
LEMMA CreateTrySound ==
  ASSUME Sound, usage = "locks", UNCHANGED usage, NEW t \in Lockers, CreateTry(t), RegistryType'
  PROVE  Sound'
<1> USE DEF Sound
<1>0. /\ t \in Scanners /\ t \in Setters
      /\ call[t] = "try" /\ found[t] \in Bits /\ CallKnows(t)
  BY LockersAssumption DEF CreateTry, CallKnows
<1>1. BitmapInv'
  <2>1. \/ EnableLoad(t, found[t]) \/ EnableAlready(t, found[t])
        \/ EnableCas(t) \/ CasLost(t)
    BY DEF CreateTry
  <2>2. AnyStep
    BY <1>0, <2>1 DEF AnyStep
  <2> QED
    BY <2>2, BitmapInductive
<1>2. UNCHANGED <<found, stale, locked, inside>>
  BY DEF CreateTry, EnableLoad, TryLoad, EnableAlready, EnableCas, CasLost, scanVars, mutexVars
<1>3. LocksApart'
  BY <1>1, <1>2 DEF LocksApart, BitmapInv
<1>4. \A u \in Lockers : u # t => call'[u] = call[u] /\ pc'[u] = pc[u] /\ idx'[u] = idx[u]
  <2>1. \A u \in Lockers : u # t => pc'[u] = pc[u] /\ idx'[u] = idx[u]
    BY LockersAssumption DEF CreateTry, EnableLoad, TryLoad, EnableAlready, EnableCas, CasLost,
       TryReturn, BitmapInv, TypeOK, Threads
  <2> QED
    BY <2>1 DEF CreateTry, Return, Retry, Goto, RegistryType
<1>5. CASE EnableCas(t)
  <2>1. /\ bits' = bits \union {idx[t]} /\ idx[t] \notin bits
        /\ \A u \in Setters : idx[t] \notin own[u]
        /\ own' = [own EXCEPT ![t] = @ \union {idx[t]}]
    BY <1>0, <1>5, ClaimIsNew
  <2>2. idx[t] = found[t] /\ pc'[t] = "idle" /\ ret'[t] = "SUCCESS"
    BY <1>0, <1>5 DEF CallKnows, EnableCas, TryReturn, BitmapInv, TypeOK, Threads
  <2>3. call'[t] = "init"
    BY <2>2 DEF CreateTry, Goto, RegistryType
  <2>4. /\ own'[t] = own[t] \union {found[t]}
        /\ \A u \in Setters : u # t => own'[u] = own[u]
    BY <1>0, <2>1, <2>2 DEF BitmapInv, TypeOK
  <2>5. InsideKnows'
    <3> SUFFICES ASSUME NEW u \in Lockers, NEW i \in inside[u]
                 PROVE  i \in locked /\ Usable(i)'
      BY <1>2 DEF InsideKnows
    <3>1. i \in locked /\ Usable(i)
      BY DEF InsideKnows
    <3>2. PICK v \in Lockers : i \in own[v] /\ ~ (call[v] = "init" /\ found[v] = i)
      BY <3>1 DEF Usable
    <3>3. v \in Setters /\ i # found[t]
      BY <2>1, <2>2, <3>2, LockersAssumption
    <3>4. i \in own'[v] /\ ~ (call'[v] = "init" /\ found'[v] = i)
      BY <1>2, <1>4, <2>4, <3>2, <3>3
    <3> QED
      BY <3>1, <3>4 DEF Usable
  <2>6. \A u \in Lockers : CallKnows(u)'
    BY <1>2, <1>4, <2>2, <2>3, <2>4, LockersAssumption DEF CallKnows
  <2>7. \A u \in Lockers : ClearKnows(u)'
    BY <1>4, <2>1, <2>3, <2>4 DEF ClearKnows
  <2> QED
    BY <1>1, <1>2, <1>3, <2>5, <2>6, <2>7
<1>6. CASE EnableLoad(t, found[t]) \/ EnableAlready(t, found[t]) \/ CasLost(t)
  <2>1. UNCHANGED <<bits, own>>
    BY <1>6 DEF EnableLoad, TryLoad, EnableAlready, CasLost
  <2>2. \/ pc'[t] = "idle" /\ ret'[t] \in {"ALROP", "INVOP"}
        \/ pc'[t] = "cas_enable" /\ ret'[t] = "none" /\ idx'[t] = found[t]
    BY <1>0, <1>6 DEF EnableLoad, TryLoad, EnableAlready, CasLost, TryReturn, BitmapInv,
       TypeOK, Threads
  <2>3. call'[t] \in {"try", "scan", "none"} /\ (pc'[t] # "idle" => call'[t] = "try")
        /\ (pc'[t] = "idle" => call'[t] \in {"scan", "none"})
    BY <1>0, <2>2 DEF CreateTry, Return, Retry, Goto, RegistryType
  <2>4. InsideKnows'
    BY <1>2, <1>4, <2>1, <2>3 DEF InsideKnows, Usable
  <2>5. \A u \in Lockers : CallKnows(u)'
    BY <1>0, <1>2, <1>4, <2>1, <2>2, <2>3 DEF CallKnows
  <2>6. \A u \in Lockers : ClearKnows(u)'
    BY <1>4, <2>1, <2>3 DEF ClearKnows
  <2> QED
    BY <1>1, <1>2, <1>3, <2>4, <2>5, <2>6
<1> QED
  BY <1>5, <1>6 DEF CreateTry

\* The mutex of a new lock is initialised while nobody is inside it.
LEMMA CreateInitSound ==
  ASSUME Sound, usage = "locks", UNCHANGED usage, NEW t \in Lockers, CreateInit(t), RegistryType'
  PROVE  Sound'
<1> USE DEF Sound
<1>0. /\ t \in Setters /\ found[t] \in own[t] /\ call[t] = "init"
      /\ UNCHANGED <<vars, inside, stale>> /\ locked' = locked \ {found[t]}
      /\ call' = [call EXCEPT ![t] = "none"]
  BY LockersAssumption DEF CreateInit, Return, Goto, CallKnows, history
<1>1. BitmapInv'
  BY <1>0, BitmapInductive
<1>2. UNCHANGED <<bits, own, pc, found, idx>>
  BY <1>0 DEF vars, scanVars, tryVars
<1>3. LocksApart'
  BY <1>0, <1>1 DEF LocksApart, BitmapInv
<1>4. InsideKnows'
  <2> SUFFICES ASSUME NEW u \in Lockers, NEW i \in inside[u]
               PROVE  i \in locked' /\ Usable(i)'
    BY <1>0 DEF InsideKnows
  <2>1. i \in locked /\ Usable(i)
    BY DEF InsideKnows
  <2>2. PICK v \in Lockers : i \in own[v] /\ ~ (call[v] = "init" /\ found[v] = i)
    BY <2>1 DEF Usable
  <2>3. i # found[t]
    BY <1>0, <2>2, LockersAssumption DEF LocksApart, OwnedAlone
  <2>4. i \in own'[v] /\ ~ (call'[v] = "init" /\ found'[v] = i)
    BY <1>0, <1>2, <2>2 DEF RegistryType
  <2> QED
    BY <1>0, <2>1, <2>3, <2>4 DEF Usable
<1>5. \A u \in Lockers : CallKnows(u)' /\ ClearKnows(u)'
  BY <1>0, <1>2 DEF CallKnows, ClearKnows, RegistryType
<1> QED
  BY <1>0, <1>1, <1>3, <1>4, <1>5

\* A new call of Create begins where the last one has left the bitmap.
LEMMA CreateCallSound ==
  ASSUME Sound, usage = "locks", UNCHANGED usage, NEW t \in Lockers, CreateCall(t), RegistryType'
  PROVE  Sound'
<1> USE DEF Sound
<1>1. /\ UNCHANGED <<vars, inside, locked, stale>> /\ call[t] = "none"
      /\ call' = [call EXCEPT ![t] = "scan"] /\ pc[t] = "idle"
  BY DEF CreateCall, Goto, mutexVars, CallKnows
<1>2. UNCHANGED <<bits, own, pc, found, idx>>
  BY <1>1 DEF vars, scanVars, tryVars
<1>3. BitmapInv'
  BY <1>1, BitmapInductive
<1>4. LocksApart'
  BY <1>1, <1>3 DEF LocksApart, BitmapInv
<1>5. InsideKnows'
  BY <1>1, <1>2 DEF InsideKnows, Usable, RegistryType
<1>6. \A u \in Lockers : CallKnows(u)' /\ ClearKnows(u)'
  BY <1>1, <1>2 DEF CallKnows, ClearKnows, RegistryType
<1> QED
  BY <1>1, <1>3, <1>4, <1>5, <1>6

\* A call that is refused changes nothing but its answer.
LEMMA ElsewhereSound ==
  ASSUME Sound, usage = "locks", UNCHANGED usage, NEW t \in Lockers,
         CreateElsewhere(t) \/ DestroyElsewhere(t), RegistryType'
  PROVE  Sound'
<1> USE DEF Sound
<1>1. UNCHANGED <<vars, inside, locked, stale, call>>
  BY DEF CreateElsewhere, DestroyElsewhere, Return, Goto, mutexVars, history, RegistryType
<1>2. UNCHANGED <<bits, own, pc, found, idx>>
  BY <1>1 DEF vars, scanVars, tryVars
<1>3. BitmapInv'
  BY <1>1, BitmapInductive
<1>4. LocksApart'
  BY <1>1, <1>3 DEF LocksApart, BitmapInv
<1>5. InsideKnows'
  BY <1>1, <1>2 DEF InsideKnows, Usable
<1>6. \A u \in Lockers : CallKnows(u)' /\ ClearKnows(u)'
  BY <1>1, <1>2 DEF CallKnows, ClearKnows
<1> QED
  BY <1>1, <1>3, <1>4, <1>5, <1>6

\* A lock that is not locked has nobody inside, so the one who acquires it is alone.
LEMMA HoldSound ==
  ASSUME Sound, usage = "locks", UNCHANGED usage, NEW t \in Lockers, NEW i \in Bits,
         Acquire(t, i) \/ Release(t, i), RegistryType'
  PROVE  Sound'
<1> USE DEF Sound
<1>1. UNCHANGED <<vars, call, stale>>
  BY DEF Acquire, Release, callVars, history
<1>2. UNCHANGED <<bits, own, pc, found, idx>>
  BY <1>1 DEF vars, scanVars, tryVars
<1>3. BitmapInv'
  BY <1>1, BitmapInductive
<1>4. \A u \in Lockers : CallKnows(u)' /\ ClearKnows(u)'
  BY <1>1, <1>2 DEF CallKnows, ClearKnows
<1>5. \A j \in Bits : Usable(j)' <=> Usable(j)
  BY <1>1, <1>2 DEF Usable
<1>6. CASE Acquire(t, i)
  <2>1. /\ \A u \in Lockers : i \notin inside[u]
        /\ \A u \in Lockers : inside'[u] = IF u = t THEN inside[u] \union {i} ELSE inside[u]
        /\ locked' = locked \union {i} /\ Usable(i)
    BY <1>6 DEF Acquire, InsideKnows, RegistryType
  <2>2. InsideKnows'
    BY <1>5, <2>1 DEF InsideKnows, RegistryType
  <2>3. LocksApart'
    BY <1>1, <1>3, <2>1 DEF LocksApart, BitmapInv, RegistryType
  <2> QED
    BY <1>1, <1>3, <1>4, <2>2, <2>3
<1>7. CASE Release(t, i)
  <2>1. /\ \A u \in Lockers : u # t => i \notin inside[u]
        /\ \A u \in Lockers : inside'[u] = IF u = t THEN inside[u] \ {i} ELSE inside[u]
        /\ locked' = locked \ {i}
    BY <1>7 DEF Release, LocksApart, RegistryType
  <2>2. InsideKnows'
    BY <1>5, <2>1 DEF InsideKnows, RegistryType
  <2>3. LocksApart'
    BY <1>1, <1>3, <2>1 DEF LocksApart, BitmapInv, RegistryType
  <2> QED
    BY <1>1, <1>3, <1>4, <2>2, <2>3
<1> QED
  BY <1>6, <1>7

\* The lock that is being destroyed belongs to nobody any more.
LEMMA DestroyLoadSound ==
  ASSUME Sound, usage = "locks", UNCHANGED usage, NEW t \in Lockers, NEW i \in Bits,
         DestroyLoad(t, i), RegistryType'
  PROVE  Sound'
<1> USE DEF Sound
<1>0. /\ t \in Setters /\ call[t] = "none" /\ i \in own[t] /\ i \notin locked
      /\ UNCHANGED <<bits, pc, scanVars, ret, always, locked, inside, stale>>
      /\ own' = [own EXCEPT ![t] = @ \ {i}]
      /\ pc[t] = "idle"
  BY LockersAssumption DEF DestroyLoad, mutexVars, history, CallKnows
<1>1. /\ UNCHANGED <<wanted, offset, at, found>>
      /\ \A u \in Setters : own'[u] = IF u = t THEN own[u] \ {i} ELSE own[u]
      /\ \A u \in Setters : u # t => idx'[u] = idx[u] /\ byteval'[u] = byteval[u]
  BY <1>0 DEF scanVars, DestroyLoad, BitmapInv, TypeOK
<1>2. /\ i \in bits
      /\ \A u \in Setters : i \notin own'[u]
      /\ \A u \in Lockers : call[u] = "clear" => idx[u] # i
  BY <1>0, <1>1 DEF LocksApart, OwnedAlone, ClearKnows
<1>3. /\ \A u \in Lockers : u # t => call'[u] = call[u]
      /\ \/ call'[t] = "clear" /\ idx'[t] = i
         \/ call'[t] = "none"
  BY <1>0 DEF DestroyLoad, Goto, Return, RegistryType, BitmapInv, TypeOK
<1>4. BitmapInv'
  <2>1. TypeOK'
    <3>1. idx' \in [Setters -> Bits] /\ byteval' \in [Setters -> SUBSET Bits]
      BY <1>0 DEF DestroyLoad, BitmapInv, TypeOK
    <3>2. own' \in [Setters -> SUBSET Bits]
      BY <1>0 DEF BitmapInv, TypeOK
    <3> QED
      BY <1>0, <1>1, <3>1, <3>2 DEF BitmapInv, TypeOK
  <2>2. ScanCorrect' /\ \A s \in Scanners : ScanKnows(s)'
    BY <1>0, <1>1 DEF BitmapInv, ScanCorrect, ScanKnows
  <2>3. OwnedAlone'
    BY <1>0, <1>1 DEF BitmapInv, OwnedAlone
  <2>4. \A u \in Setters : TryKnows(u)'
    BY <1>0, <1>1 DEF BitmapInv, TryKnows
  <2> QED
    BY <2>1, <2>2, <2>3, <2>4 DEF BitmapInv
<1>5. LocksApart'
  BY <1>0, <1>4 DEF LocksApart, BitmapInv
<1>6. InsideKnows'
  <2> SUFFICES ASSUME NEW u \in Lockers, NEW j \in inside[u]
               PROVE  j \in locked /\ Usable(j)'
    BY <1>0 DEF InsideKnows
  <2>1. j \in locked /\ Usable(j) /\ j # i
    BY <1>0 DEF InsideKnows
  <2>2. PICK v \in Lockers : j \in own[v] /\ ~ (call[v] = "init" /\ found[v] = j)
    BY <2>1 DEF Usable
  <2>3. j \in own'[v] /\ ~ (call'[v] = "init" /\ found'[v] = j)
    BY <1>1, <1>3, <2>1, <2>2, LockersAssumption
  <2> QED
    BY <2>1, <2>3 DEF Usable
<1>7. \A u \in Lockers : CallKnows(u)'
  BY <1>0, <1>1, <1>3, LockersAssumption DEF CallKnows
<1>8. \A u \in Lockers : ClearKnows(u)'
  BY <1>0, <1>1, <1>2, <1>3, LockersAssumption DEF ClearKnows
<1> QED
  BY <1>0, <1>4, <1>5, <1>6, <1>7, <1>8

\* A Destroy whose byte is still the one it has loaded changes at most its own bit.
LEMMA DestroyStoreSound ==
  ASSUME Sound, usage = "locks", UNCHANGED usage, NEW t \in Lockers, DestroyStore(t),
         RegistryType', stale' = 0
  PROVE  Sound'
<1> USE DEF Sound
<1>0. /\ t \in Setters /\ call[t] = "clear" /\ pc[t] = "idle"
      /\ UNCHANGED <<pc, scanVars, ret, own, locked, inside>>
      /\ call' = [call EXCEPT ![t] = "none"]
      /\ always' = [s \in Scanners |-> always[s] \intersect Match(bits', wanted[s])]
      /\ idx' = [idx EXCEPT ![t] = 0] /\ byteval' = [byteval EXCEPT ![t] = {}]
  BY LockersAssumption DEF DestroyStore, Return, Goto, mutexVars, CallKnows
<1>1. UNCHANGED <<wanted, offset, at, found>>
  BY <1>0 DEF scanVars
<1>2. bits' \subseteq bits /\ \A b \in bits : b \in bits' \/ b = idx[t]
  <2>1. bits \intersect ByteOf(0) = byteval[t]
    BY DEF DestroyStore
  <2> QED
    BY <2>1 DEF DestroyStore
<1>3. \A u \in Setters : idx[t] \notin own[u]
  BY <1>0 DEF ClearKnows
<1>4. BitmapInv'
  <2>1. TypeOK'
    <3>1. 0 \in Bits
      BY BitCountPositive DEF Bits
    <3>2. idx' \in [Setters -> Bits] /\ byteval' \in [Setters -> SUBSET Bits]
      BY <1>0, <3>1 DEF BitmapInv, TypeOK
    <3>3. always' \in [Scanners -> SUBSET Bits]
      BY <1>0 DEF BitmapInv, TypeOK
    <3> QED
      BY <1>0, <1>1, <1>2, <3>2, <3>3 DEF BitmapInv, TypeOK
  <2>2. \A s \in Scanners : always'[s] \subseteq always[s] /\ always'[s] \subseteq Match(bits', wanted[s])
    BY <1>0
  <2>3. ScanCorrect' /\ \A s \in Scanners : ScanKnows(s)'
    BY <1>0, <1>1, <2>2 DEF BitmapInv, ScanCorrect, ScanKnows
  <2>4. OwnedAlone'
    BY <1>0, <1>2, <1>3 DEF BitmapInv, OwnedAlone
  <2>5. \A u \in Setters : TryKnows(u)'
    BY <1>0 DEF BitmapInv, TryKnows, TypeOK
  <2> QED
    BY <2>1, <2>3, <2>4, <2>5 DEF BitmapInv
<1>5. LocksApart'
  BY <1>0, <1>4 DEF LocksApart, BitmapInv
<1>6. InsideKnows'
  BY <1>0, <1>1 DEF InsideKnows, Usable, RegistryType
<1>7. \A u \in Lockers : u # t => call'[u] = call[u] /\ idx'[u] = idx[u]
  BY <1>0, LockersAssumption DEF RegistryType, BitmapInv, TypeOK
<1>8. call'[t] = "none"
  BY <1>0 DEF RegistryType
<1>9. \A u \in Lockers : CallKnows(u)'
  BY <1>0, <1>1, <1>7, <1>8 DEF CallKnows
<1>10. \A u \in Lockers : ClearKnows(u)'
  BY <1>0, <1>2, <1>7, <1>8 DEF ClearKnows
<1> QED
  BY <1>4, <1>5, <1>6, <1>9, <1>10

-----------------------------------------------------------------------------
(* The theorem *)

\* Every step keeps the registry's invariant.
LEMMA RegistryInductive == RegistryInv /\ [RegistryNext]_registryVars => RegistryInv'
<1> SUFFICES ASSUME RegistryInv, [RegistryNext]_registryVars PROVE RegistryInv'
  OBVIOUS
<1>1. RegistryType'
  BY RegistryTypeInductive DEF RegistryInv
<1> SUFFICES ASSUME stale' = 0 PROVE Sound'
  BY <1>1 DEF RegistryInv, Sound
<1>2. stale = 0
  BY DEF RegistryInv, RegistryType, RegistryNext, registryVars, LockStep, CreateCall, CreateScan,
     CreateTry, CreateInit, DestroyStore, Acquire, Release, DestroyLoad, CreateElsewhere,
     DestroyElsewhere, history
<1>3. Sound
  BY <1>2 DEF RegistryInv, Sound
<1>4. ASSUME usage' = usage, [AnyStep]_vars, UNCHANGED <<callVars, mutexVars, history>>,
             usage = "direct" \/ UNCHANGED vars
      PROVE  Sound'
  <2>1. BitmapInv'
    BY <1>3, <1>4, BitmapInductive DEF Sound
  <2>2. UNCHANGED <<call, locked, inside>>
    BY <1>4 DEF callVars, mutexVars
  <2>3. LocksApart'
    BY <1>3, <2>1, <2>2 DEF Sound, LocksApart, BitmapInv
  <2>4. CASE usage = "direct"
    <3>1. InsideKnows'
      BY <1>3, <2>2, <2>4 DEF Sound, RegistryType, InsideKnows
    <3> QED
      BY <1>1, <1>4, <2>1, <2>3, <2>4, <3>1 DEF Sound
  <2>5. CASE UNCHANGED vars
    <3>1. UNCHANGED <<bits, own, pc, found, idx>>
      BY <2>5 DEF vars, scanVars, tryVars
    <3>2. InsideKnows'
      BY <1>3, <2>2, <3>1 DEF Sound, InsideKnows, Usable
    <3>3. usage = "locks" => \A t \in Lockers : CallKnows(t)' /\ ClearKnows(t)'
      BY <1>3, <2>2, <3>1 DEF Sound, CallKnows, ClearKnows
    <3> QED
      BY <1>1, <1>4, <2>1, <2>3, <3>2, <3>3 DEF Sound
  <2> QED
    BY <1>4, <2>4, <2>5
<1>5. CASE UNCHANGED registryVars
  BY <1>4, <1>5 DEF registryVars
<1>6. CASE /\ UNCHANGED usage /\ usage = "direct" /\ DirectStep
           /\ UNCHANGED <<callVars, mutexVars, history>>
  <2>1. AnyStep
    BY <1>6, InputAssumption DEF DirectStep, ScanStep, TryStep, AnyStep
  <2> QED
    BY <1>4, <1>6, <2>1
<1>7. ASSUME UNCHANGED usage, usage = "locks", NEW t \in Lockers, LockStep(t)
      PROVE  Sound'
  BY <1>1, <1>3, <1>7, CreateCallSound, CreateScanSound, CreateTrySound, CreateInitSound,
     DestroyStoreSound, HoldSound, DestroyLoadSound, ElsewhereSound DEF LockStep
<1> QED
  BY <1>5, <1>6, <1>7 DEF RegistryNext

\* A lock belongs to the thread whose Create returned it and one thread at a time
\* is inside it (lock.c lines 33-57), for every size of the table, any number of
\* tries and any threads, until a Destroy stores a stale byte.
THEOREM LocksStayApart == RegistrySpec => []LocksApart
<1>1. RegistryInv => LocksApart
  BY DEF RegistryInv, LocksApart
<1> QED
  BY <1>1, RegistryInitial, RegistryInductive, PTL DEF RegistrySpec
-----------------------------------------------------------------------------
(* The scans, and why a Create gives up: whatever Destroy does to the bitmap *)

\* A Create has seen more changes by others than claims it has lost, from the
\* moment the place it has found is no longer what it saw.
Tallied(t) ==
  /\ call[t] = "scan" =>
       /\ others[t] >= tries[t]
       /\ pc[t] = "scan" => wanted[t] = "free" /\ offset[t] = 0
  /\ call[t] = "try" =>
       /\ others[t] >= tries[t]
       /\ pc[t] = "idle" /\ found[t] \in bits => others[t] > tries[t]
       /\ pc[t] = "cas_enable" /\ bits \intersect ByteOf(idx[t]) # byteval[t] =>
            others[t] > tries[t]

CreateInv ==
  /\ RegistryType /\ ScansSound
  /\ tries \in [Lockers -> Nat] /\ others \in [Lockers -> Nat]
  /\ usage = "locks" => \A t \in Lockers : CallKnows(t) /\ Tallied(t)

\* The tallies begin at nothing.
LEMMA CreateInitial == RegistryInit => CreateInv
<1> SUFFICES ASSUME RegistryInit PROVE CreateInv
  OBVIOUS
<1>1. ScansSound
  BY BitmapInit DEF RegistryInit, BitmapInv, ScansSound
<1>2. RegistryType /\ tries \in [Lockers -> Nat] /\ others \in [Lockers -> Nat]
  BY DEF RegistryInit, RegistryType
<1>3. \A t \in Lockers : CallKnows(t) /\ Tallied(t)
  BY LockersAssumption DEF RegistryInit, Init, Threads, CallKnows, Tallied
<1> QED
  BY <1>1, <1>2, <1>3 DEF CreateInv

\* A call in progress stays as it is while others act, as long as it takes note
\* of their changes.
LEMMA TallyKept ==
  ASSUME NEW u \in Lockers, CallKnows(u), Tallied(u),
         call'[u] = call[u], pc'[u] = pc[u], found'[u] = found[u], wanted'[u] = wanted[u],
         offset'[u] = offset[u], idx'[u] = idx[u], byteval'[u] = byteval[u], own'[u] = own[u],
         tries'[u] = tries[u], tries[u] \in Nat, others[u] \in Nat, others'[u] \in Nat,
         others'[u] >= others[u],
         bits' # bits /\ call[u] # "none" => others'[u] > others[u]
  PROVE  CallKnows(u)' /\ Tallied(u)'
<1>1. CallKnows(u)'
  BY DEF CallKnows
<1>2. CASE bits' = bits
  BY <1>1, <1>2 DEF Tallied
<1>3. CASE bits' # bits
  <2>1. call[u] \in {"scan", "try"} => others'[u] > tries[u]
    BY <1>3 DEF Tallied
  <2> QED
    BY <1>1, <2>1 DEF Tallied
<1> QED
  BY <1>2, <1>3

\* A thread's step leaves the others' calls alone; they take note of its changes.
LEMMA TallyOfOthers ==
  ASSUME CreateInv, usage = "locks", NEW t \in Lockers, LockStep(t)
  PROVE  /\ others' \in [Lockers -> Nat]
         /\ \A u \in Lockers : u # t => CallKnows(u)' /\ Tallied(u)'
<1>0. /\ Lockers \subseteq Scanners /\ Lockers \subseteq Setters /\ Lockers \subseteq Threads
      /\ RegistryType /\ TypeOK
      /\ tries \in [Lockers -> Nat] /\ others \in [Lockers -> Nat]
  BY LockersAssumption DEF CreateInv, ScansSound, Threads
<1>1. /\ others' \in [Lockers -> Nat]
      /\ \A u \in Lockers : u # t =>
           /\ others'[u] >= others[u]
           /\ bits' # bits /\ call[u] # "none" => others'[u] > others[u]
  <2>1. CASE Witness(t)
    BY <1>0, <2>1 DEF Witness
  <2>2. CASE UNCHANGED bits /\ UNCHANGED others
    BY <1>0, <2>2
  <2>3. CASE CreateCall(t)
    BY <1>0, <2>3 DEF CreateCall, vars
  <2> QED
    BY <2>1, <2>2, <2>3 DEF LockStep, CreateScan, ScanBegin, ScanChunk, ScanEnd, CreateTry, CreateInit,
       DestroyStore, Acquire, Release, DestroyLoad, CreateElsewhere, DestroyElsewhere, vars, history
<1>2. \A u \in Lockers : u # t =>
        /\ call'[u] = call[u] /\ pc'[u] = pc[u] /\ found'[u] = found[u]
        /\ wanted'[u] = wanted[u] /\ offset'[u] = offset[u] /\ idx'[u] = idx[u]
        /\ byteval'[u] = byteval[u] /\ own'[u] = own[u] /\ tries'[u] = tries[u]
  <2> USE <1>0 DEF TypeOK, RegistryType, vars, scanVars, tryVars, callVars, Goto, Return
  <2>1. CASE CreateCall(t)
    BY <2>1 DEF CreateCall
  <2>2. CASE CreateScan(t)
    <3>1. \A u \in Lockers : u # t =>
            /\ pc'[u] = pc[u] /\ found'[u] = found[u] /\ wanted'[u] = wanted[u]
            /\ offset'[u] = offset[u]
      BY <2>2 DEF CreateScan, ScanBegin, ScanChunk, ScanEnd, ScanReturn
    <3>2. UNCHANGED <<idx, byteval, own, tries>>
      BY <2>2 DEF CreateScan, ScanBegin, ScanChunk, ScanEnd
    <3> QED
      BY <2>2, <3>1, <3>2 DEF CreateScan
  <2>3. CASE CreateTry(t)
    <3>1. \A u \in Lockers : u # t =>
            /\ pc'[u] = pc[u] /\ idx'[u] = idx[u] /\ byteval'[u] = byteval[u] /\ own'[u] = own[u]
      BY <2>3 DEF CreateTry, EnableLoad, TryLoad, EnableAlready, EnableCas, CasLost, TryReturn
    <3>2. UNCHANGED <<found, wanted, offset>>
      BY <2>3 DEF CreateTry, EnableLoad, TryLoad, EnableAlready, EnableCas, CasLost
    <3> QED
      BY <2>3, <3>1, <3>2 DEF CreateTry, Retry
  <2>4. CASE CreateInit(t)
    BY <2>4 DEF CreateInit
  <2>5. CASE DestroyStore(t)
    BY <2>5 DEF DestroyStore
  <2>6. CASE \E i \in Bits : Acquire(t, i) \/ Release(t, i)
    BY <2>6 DEF Acquire, Release
  <2>7. CASE \E i \in Bits : DestroyLoad(t, i)
    BY <2>7 DEF DestroyLoad
  <2>8. CASE CreateElsewhere(t) \/ DestroyElsewhere(t)
    BY <2>8 DEF CreateElsewhere, DestroyElsewhere
  <2> QED
    BY <2>1, <2>2, <2>3, <2>4, <2>5, <2>6, <2>7, <2>8 DEF LockStep
<1>3. ASSUME NEW u \in Lockers, u # t PROVE CallKnows(u)' /\ Tallied(u)'
  <2>1. CallKnows(u) /\ Tallied(u)
    BY DEF CreateInv
  <2> QED
    BY <1>0, <1>1, <1>2, <1>3, <2>1, TallyKept
<1> QED
  BY <1>1, <1>3

\* The step of a lock's caller keeps the scans correct.
LEMMA LockStepScans ==
  ASSUME CreateInv, usage = "locks", NEW t \in Lockers, LockStep(t)
  PROVE  ScansSound'
<1>0. t \in Scanners /\ t \in Setters /\ RegistryType /\ ScansSound /\ CallKnows(t)
  BY LockersAssumption DEF CreateInv
<1>1. CASE CreateScan(t)
  <2>1. AnyStep
    BY <1>0, <1>1 DEF CreateScan, AnyStep
  <2> QED
    BY <1>0, <2>1, ScansInductive
<1>2. CASE CreateTry(t)
  <2>1. found[t] \in Bits
    BY <1>0, <1>2 DEF CreateTry, CallKnows
  <2>2. AnyStep
    BY <1>0, <1>2, <2>1 DEF CreateTry, AnyStep
  <2> QED
    BY <1>0, <2>2, ScansInductive
<1>3. CASE \/ CreateCall(t) \/ CreateInit(t) \/ CreateElsewhere(t) \/ DestroyElsewhere(t)
           \/ \E i \in Bits : Acquire(t, i) \/ Release(t, i)
  <2>1. UNCHANGED vars
    BY <1>3 DEF CreateCall, CreateInit, CreateElsewhere, DestroyElsewhere, Acquire, Release
  <2> QED
    BY <1>0, <2>1, ScansInductive
<1>4. ASSUME NEW i \in Bits, DestroyLoad(t, i) PROVE ScansSound'
  <2>1. UNCHANGED <<bits, pc, scanVars, ret, always>> /\ own' = [own EXCEPT ![t] = @ \ {i}]
    BY <1>4 DEF DestroyLoad
  <2>2. idx' \in [Setters -> Bits] /\ byteval' \in [Setters -> SUBSET Bits]
    BY <1>0, <1>4 DEF DestroyLoad, ScansSound, TypeOK
  <2>3. own' \in [Setters -> SUBSET Bits]
    BY <1>0, <2>1 DEF ScansSound, TypeOK
  <2>4. UNCHANGED <<bits, pc, wanted, offset, at, found, ret, always>>
    BY <2>1 DEF scanVars
  <2>5. TypeOK'
    BY <1>0, <2>2, <2>3, <2>4 DEF ScansSound, TypeOK
  <2> QED
    BY <1>0, <2>4, <2>5 DEF ScansSound, ScanCorrect, ScanKnows
<1>5. CASE DestroyStore(t)
  <2>1. /\ UNCHANGED <<pc, scanVars, ret, own>>
        /\ always' = [s \in Scanners |-> always[s] \intersect Match(bits', wanted[s])]
        /\ idx' = [idx EXCEPT ![t] = 0] /\ byteval' = [byteval EXCEPT ![t] = {}]
    BY <1>5 DEF DestroyStore
  <2>2. UNCHANGED <<pc, wanted, offset, at, found, ret, own>>
    BY <2>1 DEF scanVars
  <2>3. bits' \subseteq Bits
    BY <1>0, <1>5 DEF DestroyStore, ScansSound, TypeOK
  <2>4. idx' \in [Setters -> Bits] /\ byteval' \in [Setters -> SUBSET Bits]
    <3>1. 0 \in Bits
      BY BitCountPositive DEF Bits
    <3> QED
      BY <1>0, <2>1, <3>1 DEF ScansSound, TypeOK
  <2>5. always' \in [Scanners -> SUBSET Bits]
    BY <1>0, <2>1 DEF ScansSound, TypeOK
  <2>6. TypeOK'
    BY <1>0, <2>2, <2>3, <2>4, <2>5 DEF ScansSound, TypeOK
  <2>7. \A s \in Scanners : always'[s] \subseteq always[s] /\ always'[s] \subseteq Match(bits', wanted[s])
    BY <2>1
  <2> QED
    BY <1>0, <2>2, <2>6, <2>7 DEF ScansSound, ScanCorrect, ScanKnows
<1> QED
  BY <1>1, <1>2, <1>3, <1>4, <1>5 DEF LockStep

\* What Create's scan leaves behind: the place it returns was free when it saw it.
LEMMA ScanStepTells ==
  ASSUME CreateInv, usage = "locks", NEW t \in Lockers, CreateScan(t)
  PROVE  /\ call[t] = "scan" /\ UNCHANGED <<bits, idx, byteval, own, tries, others>>
         /\ \/ /\ call'[t] = "scan" /\ pc'[t] = "scan"
               /\ wanted'[t] = "free" /\ offset'[t] = 0
            \/ /\ call'[t] = "none" /\ pc'[t] = "idle" /\ found'[t] = -1 /\ offset'[t] = 0
            \/ /\ call'[t] = "try" /\ pc'[t] = "idle" /\ found'[t] # -1 /\ found'[t] \notin bits
<1>0. /\ t \in Scanners /\ t \in Threads /\ call[t] = "scan"
      /\ RegistryType /\ TypeOK /\ CallKnows(t) /\ Tallied(t) /\ ScanKnows(t)
  BY LockersAssumption DEF CreateScan, CreateInv, ScansSound, Threads
<1>1. UNCHANGED <<bits, idx, byteval, own, tries, others>>
  BY DEF CreateScan, ScanBegin, ScanChunk, ScanEnd, tryVars, history
<1>2. \/ call'[t] = "scan" /\ pc'[t] = "scan"
      \/ call'[t] = "none" /\ pc'[t] = "idle" /\ found'[t] = -1
      \/ call'[t] = "try" /\ pc'[t] = "idle" /\ found'[t] # -1
  BY <1>0 DEF CreateScan, Goto, Return, RegistryType
<1>3. wanted'[t] = "free" /\ offset'[t] = 0
  BY <1>0 DEF CreateScan, ScanBegin, ScanChunk, ScanEnd, Tallied, TypeOK
<1>4. ASSUME pc'[t] = "idle", found'[t] # -1 PROVE found'[t] \notin bits
  <2>1. CASE ScanBegin(t, "free", 0)
    <3> DEFINE hits == Hits(bits, "free", 0, ByteStart(0) + WordBits)
    <3>1. hits # {} /\ found'[t] = Min(hits)
      BY <1>0, <1>4, <2>1 DEF ScanBegin, ScanReturn, TypeOK
    <3>2. ByteStart(0) + WordBits \in Nat /\ ByteStart(0) + WordBits <= BitCount
      <4>1. PICK i \in 0 .. ByteCount : ByteStart(0) + WordBits = i * WordBits
        BY BitCountPositive, ByteStartPlace
      <4>2. i * WordBits \in Nat /\ i * WordBits <= BitCount
        BY SizeAssumption, BytePlace
      <4> QED
        BY <4>1, <4>2
    <3>3. hits \subseteq Match(bits, "free") /\ hits \subseteq Nat
      BY <3>2, HitsType
    <3>4. Min(hits) \in hits
      BY <3>1, <3>3, MinOfBits
    <3> QED
      BY <3>1, <3>3, <3>4 DEF Match
  <2>2. CASE ScanChunk(t)
    <3> DEFINE next == at[t] + Stride(at[t])
               hits == Hits(bits, wanted[t], at[t], next)
    <3>1. hits # {} /\ found'[t] = Min(hits)
      BY <1>0, <1>4, <2>2 DEF ScanChunk, ScanReturn, TypeOK
    <3>2. /\ at[t] \in Nat /\ next \in Nat /\ next <= BitCount
          /\ wanted[t] \in {"free", "taken"}
      <4>1. at[t] \in Nat /\ at[t] < BitCount /\ wanted[t] \in {"free", "taken"}
        BY <1>0, <2>2 DEF ScanChunk, TypeOK
      <4>2. PICK i \in 0 .. ByteCount : at[t] = i * WordBits
        BY <1>0, <2>2 DEF ScanChunk, ScanKnows
      <4>3. Stride(at[t]) \in Nat /\ next <= BitCount
        BY <4>1, <4>2, StrideType
      <4> QED
        BY <4>1, <4>3
    <3>3. hits \subseteq Match(bits, wanted[t]) /\ hits \subseteq Nat
      <4> HIDE DEF next
      <4> QED BY <3>2, HitsType
    <3>4. Min(hits) \in hits
      BY <3>1, <3>3, MinOfBits
    <3>5. wanted[t] = "free"
      BY <1>0, <2>2 DEF ScanChunk, Tallied
    <3> QED
      BY <3>1, <3>3, <3>4, <3>5 DEF Match
  <2>3. CASE ScanEnd(t)
    BY <1>0, <1>4, <2>3 DEF ScanEnd, ScanReturn, TypeOK
  <2> QED
    BY <2>1, <2>2, <2>3 DEF CreateScan
<1> QED
  BY <1>0, <1>1, <1>2, <1>3, <1>4

\* What a step of Create's claim leaves behind: it is lost only after a change
\* that the tally has counted.
LEMMA TryStepTells ==
  ASSUME CreateInv, usage = "locks", NEW t \in Lockers, CreateTry(t)
  PROVE  /\ call[t] = "try" /\ UNCHANGED found /\ others'[t] = others[t]
         /\ \/ /\ call'[t] = "try" /\ pc'[t] = "cas_enable" /\ idx'[t] = found[t]
               /\ tries'[t] = tries[t] /\ bits' \intersect ByteOf(idx'[t]) = byteval'[t]
            \/ /\ call'[t] = "init" /\ pc'[t] = "idle" /\ found[t] \in own'[t]
               /\ tries'[t] = tries[t]
            \/ /\ call'[t] = "scan" /\ pc'[t] = "idle" /\ tries'[t] = tries[t] + 1
               /\ others[t] >= tries'[t]
            \/ /\ call'[t] = "none" /\ pc'[t] = "idle" /\ tries'[t] >= Tries
               /\ tries'[t] = tries[t] + 1 /\ others[t] >= tries'[t]
<1>0. /\ t \in Setters /\ t \in Threads /\ call[t] = "try"
      /\ RegistryType /\ TypeOK /\ CallKnows(t) /\ Tallied(t)
      /\ tries \in [Lockers -> Nat] /\ others \in [Lockers -> Nat] /\ found[t] \in Bits
  BY LockersAssumption DEF CreateTry, CreateInv, ScansSound, Threads, CallKnows
<1>1. UNCHANGED found /\ others'[t] = others[t]
  BY <1>0 DEF CreateTry, Witness, EnableLoad, TryLoad, EnableAlready, EnableCas, CasLost, scanVars
<1>2. CASE EnableLoad(t, found[t])
  <2>1. /\ pc'[t] = "cas_enable" /\ ret'[t] = "none" /\ idx'[t] = found[t] /\ bits' = bits
        /\ byteval'[t] = bits \intersect ByteOf(found[t])
    BY <1>0, <1>2 DEF EnableLoad, TryLoad, TypeOK
  <2>2. UNCHANGED <<call, tries>>
    BY <2>1 DEF CreateTry
  <2> QED
    BY <1>0, <1>1, <2>1, <2>2
<1>3. CASE EnableCas(t)
  <2>1. pc'[t] = "idle" /\ ret'[t] = "SUCCESS" /\ own'[t] = own[t] \union {found[t]}
    BY <1>0, <1>3 DEF EnableCas, TryReturn, TypeOK, CallKnows
  <2>2. call'[t] = "init" /\ tries'[t] = tries[t]
    BY <1>0, <2>1 DEF CreateTry, Goto, RegistryType
  <2> QED
    BY <1>0, <1>1, <2>1, <2>2
<1>4. CASE EnableAlready(t, found[t]) \/ CasLost(t)
  <2>1. pc'[t] = "idle" /\ ret'[t] \in {"ALROP", "INVOP"}
    BY <1>0, <1>4 DEF EnableAlready, CasLost, TryReturn, TypeOK
  <2>2. others[t] > tries[t]
    BY <1>0, <1>4 DEF EnableAlready, CasLost, Tallied, CallKnows
  <2>3. /\ tries' = [tries EXCEPT ![t] = @ + 1]
        /\ IF tries'[t] < Tries THEN Retry(t) ELSE Return(t, "OVERFLOW")
    BY <2>1 DEF CreateTry
  <2>4. tries'[t] = tries[t] + 1 /\ tries'[t] \in Nat /\ others[t] >= tries'[t]
    BY <1>0, <2>2, <2>3
  <2>5. \/ call'[t] = "scan"
        \/ call'[t] = "none" /\ tries'[t] >= Tries
    BY <1>0, <2>3, <2>4, BoundAssumption DEF Retry, Return, Goto, RegistryType
  <2> QED
    BY <1>0, <1>1, <2>1, <2>4, <2>5
<1> QED
  BY <1>2, <1>3, <1>4 DEF CreateTry

\* A thread's own step keeps its tally.
LEMMA TallyOfOwn ==
  ASSUME CreateInv, usage = "locks", NEW t \in Lockers, LockStep(t), RegistryType', ScansSound'
  PROVE  tries' \in [Lockers -> Nat] /\ CallKnows(t)' /\ Tallied(t)'
<1>0. /\ t \in Scanners /\ t \in Setters /\ t \in Threads
      /\ RegistryType /\ TypeOK /\ CallKnows(t) /\ Tallied(t)
      /\ tries \in [Lockers -> Nat] /\ others \in [Lockers -> Nat]
  BY LockersAssumption DEF CreateInv, ScansSound, Threads
<1>1. tries' \in [Lockers -> Nat]
  BY <1>0 DEF LockStep, CreateCall, CreateScan, CreateTry, CreateInit, DestroyStore, Acquire,
     Release, DestroyLoad, CreateElsewhere, DestroyElsewhere, callVars
<1>2. CASE CreateCall(t)
  <2>1. /\ call'[t] = "scan" /\ tries'[t] = 0 /\ others'[t] = 0 /\ pc'[t] = "idle"
    BY <1>0, <1>2 DEF CreateCall, Goto, vars, CallKnows, RegistryType
  <2> QED
    BY <1>1, <2>1 DEF CallKnows, Tallied
<1>3. CASE CreateScan(t)
  <2>1. found'[t] \in Bits \union {-1}
    BY <1>0 DEF ScansSound, TypeOK
  <2> QED
    BY <1>0, <1>1, <1>3, <2>1, ScanStepTells DEF CallKnows, Tallied
<1>4. CASE CreateTry(t)
  <2>1. found[t] \in Bits /\ others[t] >= tries[t]
    BY <1>0, <1>4 DEF CreateTry, CallKnows, Tallied
  <2> QED
    BY <1>0, <1>1, <1>4, <2>1, TryStepTells DEF CallKnows, Tallied
<1>5. CASE \/ CreateInit(t) \/ DestroyStore(t) \/ CreateElsewhere(t) \/ DestroyElsewhere(t)
           \/ \E i \in Bits : Acquire(t, i) \/ Release(t, i) \/ DestroyLoad(t, i)
  <2>1. call[t] \in {"none", "init", "clear"} /\ call'[t] \in {"none", "clear"} /\ pc'[t] = pc[t]
    BY <1>0, <1>5 DEF CreateInit, DestroyStore, CreateElsewhere, DestroyElsewhere, Acquire, Release,
       DestroyLoad, Goto, Return, vars, callVars, RegistryType
  <2> QED
    BY <1>0, <1>1, <2>1 DEF CallKnows, Tallied
<1> QED
  BY <1>2, <1>3, <1>4, <1>5 DEF LockStep

\* Every step keeps the tallies and the scans.
LEMMA CreateInductive == CreateInv /\ [RegistryNext]_registryVars => CreateInv'
<1> SUFFICES ASSUME CreateInv, [RegistryNext]_registryVars PROVE CreateInv'
  OBVIOUS
<1>1. RegistryType'
  BY RegistryTypeInductive DEF CreateInv
<1>2. CASE UNCHANGED registryVars
  <2>1. UNCHANGED vars /\ ScansSound
    BY <1>2 DEF registryVars, CreateInv
  <2>2. ScansSound'
    BY <2>1, ScansInductive
  <2>3. UNCHANGED <<usage, call, tries, others, pc, found, wanted, offset, idx, byteval, own, bits>>
    BY <1>2 DEF registryVars, vars, callVars, history, scanVars, tryVars
  <2> QED
    BY <1>1, <2>2, <2>3 DEF CreateInv, CallKnows, Tallied
<1>3. CASE /\ UNCHANGED usage /\ usage = "direct" /\ DirectStep
           /\ UNCHANGED <<callVars, mutexVars, history>>
  <2>1. AnyStep
    BY <1>3, InputAssumption DEF DirectStep, ScanStep, TryStep, AnyStep
  <2>2. ScansSound'
    BY <2>1, ScansInductive DEF CreateInv
  <2>3. UNCHANGED <<tries, others>> /\ usage' # "locks"
    BY <1>3 DEF callVars, history
  <2> QED
    BY <1>1, <2>2, <2>3 DEF CreateInv
<1>4. ASSUME UNCHANGED usage, usage = "locks", NEW t \in Lockers, LockStep(t)
      PROVE  CreateInv'
  <2>1. ScansSound'
    BY <1>4, LockStepScans
  <2>2. tries' \in [Lockers -> Nat] /\ CallKnows(t)' /\ Tallied(t)'
    BY <1>1, <1>4, <2>1, TallyOfOwn
  <2>3. others' \in [Lockers -> Nat] /\ \A u \in Lockers : u # t => CallKnows(u)' /\ Tallied(u)'
    BY <1>4, TallyOfOthers
  <2> QED
    BY <1>1, <2>1, <2>2, <2>3 DEF CreateInv
<1> QED
  BY <1>2, <1>3, <1>4 DEF RegistryNext

\* CreateInv holds in every state.
LEMMA CreateInvariant == RegistrySpec => []CreateInv
BY CreateInitial, CreateInductive, PTL DEF RegistrySpec

\* No bit beyond the bitmap is ever set, returned or claimed, whatever the memory
\* after it holds, by callers of the bitmap or by the registry's Create and Destroy (lock.c lines 33-66), for every
\* size of the bitmap.
THEOREM RegistryTypeCorrect == RegistrySpec => []TypeOK
<1>1. CreateInv => TypeOK
  BY DEF CreateInv, ScansSound
<1> QED
  BY <1>1, CreateInvariant, PTL

\* The scans of atomicbitmap.c are correct whatever is done to the bitmap under
\* them, the stale bytes that lock.c's Destroy stores included.
THEOREM RegistryScansCorrect == RegistrySpec => []ScanCorrect
<1>1. CreateInv => ScanCorrect
  BY DEF CreateInv, ScansSound
<1> QED
  BY <1>1, CreateInvariant, PTL

\* The only accesses of Create that report an overflow: the end of a scan that
\* found nothing, and the last of the claims.
LEMMA OverflowEarned ==
  ASSUME CreateInv, CreateInv', RegistryNext, NEW t \in Lockers,
         call[t] \in {"scan", "try"}, call'[t] = "none", result'[t] = "OVERFLOW"
  PROVE  \/ found'[t] = -1 /\ always'[t] = {}
         \/ others'[t] >= Tries
<1>0. RegistryType /\ CallKnows(t)
  BY DEF CreateInv, RegistryType
<1>1. usage = "locks"
  BY <1>0 DEF RegistryType
<1>2. PICK u \in Lockers : LockStep(u)
  BY <1>1 DEF RegistryNext
<1>3. CASE CreateScan(t)
  <2>1. call'[t] = "none" /\ pc'[t] = "idle" /\ found'[t] = -1 /\ offset'[t] = 0
    BY <1>1, <1>3, ScanStepTells
  <2>2. t \in Scanners /\ ScanCorrect' /\ always'[t] \subseteq Nat
    BY LockersAssumption, BitCountPositive DEF CreateInv, ScansSound, TypeOK, Bits
  <2>3. always'[t] = {}
    BY <2>1, <2>2 DEF ScanCorrect
  <2> QED
    BY <2>1, <2>3
<1>4. CASE CreateTry(t)
  <2>1. /\ others'[t] = others[t] /\ tries'[t] >= Tries /\ others[t] >= tries'[t]
        /\ tries'[t] \in Nat /\ others[t] \in Nat
    BY <1>1, <1>4, TryStepTells DEF CreateInv
  <2> QED
    BY <2>1, BoundAssumption
<1>5. u = t
  BY <1>0, <1>2 DEF LockStep, CreateCall, CreateScan, CreateTry, CreateInit, DestroyStore, Acquire,
     Release, DestroyLoad, CreateElsewhere, DestroyElsewhere, Retry, Goto, Return, callVars,
     RegistryType
<1>6. CreateScan(t) \/ CreateTry(t)
  BY <1>2, <1>5 DEF LockStep, CreateCall, CreateInit, DestroyStore, Acquire, Release, DestroyLoad,
     CreateElsewhere, DestroyElsewhere
<1> QED
  BY <1>3, <1>4, <1>6

\* A Create that reports MCMPST_OVERFLOW (lock.c line 46) has met a full table or
\* has lost each of its tries to a change by another thread, for every size of the
\* table, any number of tries and any threads, whatever Destroy does meanwhile.
THEOREM OverflowIsAlwaysEarned == RegistrySpec => OverflowIsEarned
<1>1. CreateInv /\ CreateInv' /\ [RegistryNext]_registryVars =>
        [\A t \in Lockers :
           call[t] \in {"scan", "try"} /\ call'[t] = "none" /\ result'[t] = "OVERFLOW" =>
             \/ found'[t] = -1 /\ always'[t] = {}
             \/ others'[t] >= Tries]_registryVars
  BY OverflowEarned
<1> QED
  BY <1>1, CreateInvariant, PTL DEF RegistrySpec, OverflowIsEarned

=============================================================================
