---------------------------- MODULE AtomicBitmap ----------------------------
(***************************************************************************)
(* The shared bitmap of utilities/src/common/atomicbitmap.c.  Scanners     *)
(* look for the next free (NextAvaibleBit) or taken (NextOccupiedBit) bit  *)
(* one load at a time, while setters turn bits on and off with one         *)
(* compare-and-swap of a byte per call.  One action is one atomic access.  *)
(*                                                                         *)
(* A position of a scan is counted in bits: at = 8 * i for the i of the C  *)
(* code.  own and always are history variables: what a setter has enabled  *)
(* and not disabled again, and which bits have looked the way a scan wants *)
(* them ever since it began.                                               *)
(***************************************************************************)
EXTENDS Integers, FiniteSets, FiniteSetsExt

CONSTANTS
  Scanners, Setters, \* threads that call the scans, and the Try functions
  ByteCount,         \* the len of the scans
  WordBits,          \* bits of a byte (8 in the code)
  Offsets,           \* the offsets callers scan from
  Indices,           \* the bits callers enable and disable
  InitialBitmaps,    \* what the caller's memory may hold at first
  Beyond             \* the set bits of the memory after the bitmap

BitCount == ByteCount * WordBits
Bits     == 0 .. BitCount - 1

ASSUME SizeAssumption == ByteCount \in Nat \ {0} /\ WordBits \in Nat \ {0}
ASSUME InputAssumption ==
  /\ Offsets \subseteq Nat /\ Indices \subseteq Bits
  /\ InitialBitmaps \subseteq SUBSET Bits
  /\ Beyond \subseteq Nat \ Bits

VARIABLES
  bits,            \* the enabled bits
  pc,
  wanted, offset,  \* of a scan: "free" or "taken" bits, and from which one on
  at,              \* of a scan: the first bit not loaded yet
  found,           \* of a scan: the result, -1 when there is none
  idx, byteval,    \* of a try: its argument and its copy of the byte
  ret,             \* of a try: its status
  own, always      \* history

scanVars == <<wanted, offset, at, found>>
tryVars  == <<idx, byteval, ret>>
vars     == <<bits, pc, scanVars, tryVars, own, always>>

Threads == Scanners \union Setters

\* The byte of bit b begins at ByteStart(b).
ByteStart(b) == b - (b % WordBits)
ByteOf(b)    == ByteStart(b) .. ByteStart(b) + WordBits - 1

\* The bits of the bitmap a scan may return.
Match(map, kind) == IF kind = "free" THEN Bits \ map ELSE map \intersect Bits

Init ==
  /\ bits \in InitialBitmaps
  /\ pc = [t \in Threads |-> "idle"]
  /\ wanted = [s \in Scanners |-> "free"]
  /\ offset = [s \in Scanners |-> 0]
  /\ at = [s \in Scanners |-> 0]
  /\ found = [s \in Scanners |-> -1]
  /\ idx = [t \in Setters |-> 0]
  /\ byteval = [t \in Setters |-> {}]
  /\ ret = [t \in Setters |-> "none"]
  /\ own = [t \in Setters |-> {}]
  /\ always = [s \in Scanners |-> {}]

-----------------------------------------------------------------------------
(* mcmpAtomicBitmapNextAvaibleBit and mcmpAtomicBitmapNextOccupiedBit *)

\* Mutant: the loop of two bytes runs to the end of the bitmap.
BadStride(p) ==
  CASE p + 8 * WordBits < BitCount -> 8 * WordBits
    [] p + 8 * WordBits >= BitCount /\ p + 4 * WordBits < BitCount -> 4 * WordBits
    [] OTHER -> 2 * WordBits

\* How many bits the scan loads at once at position p: eight, four or two bytes
\* while that leaves at least one byte of the bitmap, and then single bytes.
Stride(p) ==
  CASE p + 8 * WordBits < BitCount -> 8 * WordBits
    [] p + 8 * WordBits >= BitCount /\ p + 4 * WordBits < BitCount -> 4 * WordBits
    [] p + 4 * WordBits >= BitCount /\ p + 2 * WordBits < BitCount -> 2 * WordBits
    [] OTHER -> WordBits

\* The bits from lo up to hi, excluded, that a scan of this kind stops at.  They
\* are bits of the memory, whether they belong to the bitmap or not.
Hits(map, kind, lo, hi) ==
  {p \in lo .. hi - 1 : p \in map \union Beyond <=> kind = "taken"}

ScanReturn(s, result) ==
  /\ found' = [found EXCEPT ![s] = result]
  /\ pc' = [pc EXCEPT ![s] = "idle"]

\* Lines 24-26 and 65-67: an offset beyond the bitmap.
ScanBeyond(s, kind, off) ==
  /\ pc[s] = "idle"
  /\ off >= BitCount
  /\ wanted' = [wanted EXCEPT ![s] = kind]
  /\ offset' = [offset EXCEPT ![s] = off]
  /\ at' = [at EXCEPT ![s] = off]
  /\ always' = [always EXCEPT ![s] = Match(bits, kind)]
  /\ ScanReturn(s, -1)
  /\ UNCHANGED <<bits, tryVars, own>>

\* Mutant: the bits below the offset are not masked out.
BadScanBegin(s, kind, off) ==
  LET next == ByteStart(off) + WordBits
      hits == Hits(bits, kind, ByteStart(off), next)
  IN  /\ pc[s] = "idle"
      /\ off < BitCount
      /\ wanted' = [wanted EXCEPT ![s] = kind]
      /\ offset' = [offset EXCEPT ![s] = off]
      /\ at' = [at EXCEPT ![s] = next]
      /\ always' = [always EXCEPT ![s] = Match(bits, kind)]
      /\ \/ hits # {} /\ ScanReturn(s, Min(hits))
         \/ hits = {} /\ pc' = [pc EXCEPT ![s] = "scan"] /\ UNCHANGED found
      /\ UNCHANGED <<bits, tryVars, own>>

\* The first byte, with the bits below the offset masked out.
ScanBegin(s, kind, off) ==
  LET next == ByteStart(off) + WordBits
      hits == Hits(bits, kind, off, next)
  IN  /\ pc[s] = "idle"
      /\ off < BitCount
      /\ wanted' = [wanted EXCEPT ![s] = kind]
      /\ offset' = [offset EXCEPT ![s] = off]
      /\ at' = [at EXCEPT ![s] = next]
      /\ always' = [always EXCEPT ![s] = Match(bits, kind)]
      /\ \/ hits # {} /\ ScanReturn(s, Min(hits))
         \/ hits = {} /\ pc' = [pc EXCEPT ![s] = "scan"] /\ UNCHANGED found
      /\ UNCHANGED <<bits, tryVars, own>>

\* One turn of one of the four loops.
ScanChunk(s) ==
  LET next == at[s] + Stride(at[s])
      hits == Hits(bits, wanted[s], at[s], next)
  IN  /\ pc[s] = "scan"
      /\ at[s] < BitCount
      /\ \/ hits # {} /\ ScanReturn(s, Min(hits)) /\ UNCHANGED at
         \/ hits = {} /\ at' = [at EXCEPT ![s] = next] /\ UNCHANGED <<pc, found>>
      /\ UNCHANGED <<bits, wanted, offset, tryVars, own, always>>

ScanEnd(s) ==
  /\ pc[s] = "scan"
  /\ at[s] >= BitCount
  /\ ScanReturn(s, -1)
  /\ UNCHANGED <<bits, wanted, offset, at, tryVars, own, always>>

-----------------------------------------------------------------------------
(* mcmpAtomicBitmapTryEnableBit and mcmpAtomicBitmapTryDisableBit *)

TryReturn(t, status) ==
  /\ ret' = [ret EXCEPT ![t] = status]
  /\ pc' = [pc EXCEPT ![t] = "idle"]
  /\ idx' = [idx EXCEPT ![t] = 0]
  /\ byteval' = [byteval EXCEPT ![t] = {}]

TryLoad(t, i, state) ==
  /\ pc[t] = "idle"
  /\ idx' = [idx EXCEPT ![t] = i]
  /\ byteval' = [byteval EXCEPT ![t] = bits \intersect ByteOf(i)]
  /\ ret' = [ret EXCEPT ![t] = "none"]
  /\ pc' = [pc EXCEPT ![t] = state]
  /\ UNCHANGED <<bits, scanVars, own, always>>

\* Mutant: a plain store of the byte.
BadCasByte(t, nextval) ==
  /\ bits' = (bits \ ByteOf(idx[t])) \union nextval
  /\ always' = [s \in Scanners |-> always[s] \intersect Match(bits', wanted[s])]

\* The compare-and-swap of the byte of idx: it stores the whole byte.
CasByte(t, nextval) ==
  /\ bits \intersect ByteOf(idx[t]) = byteval[t]
  /\ bits' = (bits \ ByteOf(idx[t])) \union nextval
  /\ always' = [s \in Scanners |-> always[s] \intersect Match(bits', wanted[s])]

CasLost(t) ==
  /\ pc[t] \in {"cas_enable", "cas_disable"}
  /\ bits \intersect ByteOf(idx[t]) # byteval[t]
  /\ TryReturn(t, "INVOP")
  /\ UNCHANGED <<bits, scanVars, own, always>>

EnableLoad(t, i) == i \notin bits /\ TryLoad(t, i, "cas_enable")

EnableAlready(t, i) ==
  /\ pc[t] = "idle"
  /\ i \in bits
  /\ TryReturn(t, "ALROP")
  /\ UNCHANGED <<bits, scanVars, own, always>>

EnableCas(t) ==
  /\ pc[t] = "cas_enable"
  /\ CasByte(t, byteval[t] \union {idx[t]})
  /\ own' = [own EXCEPT ![t] = @ \union {idx[t]}]
  /\ TryReturn(t, "SUCCESS")
  /\ UNCHANGED scanVars

\* The test of line 129 never holds: a bit that is clear already is cleared
\* again and reported as MCMPST_SUCCESS.  A caller disables a bit that it has
\* enabled, or one that is clear.
DisableLoad(t, i) ==
  /\ i \in own[t] \/ i \notin bits
  /\ TryLoad(t, i, "cas_disable")

DisableCas(t) ==
  /\ pc[t] = "cas_disable"
  /\ CasByte(t, byteval[t] \ {idx[t]})
  /\ own' = [own EXCEPT ![t] = @ \ {idx[t]}]
  /\ TryReturn(t, "SUCCESS")
  /\ UNCHANGED scanVars

-----------------------------------------------------------------------------
ScanStep(s) ==
  \/ ScanChunk(s) \/ ScanEnd(s)
  \/ \E kind \in {"free", "taken"}, off \in Offsets :
       ScanBeyond(s, kind, off) \/ ScanBegin(s, kind, off)

TryStep(t) ==
  \/ EnableCas(t) \/ DisableCas(t) \/ CasLost(t)
  \/ \E i \in Indices : EnableLoad(t, i) \/ EnableAlready(t, i) \/ DisableLoad(t, i)

Next == (\E s \in Scanners : ScanStep(s)) \/ (\E t \in Setters : TryStep(t))

Spec == Init /\ [][Next]_vars

-----------------------------------------------------------------------------
(* Properties *)

\* Every variable has its type; in particular a scan returns a bit of the bitmap,
\* whatever the memory after it holds.
TypeOK ==
  /\ bits \subseteq Bits
  /\ pc \in [Threads -> {"idle", "scan", "cas_enable", "cas_disable"}]
  /\ wanted \in [Scanners -> {"free", "taken"}]
  /\ offset \in [Scanners -> Nat] /\ at \in [Scanners -> Nat]
  /\ found \in [Scanners -> Bits \union {-1}]
  /\ idx \in [Setters -> Bits]
  /\ byteval \in [Setters -> SUBSET Bits]
  /\ ret \in [Setters -> {"none", "SUCCESS", "ALROP", "INVOP"}]
  /\ own \in [Setters -> SUBSET Bits]
  /\ always \in [Scanners -> SUBSET Bits]

\* A scan returns no bit below its offset, and misses no bit that was free (or
\* taken) all the while it ran, however the bitmap changed under it: not below
\* the bit it returns, nor anywhere when it returns -1, nor behind the position
\* it has reached.
ScanCorrect ==
  \A s \in Scanners :
    /\ pc[s] # "scan" /\ found[s] # -1 => found[s] >= offset[s]
    /\ \A b \in always[s] :
         b >= offset[s] =>
           IF pc[s] = "scan" THEN b >= at[s] ELSE found[s] # -1 /\ b >= found[s]

\* A bit that TryEnable has handed to a thread is set and belongs to that thread
\* alone until the thread disables it: a compare-and-swap of the whole byte by
\* another thread undoes neither.
OwnedAlone ==
  /\ \A t \in Setters : own[t] \subseteq bits
  /\ \A t, u \in Setters : t # u => own[t] \intersect own[u] = {}

-----------------------------------------------------------------------------
(* The two are inductive together with what the calls in progress know *)

ScanKnows(s) ==
  /\ always[s] \subseteq Match(bits, wanted[s])
  /\ pc[s] = "scan" =>
       at[s] >= offset[s] /\ \E i \in 0 .. ByteCount : at[s] = i * WordBits

TryKnows(t) ==
  /\ pc[t] \in {"cas_enable", "cas_disable"} => byteval[t] \subseteq ByteOf(idx[t])
  /\ pc[t] = "cas_enable" => idx[t] \notin byteval[t]
  /\ pc[t] = "cas_disable" => idx[t] \in own[t] \/ idx[t] \notin byteval[t]

BitmapInv ==
  /\ TypeOK /\ ScanCorrect /\ OwnedAlone
  /\ \A s \in Scanners : ScanKnows(s)
  /\ \A t \in Setters : TryKnows(t)
=============================================================================
