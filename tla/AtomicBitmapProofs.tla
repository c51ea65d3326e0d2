------------------------- MODULE AtomicBitmapProofs -------------------------
(***************************************************************************)
(* The scans and the Try functions of atomicbitmap.c are correct for every *)
(* size of the bitmap, any threads and any interleaving.                   *)
(***************************************************************************)
EXTENDS AtomicBitmap, WellFoundedInduction, TLAPS

\* A bitmap has at least one bit.
LEMMA BitCountPositive == BitCount \in Nat \ {0}
BY SizeAssumption DEF BitCount

\* The smallest of the bits a load has hit.
LEMMA MinOfBits ==
  ASSUME NEW S \in SUBSET Nat, S # {}
  PROVE  Min(S) \in S /\ \A b \in S : Min(S) <= b
<1>1. PICK x \in S : \A y \in S : ~ (<<y, x>> \in OpToRel(<, Nat))
  BY NatLessThanWellFounded, WFMin
<1>2. ASSUME NEW y \in S, y < x PROVE FALSE
  <2>1. <<y, x>> \in OpToRel(<, Nat)
    BY <1>2 DEF OpToRel
  <2> QED
    BY <1>1, <2>1
<1>3. \A y \in S : x <= y
  BY <1>2
<1> QED
  BY <1>3 DEF Min

\* What a load hits that does not go beyond the end are bits of the bitmap that
\* look the wanted way.
LEMMA HitsType ==
  ASSUME NEW map, NEW kind \in {"free", "taken"}, NEW lo \in Nat, NEW hi \in Nat, hi <= BitCount
  PROVE  /\ Hits(map, kind, lo, hi) \subseteq Match(map, kind)
         /\ Match(map, kind) \subseteq Bits /\ Bits \subseteq Nat
         /\ \A b \in Hits(map, kind, lo, hi) : lo <= b /\ b < hi
         /\ \A b \in Match(map, kind) : lo <= b /\ b < hi => b \in Hits(map, kind, lo, hi)
<1>1. Bits \subseteq Nat /\ \A b \in lo .. hi - 1 : b \in Bits /\ b \notin Beyond
  BY BitCountPositive, InputAssumption DEF Bits
<1>2. \A b \in lo .. hi - 1 : b \in Hits(map, kind, lo, hi) <=> b \in Match(map, kind)
  BY <1>1 DEF Hits, Match
<1>3. Hits(map, kind, lo, hi) \subseteq lo .. hi - 1 /\ Match(map, kind) \subseteq Bits
  BY DEF Hits, Match
<1>4. \A b \in lo .. hi - 1 : lo <= b /\ b < hi
  OBVIOUS
<1>5. \A b \in Nat : lo <= b /\ b < hi => b \in lo .. hi - 1
  OBVIOUS
<1> QED
  BY <1>1, <1>2, <1>3, <1>4, <1>5

\* The byte of a bit begins at or below it, less than a byte away.
LEMMA ByteStartType ==
  ASSUME NEW b \in Nat
  PROVE  /\ ByteStart(b) \in Nat
         /\ ByteStart(b) <= b /\ b < ByteStart(b) + WordBits
BY SizeAssumption DEF ByteStart

\* The positions of bytes, counted in bits.
LEMMA BytePlace ==
  ASSUME NEW i \in Nat, NEW j \in Nat
  PROVE  /\ i * WordBits \in Nat /\ BitCount = ByteCount * WordBits
         /\ i <= j <=> i * WordBits <= j * WordBits
         /\ (i + j) * WordBits = i * WordBits + j * WordBits
BY SizeAssumption DEF BitCount

\* The byte of an offset in the bitmap ends at the end of the bitmap or before it.
LEMMA ByteStartPlace ==
  ASSUME NEW b \in Nat, b < BitCount
  PROVE  \E i \in 0 .. ByteCount : ByteStart(b) + WordBits = i * WordBits
<1> DEFINE d == b \div WordBits
<1>1. b = WordBits * d + (b % WordBits) /\ d \in Nat
  BY SizeAssumption
<1>2. ByteStart(b) = d * WordBits
  <2>1. b % WordBits \in Nat /\ WordBits * d \in Nat /\ WordBits * d = d * WordBits
    BY <1>1, SizeAssumption
  <2> HIDE DEF d
  <2> QED
    BY <1>1, <2>1 DEF ByteStart
<1> HIDE DEF d
<1>3. d < ByteCount
  <2> SUFFICES ASSUME ByteCount <= d PROVE FALSE
    BY <1>1, SizeAssumption
  <2>1. ByteCount * WordBits <= d * WordBits
    BY <1>1, SizeAssumption, BytePlace
  <2>2. d * WordBits <= b /\ d * WordBits \in Nat
    BY <1>1, <1>2, ByteStartType, BytePlace
  <2> QED
    BY <2>1, <2>2, BitCountPositive DEF BitCount
<1>4. (d + 1) * WordBits = d * WordBits + 1 * WordBits /\ 1 * WordBits = WordBits
  BY <1>1, SizeAssumption, BytePlace
<1>5. d + 1 \in 0 .. ByteCount
  BY <1>1, <1>3, SizeAssumption
<1> QED
  BY <1>2, <1>4, <1>5

\* Every turn of the scan moves on by whole bytes and loads none beyond the end.
LEMMA StrideType ==
  ASSUME NEW p \in Nat, NEW i \in 0 .. ByteCount, p = i * WordBits, p < BitCount
  PROVE  /\ Stride(p) \in Nat \ {0} /\ p + Stride(p) <= BitCount
         /\ \E j \in 0 .. ByteCount : p + Stride(p) = j * WordBits
<1>1. i \in Nat /\ ByteCount \in Nat /\ WordBits \in Nat \ {0} /\ BitCount \in Nat
  BY SizeAssumption, BitCountPositive
<1>2. ASSUME NEW n \in {1, 2, 4, 8}, Stride(p) = n * WordBits, n = 1 \/ p + n * WordBits < BitCount
      PROVE  /\ Stride(p) \in Nat \ {0} /\ p + Stride(p) <= BitCount
             /\ \E j \in 0 .. ByteCount : p + Stride(p) = j * WordBits
  <2>1. n \in Nat /\ i + n \in Nat /\ n > 0
    BY <1>1
  <2>2. (i + n) * WordBits = p + n * WordBits /\ BitCount = ByteCount * WordBits
    BY <1>1, <2>1, BytePlace
  <2>3. i + n <= ByteCount
    <3>1. CASE n = 1
      <4> SUFFICES ASSUME ByteCount <= i PROVE FALSE
        BY <1>1, <3>1
      <4>1. ByteCount * WordBits <= i * WordBits
        BY <1>1, BytePlace
      <4> QED
        BY <1>1, <2>2, <4>1
    <3>2. CASE p + n * WordBits < BitCount
      <4>1. (i + n) * WordBits <= ByteCount * WordBits
        BY <1>1, <2>1, <2>2, <3>2, BytePlace
      <4> QED
        BY <1>1, <2>1, <4>1, BytePlace
    <3> QED
      BY <1>2, <3>1, <3>2
  <2>4. (i + n) * WordBits <= ByteCount * WordBits
    BY <1>1, <2>1, <2>3, BytePlace
  <2>5. n * WordBits \in Nat \ {0}
    BY <1>1
  <2>6. i + n \in 0 .. ByteCount
    BY <1>1, <2>1, <2>3
  <2> QED
    BY <1>2, <2>2, <2>4, <2>5, <2>6
<1>3. \/ Stride(p) = 1 * WordBits
      \/ Stride(p) = 2 * WordBits /\ p + 2 * WordBits < BitCount
      \/ Stride(p) = 4 * WordBits /\ p + 4 * WordBits < BitCount
      \/ Stride(p) = 8 * WordBits /\ p + 8 * WordBits < BitCount
  BY <1>1, SMTT(30) DEF Stride
<1> QED
  BY <1>2, <1>3

-----------------------------------------------------------------------------
(* The invariant *)

\* The invariant holds at first, whatever the caller's memory holds.
LEMMA BitmapInit == Init => BitmapInv
<1> SUFFICES ASSUME Init PROVE BitmapInv
  OBVIOUS
<1>1. TypeOK
  BY BitCountPositive, InputAssumption DEF Init, TypeOK, Threads, Bits
<1>2. ScanCorrect /\ OwnedAlone
  BY DEF Init, ScanCorrect, OwnedAlone, Threads
<1>3. (\A s \in Scanners : ScanKnows(s)) /\ (\A t \in Setters : TryKnows(t))
  BY DEF Init, ScanKnows, TryKnows, Threads
<1> QED
  BY <1>1, <1>2, <1>3 DEF BitmapInv

\* A compare-and-swap that succeeds changes one bit of the whole bitmap.
LEMMA CasChangesOneBit ==
  ASSUME BitmapInv, NEW t \in Setters, pc[t] \in {"cas_enable", "cas_disable"}
  PROVE  /\ CasByte(t, byteval[t] \union {idx[t]}) => bits' = bits \union {idx[t]}
         /\ CasByte(t, byteval[t] \ {idx[t]}) => bits' = bits \ {idx[t]}
         /\ bits \intersect ByteOf(idx[t]) = byteval[t] => (idx[t] \in bits <=> idx[t] \in byteval[t])
<1>1. idx[t] \in Nat /\ idx[t] \in ByteOf(idx[t])
  <2>1. idx[t] \in Nat
    BY BitCountPositive DEF BitmapInv, TypeOK, Bits
  <2> QED
    BY <2>1, ByteStartType, SizeAssumption DEF ByteOf
<1>2. ASSUME bits \intersect ByteOf(idx[t]) = byteval[t]
      PROVE  /\ (bits \ ByteOf(idx[t])) \union (byteval[t] \union {idx[t]}) = bits \union {idx[t]}
             /\ (bits \ ByteOf(idx[t])) \union (byteval[t] \ {idx[t]}) = bits \ {idx[t]}
             /\ idx[t] \in bits <=> idx[t] \in byteval[t]
  BY <1>1, <1>2
<1> QED
  BY <1>2 DEF CasByte

\* A step of a scan from any offset, or of a Try function with any bit.
AnyStep ==
  \/ \E s \in Scanners :
       \/ ScanChunk(s) \/ ScanEnd(s)
       \/ \E kind \in {"free", "taken"}, off \in Nat :
            ScanBeyond(s, kind, off) \/ ScanBegin(s, kind, off)
  \/ \E t \in Setters :
       \/ EnableCas(t) \/ DisableCas(t) \/ CasLost(t)
       \/ \E i \in Bits : EnableLoad(t, i) \/ EnableAlready(t, i) \/ DisableLoad(t, i)

\* The callers' inputs are some of these.
LEMMA NextIsAnyStep == Next => AnyStep
BY InputAssumption DEF Next, ScanStep, TryStep, AnyStep

\* What the scans rest on, whoever owns the bits.
ScansSound == TypeOK /\ ScanCorrect /\ \A s \in Scanners : ScanKnows(s)

\* Every access of a scan or of a Try function leaves the scans correct.
LEMMA ScansInductive == ScansSound /\ [AnyStep]_vars => ScansSound'
<1> SUFFICES ASSUME ScansSound, [AnyStep]_vars PROVE ScansSound'
  OBVIOUS
<1> USE DEF Threads, scanVars, tryVars
<1>i. TypeOK /\ ScanCorrect /\ \A s \in Scanners : ScanKnows(s)
  BY DEF ScansSound
<1>z. 0 \in Bits /\ Bits \subseteq Nat
  BY BitCountPositive DEF Bits
\* The scans.
<1>1. ASSUME NEW s \in Scanners, NEW kind \in {"free", "taken"}, NEW off \in Nat,
             ScanBeyond(s, kind, off)
      PROVE  ScansSound'
  <2>1. off \in Nat /\ \A b \in Match(bits, kind) : b \in Bits /\ b < off
    BY <1>1, BitCountPositive, InputAssumption DEF ScanBeyond, Match, Bits
  <2>2. TypeOK'
    BY <1>i, <1>1, <2>1 DEF ScanBeyond, ScanReturn, TypeOK
  <2>3. ScanCorrect'
    BY <1>i, <1>1, <1>z, <2>1 DEF ScanBeyond, ScanReturn, TypeOK, ScanCorrect
  <2>4. \A u \in Scanners : ScanKnows(u)'
    BY <1>i, <1>1 DEF ScanBeyond, ScanReturn, TypeOK, ScanKnows
  <2> QED
    BY <2>2, <2>3, <2>4 DEF ScansSound
<1>2. ASSUME NEW s \in Scanners, NEW kind \in {"free", "taken"}, NEW off \in Nat,
             ScanBegin(s, kind, off)
      PROVE  ScansSound'
  <2> DEFINE next == ByteStart(off) + WordBits
             hits == Hits(bits, kind, off, next)
  <2>0. \E i \in 0 .. ByteCount : next = i * WordBits
    BY <1>2, ByteStartPlace DEF ScanBegin
  <2>1. off \in Nat /\ next \in Nat /\ off < next /\ next <= BitCount
    <3>1. off \in Nat /\ next \in Nat /\ off < next
      BY SizeAssumption, ByteStartType
    <3>2. PICK i \in 0 .. ByteCount : next = i * WordBits
      BY <2>0
    <3>3. i * WordBits <= BitCount
      BY SizeAssumption, BytePlace
    <3> QED
      BY <3>1, <3>2, <3>3
  <2>2. /\ hits \subseteq Bits /\ Match(bits, kind) \subseteq Bits
        /\ \A b \in hits : off <= b
        /\ \A b \in Match(bits, kind) : b \in Nat /\ (off <= b /\ b < next => b \in hits)
    BY <2>1, HitsType
  <2>3. hits # {} => Min(hits) \in hits /\ \A b \in hits : Min(hits) <= b
    BY <1>z, <2>2, MinOfBits
  <2> HIDE DEF next, hits
  <2>4. /\ wanted' = [wanted EXCEPT ![s] = kind]
        /\ offset' = [offset EXCEPT ![s] = off]
        /\ at' = [at EXCEPT ![s] = next]
        /\ always' = [always EXCEPT ![s] = Match(bits, kind)]
        /\ \/ /\ hits # {} /\ pc' = [pc EXCEPT ![s] = "idle"]
              /\ found' = [found EXCEPT ![s] = Min(hits)]
           \/ hits = {} /\ pc' = [pc EXCEPT ![s] = "scan"] /\ found' = found
        /\ UNCHANGED <<bits, tryVars, own>> /\ pc[s] = "idle"
    BY <1>2 DEF ScanBegin, ScanReturn, next, hits
  <2>5. TypeOK'
    BY <1>i, <2>1, <2>2, <2>3, <2>4 DEF TypeOK
  <2>6. ScanCorrect'
    <3>1. ASSUME NEW u \in Scanners, u # s
          PROVE  pc'[u] = pc[u] /\ found'[u] = found[u] /\ offset'[u] = offset[u]
                 /\ at'[u] = at[u] /\ always'[u] = always[u]
      BY <1>i, <2>4, <3>1 DEF TypeOK
    <3>2. CASE hits # {}
      <4>1. pc'[s] = "idle" /\ found'[s] = Min(hits) /\ offset'[s] = off /\ always'[s] = Match(bits, kind)
        BY <1>i, <2>4, <3>2 DEF TypeOK
      <4>2. Min(hits) \in Nat /\ Min(hits) >= off /\ Min(hits) < next
        BY <1>z, <2>1, <2>2, <2>3, <3>2, HitsType DEF hits
      <4>3. \A b \in Match(bits, kind) : b >= off => Min(hits) # -1 /\ b >= Min(hits)
        BY <1>z, <2>1, <2>2, <2>3, <3>2, <4>2
      <4> QED
        BY <1>i, <3>1, <4>1, <4>2, <4>3 DEF ScanCorrect
    <3>3. CASE hits = {}
      <4>1. pc'[s] = "scan" /\ at'[s] = next /\ offset'[s] = off /\ always'[s] = Match(bits, kind)
        BY <1>i, <2>4, <3>3 DEF TypeOK
      <4>2. \A b \in Match(bits, kind) : b >= off => b >= next
        BY <1>z, <2>1, <2>2, <3>3
      <4> QED
        BY <1>i, <3>1, <4>1, <4>2 DEF ScanCorrect
    <3> QED
      BY <3>2, <3>3
  <2>7. \A u \in Scanners : ScanKnows(u)'
    BY <1>i, <2>0, <2>1, <2>4 DEF TypeOK, ScanKnows
  <2> QED
    BY <2>5, <2>6, <2>7 DEF ScansSound
<1>3. ASSUME NEW s \in Scanners, ScanChunk(s) PROVE ScansSound'
  <2> DEFINE next == at[s] + Stride(at[s])
             hits == Hits(bits, wanted[s], at[s], next)
  <2>0. PICK i \in 0 .. ByteCount : at[s] = i * WordBits
    BY <1>i, <1>3 DEF ScanChunk, ScanKnows
  <2>w. wanted[s] \in {"free", "taken"} /\ at[s] \in Nat /\ at[s] < BitCount
    BY <1>i, <1>3 DEF TypeOK, ScanChunk
  <2>s. /\ Stride(at[s]) \in Nat \ {0} /\ next <= BitCount
        /\ \E j \in 0 .. ByteCount : next = j * WordBits
    BY <2>0, <2>w, StrideType
  <2>1. at[s] \in Nat /\ next \in Nat /\ at[s] < next
    BY <2>s, <2>w
  <2>2. /\ hits \subseteq Bits /\ \A b \in hits : at[s] <= b /\ b < next
        /\ \A b \in Match(bits, wanted[s]) : at[s] <= b /\ b < next => b \in hits
    <3> HIDE DEF next
    <3> QED BY <2>1, <2>s, <2>w, HitsType
  <2>3. hits # {} => Min(hits) \in hits /\ \A b \in hits : Min(hits) <= b
    BY <1>z, <2>2, MinOfBits
  <2>k. always[s] \subseteq Match(bits, wanted[s]) /\ always[s] \subseteq Nat /\ offset[s] \in Nat
    BY <1>i, <1>z DEF TypeOK, ScanKnows
  <2>a. at[s] >= offset[s]
    BY <1>i, <1>3 DEF ScanChunk, ScanKnows
  <2> HIDE DEF next, hits
  <2>4. /\ \/ /\ hits # {} /\ pc' = [pc EXCEPT ![s] = "idle"]
              /\ found' = [found EXCEPT ![s] = Min(hits)] /\ at' = at
           \/ hits = {} /\ at' = [at EXCEPT ![s] = next] /\ pc' = pc /\ found' = found
        /\ UNCHANGED <<bits, wanted, offset, tryVars, own, always>> /\ pc[s] = "scan"
    BY <1>3 DEF ScanChunk, ScanReturn, next, hits
  <2>5. TypeOK'
    BY <1>i, <2>1, <2>2, <2>3, <2>4 DEF TypeOK
  <2>6. ScanCorrect'
    <3>1. ASSUME NEW u \in Scanners, u # s
          PROVE  pc'[u] = pc[u] /\ found'[u] = found[u] /\ at'[u] = at[u]
      BY <1>i, <2>4, <3>1 DEF TypeOK
    <3>2. CASE hits # {}
      <4>1. pc'[s] = "idle" /\ found'[s] = Min(hits)
        BY <1>i, <2>4, <3>2 DEF TypeOK
      <4>2. Min(hits) \in Nat /\ Min(hits) >= offset[s] /\ Min(hits) < next
        <5>1. Min(hits) \in Nat /\ at[s] <= Min(hits) /\ Min(hits) < next
          BY <1>z, <2>2, <2>3, <3>2
        <5> QED
          BY <2>1, <2>a, <2>k, <5>1
      <4>3. \A b \in always[s] : b >= offset[s] => Min(hits) # -1 /\ b >= Min(hits)
        BY <1>i, <2>1, <2>2, <2>3, <2>4, <2>k, <3>2, <4>2 DEF ScanCorrect
      <4> QED
        BY <1>i, <2>4, <3>1, <4>1, <4>2, <4>3 DEF ScanCorrect
    <3>3. CASE hits = {}
      <4>1. pc'[s] = "scan" /\ at'[s] = next
        BY <1>i, <2>4, <3>3 DEF TypeOK
      <4>2. \A b \in always[s] : b >= offset[s] => b >= next
        BY <1>i, <2>1, <2>2, <2>4, <2>k, <3>3 DEF ScanCorrect
      <4> QED
        BY <1>i, <2>4, <3>1, <4>1, <4>2 DEF ScanCorrect
    <3> QED
      BY <3>2, <3>3
  <2>7. \A u \in Scanners : ScanKnows(u)'
    BY <1>i, <2>1, <2>4, <2>a, <2>s DEF TypeOK, ScanKnows
  <2> QED
    BY <2>5, <2>6, <2>7 DEF ScansSound
<1>4. ASSUME NEW s \in Scanners, ScanEnd(s) PROVE ScansSound'
  <2>1. \A b \in always[s] : b \in Nat /\ b < BitCount
    BY <1>i, BitCountPositive DEF TypeOK, Bits
  <2>2. \A b \in always[s] : ~ (b >= offset[s])
    BY <1>i, <1>4, <2>1, BitCountPositive DEF ScanEnd, ScanCorrect, TypeOK
  <2>3. TypeOK'
    BY <1>i, <1>4 DEF ScanEnd, ScanReturn, TypeOK
  <2>4. ScanCorrect'
    BY <1>i, <1>4, <2>2 DEF ScanEnd, ScanReturn, TypeOK, ScanCorrect
  <2>5. \A u \in Scanners : ScanKnows(u)'
    BY <1>i, <1>4 DEF ScanEnd, ScanReturn, TypeOK, ScanKnows
  <2> QED
    BY <2>3, <2>4, <2>5 DEF ScansSound
\* The Try functions.
<1>5. ASSUME NEW t \in Setters, NEW i \in Bits, EnableLoad(t, i) PROVE ScansSound'
  <2>1. TypeOK'
    BY <1>i, <1>5, <1>z, InputAssumption DEF EnableLoad, TryLoad, TypeOK
  <2>2. ScanCorrect' /\ \A u \in Scanners : ScanKnows(u)'
    BY <1>i, <1>5 DEF EnableLoad, TryLoad, TypeOK, ScanCorrect, ScanKnows
  <2> QED
    BY <2>1, <2>2 DEF ScansSound
<1>6. ASSUME NEW t \in Setters, NEW i \in Bits, EnableAlready(t, i) PROVE ScansSound'
  <2>1. TypeOK'
    BY <1>i, <1>6, <1>z, InputAssumption DEF EnableAlready, TryReturn, TypeOK
  <2>2. ScanCorrect' /\ \A u \in Scanners : ScanKnows(u)'
    BY <1>i, <1>6 DEF EnableAlready, TryReturn, TypeOK, ScanCorrect, ScanKnows
  <2> QED
    BY <2>1, <2>2 DEF ScansSound
<1>7. ASSUME NEW t \in Setters, NEW i \in Bits, DisableLoad(t, i) PROVE ScansSound'
  <2>1. TypeOK'
    BY <1>i, <1>7, <1>z, InputAssumption DEF DisableLoad, TryLoad, TypeOK
  <2>2. ScanCorrect' /\ \A u \in Scanners : ScanKnows(u)'
    BY <1>i, <1>7 DEF DisableLoad, TryLoad, TypeOK, ScanCorrect, ScanKnows
  <2> QED
    BY <2>1, <2>2 DEF ScansSound
<1>8. ASSUME NEW t \in Setters, CasLost(t) PROVE ScansSound'
  <2>1. TypeOK'
    BY <1>i, <1>8, <1>z, InputAssumption DEF CasLost, TryReturn, TypeOK
  <2>2. ScanCorrect' /\ \A u \in Scanners : ScanKnows(u)'
    BY <1>i, <1>8 DEF CasLost, TryReturn, TypeOK, ScanCorrect, ScanKnows
  <2> QED
    BY <2>1, <2>2 DEF ScansSound
<1>9. ASSUME NEW t \in Setters, EnableCas(t) PROVE ScansSound'
  <2>1. always' = [s \in Scanners |-> always[s] \intersect Match(bits', wanted[s])]
    BY <1>9 DEF EnableCas, CasByte
  <2>2. idx[t] \in Bits /\ byteval[t] \subseteq Bits
    BY <1>i DEF TypeOK
  <2>3. bits' \subseteq Bits
    BY <1>i, <1>9, <2>2 DEF EnableCas, CasByte, TypeOK
  <2>4. TypeOK'
    BY <1>i, <1>9, <1>z, <2>1, <2>2, <2>3 DEF EnableCas, TryReturn, TypeOK
  <2>5. ScanCorrect' /\ \A s \in Scanners : ScanKnows(s)'
    BY <1>i, <1>9, <2>1 DEF EnableCas, TryReturn, TypeOK, ScanCorrect, ScanKnows
  <2> QED
    BY <2>4, <2>5 DEF ScansSound
<1>10. ASSUME NEW t \in Setters, DisableCas(t) PROVE ScansSound'
  <2>1. always' = [s \in Scanners |-> always[s] \intersect Match(bits', wanted[s])]
    BY <1>10 DEF DisableCas, CasByte
  <2>2. idx[t] \in Bits /\ byteval[t] \subseteq Bits
    BY <1>i DEF TypeOK
  <2>3. bits' \subseteq Bits
    BY <1>i, <1>10, <2>2 DEF DisableCas, CasByte, TypeOK
  <2>4. TypeOK'
    BY <1>i, <1>10, <1>z, <2>1, <2>2, <2>3 DEF DisableCas, TryReturn, TypeOK
  <2>5. ScanCorrect' /\ \A s \in Scanners : ScanKnows(s)'
    BY <1>i, <1>10, <2>1 DEF DisableCas, TryReturn, TypeOK, ScanCorrect, ScanKnows
  <2> QED
    BY <2>4, <2>5 DEF ScansSound
<1>11. ASSUME UNCHANGED vars PROVE ScansSound'
  BY <1>i, <1>11 DEF vars, ScansSound, TypeOK, ScanCorrect, ScanKnows
<1> QED
  BY <1>1, <1>2, <1>3, <1>4, <1>5, <1>6, <1>7, <1>8, <1>9, <1>10, <1>11
     DEF AnyStep

\* Every access of a scan or of a Try function keeps the invariant.
LEMMA BitmapInductive == BitmapInv /\ [AnyStep]_vars => BitmapInv'
<1> SUFFICES ASSUME BitmapInv, [AnyStep]_vars PROVE BitmapInv'
  OBVIOUS
<1>s. ScansSound'
  <2>1. ScansSound
    BY DEF BitmapInv, ScansSound
  <2> QED
    BY <2>1, ScansInductive
<1> USE DEF Threads, scanVars, tryVars
<1>i. TypeOK /\ OwnedAlone /\ \A t \in Setters : TryKnows(t)
  BY DEF BitmapInv
<1> DEFINE Goal == OwnedAlone' /\ \A t \in Setters : TryKnows(t)'
<1>1. ASSUME NEW s \in Scanners,
             \/ \E kind \in {"free", "taken"}, off \in Nat :
                  ScanBeyond(s, kind, off) \/ ScanBegin(s, kind, off)
             \/ ScanChunk(s) \/ ScanEnd(s)
      PROVE  Goal
  <2>1. UNCHANGED <<bits, tryVars, own>>
    BY <1>1 DEF ScanBeyond, ScanBegin, ScanChunk, ScanEnd
  <2>2. pc' = [pc EXCEPT ![s] = "idle"] \/ pc' = [pc EXCEPT ![s] = "scan"] \/ pc' = pc
    BY <1>1 DEF ScanBeyond, ScanBegin, ScanChunk, ScanEnd, ScanReturn
  <2> QED
    BY <1>i, <2>1, <2>2 DEF TypeOK, OwnedAlone, TryKnows
<1>2. ASSUME NEW t \in Setters, NEW i \in Bits, EnableLoad(t, i) PROVE Goal
  BY <1>i, <1>2 DEF EnableLoad, TryLoad, TypeOK, OwnedAlone, TryKnows
<1>3. ASSUME NEW t \in Setters, NEW i \in Bits, EnableAlready(t, i) PROVE Goal
  BY <1>i, <1>3 DEF EnableAlready, TryReturn, TypeOK, OwnedAlone, TryKnows
<1>4. ASSUME NEW t \in Setters, NEW i \in Bits, DisableLoad(t, i) PROVE Goal
  BY <1>i, <1>4 DEF DisableLoad, TryLoad, TypeOK, OwnedAlone, TryKnows
<1>5. ASSUME NEW t \in Setters, CasLost(t) PROVE Goal
  BY <1>i, <1>5 DEF CasLost, TryReturn, TypeOK, OwnedAlone, TryKnows
<1>6. ASSUME NEW t \in Setters, EnableCas(t) PROVE Goal
  <2>1. bits' = bits \union {idx[t]}
    BY <1>6, CasChangesOneBit DEF EnableCas
  <2>2. idx[t] \notin bits
    BY <1>i, <1>6, CasChangesOneBit DEF EnableCas, CasByte, TryKnows, OwnedAlone
  <2>3. OwnedAlone'
    BY <1>i, <1>6, <2>1, <2>2 DEF EnableCas, TypeOK, OwnedAlone
  <2>4. \A u \in Setters : TryKnows(u)'
    BY <1>i, <1>6 DEF EnableCas, TryReturn, TypeOK, TryKnows
  <2> QED
    BY <2>3, <2>4
<1>7. ASSUME NEW t \in Setters, DisableCas(t) PROVE Goal
  <2>1. bits' = bits \ {idx[t]}
    BY <1>7, CasChangesOneBit DEF DisableCas
  <2>2. \A u \in Setters : u # t => idx[t] \notin own[u]
    BY <1>i, <1>7, CasChangesOneBit DEF DisableCas, CasByte, TryKnows, OwnedAlone
  <2>3. OwnedAlone'
    BY <1>i, <1>7, <2>1, <2>2 DEF DisableCas, TypeOK, OwnedAlone
  <2>4. \A u \in Setters : TryKnows(u)'
    BY <1>i, <1>7 DEF DisableCas, TryReturn, TypeOK, TryKnows
  <2> QED
    BY <2>3, <2>4
<1>8. ASSUME UNCHANGED vars PROVE Goal
  BY <1>i, <1>8 DEF vars, TypeOK, OwnedAlone, TryKnows
<1>9. Goal
  BY <1>1, <1>2, <1>3, <1>4, <1>5, <1>6, <1>7, <1>8 DEF AnyStep
<1> QED
  BY <1>s, <1>9 DEF BitmapInv, ScansSound

\* However the bitmap changes under a scan, the scan returns no bit below its
\* offset and misses no bit that was there for it all along; and a bit that
\* TryEnable has handed out stays set and with one owner.
THEOREM BitmapCorrect == Spec => [](TypeOK /\ ScanCorrect /\ OwnedAlone)
<1>1. BitmapInv => TypeOK /\ ScanCorrect /\ OwnedAlone
  BY DEF BitmapInv
<1> QED
  BY BitmapInit, BitmapInductive, NextIsAnyStep, <1>1, PTL DEF Spec
=============================================================================
