---------------------------- MODULE TablesProofs ----------------------------
(***************************************************************************)
(* The bitmap of bitmap.c and the tables kept over it, for every length of *)
(* the bitmap and of a byte, every capacity and any entries.               *)
(*                                                                         *)
(* The loops of the scans and of the look-up are recursive functions, each *)
(* the solution of an equation.  What they should return is shown to solve *)
(* it, so that there is a solution, and two solutions are shown to agree:  *)
(* a place where they differ would be followed by another one.             *)
(***************************************************************************)
EXTENDS Tables, FiniteSetTheorems, WellFoundedInduction, TLAPS

\* The smallest of the bits of a set.
LEMMA MinOfBits ==
  ASSUME NEW S \in SUBSET Nat, S # {}
  PROVE  Min(S) \in S /\ \A b \in S : Min(S) <= b
<1>1. PICK x \in S : \A y \in S : ~ (<<y, x>> \in OpToRel(<, Nat))
  BY NatLessThanWellFounded, WFMin
<1>2. ASSUME NEW y \in S, y < x PROVE FALSE
  <2>1. <<y, x>> \in OpToRel(<, Nat)
    BY <1>2 DEF OpToRel
  <2> QED
    BY <1>1, <2>1
<1>3. \A y \in S : x <= y
  BY <1>2
<1> QED
  BY <1>3 DEF Min

-----------------------------------------------------------------------------
(* What the scans of bitmap.c return *)

\* The first member of a set from an offset on, or -1.
LEMMA FirstFromIs ==
  ASSUME NEW S \in SUBSET Nat, NEW o \in Nat
  PROVE  \/ /\ FirstFrom(S, o) = -1
            /\ \A b \in S : b < o
         \/ /\ FirstFrom(S, o) \in S /\ FirstFrom(S, o) >= o
            /\ \A b \in S : b >= o => FirstFrom(S, o) <= b
<1> DEFINE T == {b \in S : b >= o}
<1>1. CASE T = {}
  BY <1>1 DEF FirstFrom
<1>2. CASE T # {}
  <2>1. Min(T) \in T /\ \A b \in T : Min(T) <= b
    BY <1>2, MinOfBits
  <2>2. FirstFrom(S, o) = Min(T)
    BY <1>2 DEF FirstFrom
  <2> QED
    BY <2>1, <2>2
<1> QED
  BY <1>1, <1>2

\* Nothing else is.
LEMMA FirstFromUnique ==
  ASSUME NEW S \in SUBSET Nat, NEW o \in Nat, NEW r,
         \/ r = -1 /\ \A b \in S : b < o
         \/ r \in S /\ r >= o /\ \A b \in S : b >= o => r <= b
  PROVE  FirstFrom(S, o) = r
<1> DEFINE v == FirstFrom(S, o)
<1>1. \/ v = -1 /\ \A b \in S : b < o
      \/ v \in S /\ v >= o /\ \A b \in S : b >= o => v <= b
  BY FirstFromIs
<1> HIDE DEF v
<1> SUFFICES v = r
  BY DEF v
<1>2. CASE r = -1 /\ \A b \in S : b < o
  <2>1. CASE v = -1
    BY <1>2, <2>1
  <2>2. CASE v \in S /\ v >= o
    <3>1. v \in Nat /\ v < o
      BY <1>2, <2>2
    <3> QED
      BY <2>2, <3>1
  <2> QED
    BY <1>1, <2>1, <2>2
<1>3. CASE r \in S /\ r >= o /\ \A b \in S : b >= o => r <= b
  <2>1. r \in Nat
    BY <1>3
  <2>2. ASSUME \A b \in S : b < o PROVE FALSE
    <3>1. r < o
      BY <1>3, <2>2
    <3> QED
      BY <1>3, <2>1, <3>1
  <2>3. CASE v \in S /\ v >= o /\ \A b \in S : b >= o => v <= b
    <3>1. v \in Nat /\ v <= r /\ r <= v
      BY <1>3, <2>3
    <3> QED
      BY <2>1, <3>1
  <2> QED
    BY <1>1, <2>2, <2>3
<1> QED
  BY <1>2, <1>3

\* The sizes, and the positions of bytes counted in bits.
LEMMA Sizes ==
  /\ ByteCount \in Nat /\ ByteCount > 0 /\ WordBits \in Nat /\ WordBits > 0
  /\ BitCount \in Nat /\ BitCount > 0 /\ BitCount = ByteCount * WordBits
  /\ Bits = 0 .. BitCount - 1 /\ Bits \subseteq Nat
BY BitmapAssumption DEF BitCount, Bits

LEMMA BytePlace ==
  ASSUME NEW i \in Nat, NEW j \in Nat
  PROVE  /\ i * WordBits \in Nat
         /\ i <= j => i * WordBits <= j * WordBits
         /\ (i + 1) * WordBits = i * WordBits + WordBits
BY Sizes

\* The chunk at a byte of the bitmap has at least one byte.
LEMMA ChunkType ==
  ASSUME NEW i \in Nat
  PROVE  Chunk(i) \in Nat /\ Chunk(i) > 0
BY Sizes DEF Chunk

\* One turn of the loops, with f for what the following turns return.
Turn(map, f, i) ==
  IF i >= ByteCount THEN -1
  ELSE IF BytesFrom(map, i, i + Chunk(i)) # {} THEN Min(BytesFrom(map, i, i + Chunk(i)))
  ELSE f[i + Chunk(i)]

\* The loops as an equation, which holds of them if anything solves it.
LEMMA ScanBytesUnfolds ==
  ASSUME NEW map, \E f : f = [i \in Nat |-> Turn(map, f, i)]
  PROVE  ScanBytes(map) = [i \in Nat |-> Turn(map, ScanBytes(map), i)]
<1> DEFINE R(f) == f = [i \in Nat |-> Turn(map, f, i)]
<1>1. ScanBytes(map) = CHOOSE f : R(f)
  BY DEF ScanBytes, Turn
<1>2. R(CHOOSE f : R(f))
  <2>1. \E f : R(f)
    OBVIOUS
  <2> HIDE DEF R
  <2> QED
    BY <2>1
<1> QED
  BY <1>1, <1>2

\* The first set bit from a byte on solves it.
LEMMA FirstSolves ==
  ASSUME NEW map \in SUBSET Bits, NEW g, g = [i \in Nat |-> FirstFrom(map, i * WordBits)]
  PROVE  g = [i \in Nat |-> Turn(map, g, i)]
<1> SUFFICES ASSUME NEW i \in Nat PROVE FirstFrom(map, i * WordBits) = Turn(map, g, i)
  OBVIOUS
<1>0. /\ map \in SUBSET Nat /\ i * WordBits \in Nat /\ BitCount \in Nat
      /\ \A b \in map : b \in Nat /\ b < BitCount
  BY Sizes, BytePlace
<1>1. CASE i >= ByteCount
  <2>1. i * WordBits >= BitCount
    BY <1>1, Sizes, BytePlace
  <2>2. \A b \in map : b < i * WordBits
    BY <1>0, <2>1
  <2>3. FirstFrom(map, i * WordBits) = -1
    BY <1>0, <2>2, FirstFromUnique
  <2> QED
    BY <1>1, <2>3 DEF Turn
<1>2. CASE ~ (i >= ByteCount)
  <2> DEFINE j == i + Chunk(i)
             chunk == BytesFrom(map, i, j)
  <2>1. j \in Nat /\ j * WordBits \in Nat /\ i * WordBits <= j * WordBits
    <3>1. j \in Nat /\ i <= j
      BY ChunkType
    <3> HIDE DEF j
    <3> QED
      BY <3>1, BytePlace
  <2> HIDE DEF j
  <2>2. chunk = {b \in map : i * WordBits <= b /\ b < j * WordBits}
    BY DEF BytesFrom
  <2>3. CASE chunk # {}
    <3>1. Min(chunk) \in chunk /\ \A b \in chunk : Min(chunk) <= b
      BY <1>0, <2>2, <2>3, MinOfBits
    <3>2. Min(chunk) \in map /\ Min(chunk) \in Nat /\ Min(chunk) >= i * WordBits /\ Min(chunk) < j * WordBits
      BY <1>0, <2>2, <3>1
    <3>3. \A b \in map : b >= i * WordBits => Min(chunk) <= b
      <4> SUFFICES ASSUME NEW b \in map, b >= i * WordBits PROVE Min(chunk) <= b
        OBVIOUS
      <4>1. CASE b < j * WordBits
        BY <1>0, <2>2, <3>1, <4>1
      <4>2. CASE b >= j * WordBits
        <5>1. b \in Nat /\ j * WordBits \in Nat /\ Min(chunk) \in Nat
              /\ Min(chunk) < j * WordBits /\ j * WordBits <= b
          BY <1>0, <2>1, <3>2, <4>2
        <5> QED
          BY <5>1
      <4> QED
        BY <1>0, <2>1, <4>1, <4>2
    <3>4. FirstFrom(map, i * WordBits) = Min(chunk)
      BY <1>0, <3>2, <3>3, FirstFromUnique
    <3> QED
      BY <1>2, <2>3, <3>4 DEF Turn, j
  <2>4. CASE chunk = {}
    <3>1. \A b \in map : b >= i * WordBits <=> b >= j * WordBits
      BY <1>0, <2>1, <2>2, <2>4
    <3>2. FirstFrom(map, i * WordBits) = FirstFrom(map, j * WordBits)
      BY <3>1 DEF FirstFrom
    <3>3. Turn(map, g, i) = g[j]
      BY <1>2, <2>4 DEF Turn, j
    <3> QED
      BY <2>1, <3>2, <3>3
  <2> QED
    BY <2>3, <2>4
<1> QED
  BY <1>1, <1>2

\* And nothing else does: a byte where two solutions differ would be followed by
\* another one.
LEMMA TurnsUnique ==
  ASSUME NEW map, NEW f, NEW g, f = [i \in Nat |-> Turn(map, f, i)], g = [i \in Nat |-> Turn(map, g, i)]
  PROVE  f = g
<1> DEFINE Left == {k \in Nat : \E i \in Nat : i < ByteCount /\ k = ByteCount - i /\ f[i] # g[i]}
<1>1. ASSUME Left # {} PROVE FALSE
  <2>1. PICK k \in Left : \A l \in Left : k <= l
    BY <1>1, MinOfBits
  <2>2. PICK i \in Nat : i < ByteCount /\ k = ByteCount - i /\ f[i] # g[i]
    BY <2>1
  <2> DEFINE j == i + Chunk(i)
  <2>3. j \in Nat /\ i < j
    BY ChunkType
  <2>4. f[i] = Turn(map, f, i) /\ g[i] = Turn(map, g, i)
    BY Zenon
  <2>5. f[j] # g[j]
    BY <2>2, <2>4 DEF Turn
  <2> HIDE DEF j
  <2>6. j < ByteCount
    <3>1. f[j] = Turn(map, f, j) /\ g[j] = Turn(map, g, j)
      BY <2>3, Zenon
    <3>2. ~ (j >= ByteCount)
      BY <2>5, <3>1 DEF Turn
    <3> QED
      BY <2>3, <3>2, Sizes
  <2>7. ByteCount - j \in Left
    BY <2>3, <2>5, <2>6, Sizes
  <2> QED
    BY <2>1, <2>2, <2>3, <2>6, <2>7, Sizes
<1>2. ASSUME NEW i \in Nat PROVE f[i] = g[i]
  <2>1. CASE i < ByteCount
    <3>1. ByteCount - i \in Nat
      BY <2>1, Sizes
    <3> QED
      BY <1>1, <2>1, <3>1
  <2>2. CASE i >= ByteCount
    <3>1. f[i] = Turn(map, f, i) /\ g[i] = Turn(map, g, i)
      BY Zenon
    <3> QED
      BY <2>2, <3>1 DEF Turn
  <2> QED
    BY <2>1, <2>2, Sizes
<1>3. f = [i \in Nat |-> f[i]] /\ g = [i \in Nat |-> g[i]]
  BY Zenon
<1> QED
  BY <1>2, <1>3

\* A chunk that is compared ends at the end of the bitmap or before it.
LEMMA ChunkEnds ==
  ASSUME NEW i \in Nat, ~ (i >= ByteCount)
  PROVE  i + Chunk(i) \in Nat /\ i + Chunk(i) <= ByteCount
BY Sizes, SMTT(30) DEF Chunk

\* What is read up to the end of the bitmap does not depend on what follows it.
LEMMA BytesInside ==
  ASSUME NEW map \in SUBSET Nat, NEW i \in Nat, NEW j \in Nat, j <= ByteCount
  PROVE  BytesFrom(map, i, j) = BytesFrom(map \intersect Bits, i, j)
<1>1. i * WordBits \in Nat /\ j * WordBits \in Nat /\ j * WordBits <= BitCount
  BY Sizes, BytePlace
<1>2. \A b \in map : b < j * WordBits => b \in Bits
  BY <1>1, Sizes
<1> QED
  BY <1>2 DEF BytesFrom

LEMMA TurnInside ==
  ASSUME NEW map \in SUBSET Nat, NEW f, NEW i \in Nat
  PROVE  Turn(map, f, i) = Turn(map \intersect Bits, f, i)
<1>1. CASE i >= ByteCount
  BY <1>1 DEF Turn
<1>2. CASE ~ (i >= ByteCount)
  <2>1. BytesFrom(map, i, i + Chunk(i)) = BytesFrom(map \intersect Bits, i, i + Chunk(i))
    BY <1>2, ChunkEnds, BytesInside
  <2> QED
    BY <2>1, Zenon DEF Turn
<1> QED
  BY <1>1, <1>2

\* The four loops of a scan, whatever chunks they compare, find the first set bit
\* of the bitmap.
LEMMA ScanBytesIs ==
  ASSUME NEW map \in SUBSET Nat, NEW i \in Nat
  PROVE  ScanBytes(map)[i] = FirstFrom(map \intersect Bits, i * WordBits)
<1> DEFINE g == [k \in Nat |-> FirstFrom(map \intersect Bits, k * WordBits)]
<1>0. g = [k \in Nat |-> Turn(map \intersect Bits, g, k)]
  <2>1. map \intersect Bits \in SUBSET Bits
    OBVIOUS
  <2> QED
    BY <2>1, FirstSolves
<1>1. g = [k \in Nat |-> Turn(map, g, k)]
  <2> HIDE DEF g
  <2>1. \A k \in Nat : Turn(map \intersect Bits, g, k) = Turn(map, g, k)
    BY TurnInside
  <2> QED
    BY <1>0, <2>1
<1>2. g[i] = FirstFrom(map \intersect Bits, i * WordBits)
  OBVIOUS
<1> HIDE DEF g
<1>3. ScanBytes(map) = [k \in Nat |-> Turn(map, ScanBytes(map), k)]
  BY <1>1, ScanBytesUnfolds
<1>4. ScanBytes(map) = g
  BY <1>1, <1>3, TurnsUnique
<1> QED
  BY <1>2, <1>4

\* Division with remainder.
LEMMA Division ==
  ASSUME NEW o \in Nat, NEW w \in Nat, w > 0
  PROVE  /\ o \div w \in Nat /\ o % w \in Nat /\ o % w < w
         /\ o = (o \div w) * w + (o % w)
<1>1. o = w * (o \div w) + (o % w)
  OBVIOUS
<1>2. o \div w \in Int /\ o % w \in 0 .. w - 1
  OBVIOUS
<1>3. o \div w >= 0
  OBVIOUS
<1> QED
  BY <1>1, <1>2, <1>3

\* The byte of an offset.
LEMMA OffsetPlace ==
  ASSUME NEW o \in Nat
  PROVE  /\ o \div WordBits \in Nat /\ o % WordBits \in Nat /\ o % WordBits < WordBits
         /\ o = (o \div WordBits) * WordBits + (o % WordBits)
BY Sizes, Division

LEMMA SameByte ==
  ASSUME NEW i \in Nat, NEW b \in Nat, i * WordBits <= b, b < i * WordBits + WordBits
  PROVE  b % WordBits = b - i * WordBits
<1> DEFINE d == b \div WordBits
           m == b % WordBits
<1>1. d \in Nat /\ m \in Nat /\ m < WordBits /\ b = d * WordBits + m
  BY OffsetPlace
<1> HIDE DEF d, m
<1>2. d = i
  <2>1. CASE d < i
    <3>1. (d + 1) * WordBits <= i * WordBits /\ (d + 1) * WordBits = d * WordBits + WordBits
      BY <1>1, <2>1, BytePlace
    <3> QED
      BY <1>1, <3>1, BytePlace, Sizes
  <2>2. CASE d > i
    <3>1. (i + 1) * WordBits <= d * WordBits /\ (i + 1) * WordBits = i * WordBits + WordBits
      BY <1>1, <2>2, BytePlace
    <3> QED
      BY <1>1, <3>1, BytePlace, Sizes
  <2> QED
    BY <1>1, <2>1, <2>2
<1>3. m = b - i * WordBits
  BY <1>1, <1>2, BytePlace, Sizes
<1> QED
  BY <1>3 DEF m

\* The cases of a scan.
LEMMA ScanFromCases ==
  ASSUME NEW map, NEW offset \in Nat, NEW i, i = offset \div WordBits, NEW first,
         first = {b \in BytesFrom(map, i, i + 1) : b % WordBits >= offset % WordBits}
  PROVE  ScanFrom(map, offset) = IF i >= ByteCount THEN -1
                                 ELSE IF first # {} THEN Min(first) ELSE ScanBytes(map)[i + 1]
<1>1. ScanFrom(map, offset) =
        CASE i >= ByteCount -> -1
          [] i < ByteCount /\ first # {} -> Min(first)
          [] OTHER -> ScanBytes(map)[i + 1]
  BY Zenon DEF ScanFrom
<1>2. i \in Nat
  BY OffsetPlace
<1> QED
  BY <1>1, <1>2, Sizes, SMTT(30)

\* A scan returns the first wanted bit that is not below its offset.
LEMMA ScanFromIs ==
  ASSUME NEW map \in SUBSET Bits, NEW offset \in Nat
  PROVE  ScanFrom(map, offset) = FirstFrom(map, offset)
<1> DEFINE i     == offset \div WordBits
           first == {b \in BytesFrom(map, i, i + 1) : b % WordBits >= offset % WordBits}
<1>0. map \in SUBSET Nat /\ \A b \in map : b \in Nat /\ b < BitCount
  BY Sizes
<1>1. /\ i \in Nat /\ i * WordBits \in Nat /\ offset % WordBits = offset - i * WordBits
      /\ i * WordBits <= offset /\ offset < i * WordBits + WordBits
      /\ (i + 1) * WordBits = i * WordBits + WordBits
  <2>1. i \in Nat /\ i * WordBits \in Nat /\ (i + 1) * WordBits = i * WordBits + WordBits
    BY OffsetPlace, BytePlace
  <2> QED
    BY <2>1, OffsetPlace, Sizes
<1>2. ScanFrom(map, offset) = IF i >= ByteCount THEN -1
                              ELSE IF first # {} THEN Min(first) ELSE ScanBytes(map)[i + 1]
  BY ScanFromCases
<1> HIDE DEF i
<1>3. first = {b \in map : offset <= b /\ b < i * WordBits + WordBits}
  <2>1. \A b \in map : i * WordBits <= b /\ b < i * WordBits + WordBits =>
                         (b % WordBits >= offset % WordBits <=> offset <= b)
    <3> SUFFICES ASSUME NEW b \in map, i * WordBits <= b, b < i * WordBits + WordBits
                 PROVE  b % WordBits >= offset % WordBits <=> offset <= b
      OBVIOUS
    <3>1. b % WordBits = b - i * WordBits
      BY <1>0, <1>1, SameByte
    <3> QED
      BY <1>0, <1>1, <3>1
  <2>2. first = {b \in map : /\ i * WordBits <= b /\ b < i * WordBits + WordBits
                             /\ b % WordBits >= offset % WordBits}
    BY <1>1 DEF BytesFrom
  <2>3. \A b \in map : offset <= b => i * WordBits <= b
    BY <1>0, <1>1
  <2> HIDE DEF first
  <2> QED
    BY <2>1, <2>2, <2>3, Zenon
<1> HIDE DEF first
<1>4. CASE i >= ByteCount
  <2>1. i * WordBits >= BitCount
    BY <1>1, <1>4, Sizes, BytePlace
  <2>2. \A b \in map : b < offset
    BY <1>0, <1>1, <2>1, Sizes
  <2>3. FirstFrom(map, offset) = -1
    BY <1>0, <2>2, FirstFromUnique
  <2> QED
    BY <1>2, <1>4, <2>3
<1>5. CASE ~ (i >= ByteCount) /\ first # {}
  <2>1. Min(first) \in first /\ \A b \in first : Min(first) <= b
    BY <1>0, <1>3, <1>5, MinOfBits
  <2>2. Min(first) \in map /\ Min(first) >= offset /\ Min(first) < i * WordBits + WordBits
    BY <1>0, <1>1, <1>3, <2>1
  <2>3. \A b \in map : b >= offset => Min(first) <= b
    <3> SUFFICES ASSUME NEW b \in map, b >= offset PROVE Min(first) <= b
      OBVIOUS
    <3>1. CASE b < i * WordBits + WordBits
      BY <1>0, <1>3, <2>1, <3>1
    <3>2. CASE b >= i * WordBits + WordBits
      <4> DEFINE w == i * WordBits + WordBits
      <4>1. b \in Nat /\ w \in Nat /\ Min(first) \in Nat /\ Min(first) < w /\ w <= b
        <5>1. b \in Nat /\ Min(first) \in Nat
          BY <1>0, <2>2
        <5>2. w \in Nat
          BY <1>1, Sizes
        <5> QED
          BY <2>2, <3>2, <5>1, <5>2
      <4> HIDE DEF w
      <4> QED
        BY <4>1
    <3> QED
      BY <1>0, <1>1, <3>1, <3>2, Sizes
  <2>4. FirstFrom(map, offset) = Min(first)
    BY <1>0, <2>2, <2>3, FirstFromUnique
  <2> QED
    BY <1>2, <1>5, <2>4
<1>6. CASE ~ (i >= ByteCount) /\ first = {}
  <2>1. ScanBytes(map)[i + 1] = FirstFrom(map, (i + 1) * WordBits)
    <3>1. map \intersect Bits = map /\ i + 1 \in Nat
      BY <1>1
    <3> QED
      BY <1>0, <3>1, ScanBytesIs
  <2>2. \A b \in map : b >= offset <=> b >= (i + 1) * WordBits
    BY <1>0, <1>1, <1>3, <1>6, Sizes
  <2>3. FirstFrom(map, offset) = FirstFrom(map, (i + 1) * WordBits)
    BY <2>2 DEF FirstFrom
  <2> QED
    BY <1>2, <1>6, <2>1, <2>3
<1> QED
  BY <1>4, <1>5, <1>6

\* A scan reads nothing beyond the end.
LEMMA ScanInside ==
  ASSUME NEW map \in SUBSET Nat, NEW offset \in Nat
  PROVE  ScanFrom(map, offset) = ScanFrom(map \intersect Bits, offset)
<1> DEFINE i == offset \div WordBits
           m == map \intersect Bits
<1>1. i \in Nat /\ i + 1 \in Nat /\ m \in SUBSET Nat /\ m \intersect Bits = m
  <2>1. i \in Nat
    BY OffsetPlace
  <2>2. m \in SUBSET Nat /\ m \intersect Bits = m
    OBVIOUS
  <2> HIDE DEF i, m
  <2> QED
    BY <2>1, <2>2
<1> DEFINE first(p) == {b \in BytesFrom(p, i, i + 1) : b % WordBits >= offset % WordBits}
<1>2. ASSUME NEW p
      PROVE  ScanFrom(p, offset) = IF i >= ByteCount THEN -1
                                   ELSE IF first(p) # {} THEN Min(first(p)) ELSE ScanBytes(p)[i + 1]
  BY ScanFromCases
<1>3. ScanBytes(map)[i + 1] = ScanBytes(m)[i + 1]
  <2> HIDE DEF i
  <2>1. ScanBytes(map)[i + 1] = FirstFrom(m, (i + 1) * WordBits)
    BY <1>1, ScanBytesIs
  <2>2. ScanBytes(m)[i + 1] = FirstFrom(m \intersect Bits, (i + 1) * WordBits)
    <3> HIDE DEF m
    <3> QED
      BY <1>1, ScanBytesIs
  <2> QED
    BY <1>1, <2>1, <2>2, Zenon
<1> HIDE DEF i
<1>4. CASE ~ (i >= ByteCount)
  <2>1. BytesFrom(map, i, i + 1) = BytesFrom(m, i, i + 1)
    BY <1>1, <1>4, BytesInside, Sizes
  <2>2. first(map) = first(m)
    BY <2>1, Zenon
  <2>3. ScanFrom(map, offset) = IF first(map) # {} THEN Min(first(map)) ELSE ScanBytes(map)[i + 1]
    BY <1>2, <1>4
  <2>4. ScanFrom(m, offset) = IF first(m) # {} THEN Min(first(m)) ELSE ScanBytes(m)[i + 1]
    BY <1>2, <1>4
  <2> HIDE DEF first
  <2> QED
    BY <1>3, <2>2, <2>3, <2>4
<1>5. CASE i >= ByteCount
  <2> HIDE DEF first, m
  <2> QED
    BY <1>2, <1>5, Zenon
<1> QED
  BY <1>4, <1>5

\* Both scans, on any bitmap.
LEMMA ScansReturn ==
  ASSUME NEW map \in SUBSET Bits, NEW offset \in Nat
  PROVE  /\ NextOccupiedBit(map, offset) = FirstFrom(map, offset)
         /\ NextAvaibleBit(map, offset) = FirstFrom(Bits \ map, offset)
<1> DEFINE taken == map \union Beyond
           free  == Memory \ taken
<1>1. Bits \subseteq Memory /\ Memory \subseteq Nat /\ Beyond \subseteq Memory \ Bits
  BY Sizes, BitmapAssumption DEF Memory
<1>2. /\ taken \in SUBSET Nat /\ taken \intersect Bits = map
      /\ free \in SUBSET Nat /\ free \intersect Bits = Bits \ map
      /\ map \in SUBSET Bits /\ Bits \ map \in SUBSET Bits
  BY <1>1
<1> HIDE DEF taken, free
<1>3. ScanFrom(taken, offset) = FirstFrom(map, offset) /\ ScanFrom(free, offset) = FirstFrom(Bits \ map, offset)
  BY <1>2, ScanInside, ScanFromIs
<1> QED
  BY <1>3 DEF taken, free, NextOccupiedBit, NextAvaibleBit

-----------------------------------------------------------------------------
(* The invariant of the tables *)

TablesType ==
  /\ usage \in {"direct", "clients", "broadcast", "monitor"}
  /\ capacity \in Capacities /\ (usage = "clients" => capacity = BitCount)
  /\ bits \subseteq Bits /\ cursor \in Bits \union {-1}
  /\ table \in [0 .. capacity - 1 -> Entries \union {Other, "nobody"}]
  /\ where \in [Entries -> (0 .. capacity - 1) \union {-1}]
  /\ earlier \subseteq 0 .. capacity - 1

\* A flush stands at the first of the slots it has not closed yet.
Flushing ==
  cursor # -1 =>
    /\ usage \in {"direct", "clients"}
    /\ cursor \in bits /\ \A b \in bits : b >= cursor
    /\ closed \subseteq before /\ bits = before \ closed

\* PlacesApart, entry by entry.
Places ==
  /\ \A x \in Entries :
       where[x] # -1 => where[x] \in 0 .. capacity - 1 /\ where[x] \notin earlier /\ table[where[x]] = x
  /\ \A x, y \in Entries : where[x] # -1 /\ where[x] = where[y] => x = y
  /\ \A b \in Bits : b \in bits <=> b \in earlier \/ \E x \in Entries : where[x] = b

\* The slots of the earlier entries are not written to.
EarlierKept == \A s \in earlier : table[s] = Other

TablesInv ==
  /\ TablesType /\ Flushing
  /\ usage # "direct" => Places /\ EarlierKept

\* The slots of a table are among its bits.
LEMMA CapacityType ==
  ASSUME TablesType
  PROVE  capacity \in Nat /\ capacity <= BitCount /\ 0 .. capacity - 1 \subseteq Bits
<1>1. capacity \in Nat /\ capacity <= BitCount
  BY CapacityAssumption DEF TablesType
<1> QED
  BY <1>1, Sizes

LEMMA PlacesAreApart ==
  ASSUME TablesInv
  PROVE  PlacesApart
<1> SUFFICES ASSUME usage # "direct"
             PROVE  LET held == {x \in Entries : where[x] # -1}
                    IN  /\ \A x \in held : where[x] \in (0 .. capacity - 1) \ earlier /\ table[where[x]] = x
                        /\ \A x, y \in held : where[x] = where[y] => x = y
                        /\ bits = earlier \union {where[x] : x \in held}
  BY DEF PlacesApart
<1> DEFINE held == {x \in Entries : where[x] # -1}
<1>1. Places /\ TablesType /\ 0 .. capacity - 1 \subseteq Bits
  BY CapacityType DEF TablesInv
<1>2. /\ \A x \in held : where[x] \in (0 .. capacity - 1) \ earlier /\ table[where[x]] = x
      /\ \A x, y \in held : where[x] = where[y] => x = y
  BY <1>1 DEF Places
<1>3. bits = earlier \union {where[x] : x \in held}
  <2>1. -1 \notin Bits /\ bits \subseteq Bits /\ earlier \subseteq Bits
    BY <1>1, Sizes DEF TablesType
  <2>2. \A b \in Bits : b \in bits <=> b \in earlier \/ \E x \in Entries : where[x] = b
    BY <1>1 DEF Places
  <2>3. ASSUME NEW b \in bits PROVE b \in earlier \union {where[x] : x \in held}
    BY <2>1, <2>2
  <2>4. ASSUME NEW b \in earlier \union {where[x] : x \in held} PROVE b \in bits
    <3>1. b \in Bits
      BY <1>1, <1>2, <2>1
    <3> QED
      BY <2>2, <3>1
  <2> QED
    BY <2>3, <2>4
<1> QED
  BY <1>2, <1>3

\* The tables begin with their earlier entries only.
LEMMA TablesInitial == TablesInit => TablesInv
<1> SUFFICES ASSUME TablesInit PROVE TablesInv
  OBVIOUS
<1>1. /\ usage \in {"direct", "clients", "broadcast", "monitor"}
      /\ capacity \in Capacities /\ (usage = "clients" => capacity = BitCount)
  BY CapacityAssumption DEF TablesInit, BroadcastCreate, ClientsCreate, StaticMonitors
<1>2. capacity \in Nat /\ capacity <= BitCount
  BY <1>1, CapacityAssumption
<1>3. earlier \subseteq 0 .. capacity - 1
  <2>1. PICK n \in Earlier : n <= capacity /\ earlier = IF usage = "direct" THEN {} ELSE 0 .. n - 1
    BY DEF TablesInit
  <2>2. n \in Nat
    BY EarlierAssumption
  <2>3. 0 .. n - 1 \subseteq 0 .. capacity - 1
    BY <1>2, <2>1, <2>2
  <2> QED
    BY <2>1, <2>3
<1>4. bits \subseteq Bits /\ cursor = -1
  BY BitmapAssumption DEF TablesInit, Init
<1>5. /\ table = [s \in 0 .. capacity - 1 |-> IF s \in earlier THEN Other ELSE "nobody"]
      /\ where = [x \in Entries |-> -1] /\ (usage # "direct" => bits = earlier)
  BY DEF TablesInit
<1>6. TablesType
  BY <1>1, <1>3, <1>4, <1>5 DEF TablesType
<1>7. Flushing
  BY <1>4 DEF Flushing
<1>8. -1 \notin Bits
  BY Sizes
<1>9. usage # "direct" => Places /\ EarlierKept
  <2>1. usage # "direct" => Places
    BY <1>5, <1>8 DEF Places
  <2>2. EarlierKept
    BY <1>3, <1>5 DEF EarlierKept
  <2> QED
    BY <2>1, <2>2
<1> QED
  BY <1>6, <1>7, <1>9 DEF TablesInv

\* The free slot that Add and Create look for.
LEMMA FreeSlotIs ==
  ASSUME TablesType
  PROVE  \/ FreeSlot = -1 /\ Bits \subseteq bits
         \/ /\ FreeSlot \in Bits \ bits
            /\ \A b \in Bits \ bits : FreeSlot <= b
<1>1. bits \in SUBSET Bits /\ Bits \ bits \in SUBSET Nat
  BY Sizes DEF TablesType
<1>2. FreeSlot = FirstFrom(Bits \ bits, 0)
  BY <1>1, ScansReturn DEF FreeSlot
<1> DEFINE S == Bits \ bits
<1> HIDE DEF S
<1>3. \/ FreeSlot = -1 /\ \A b \in S : b < 0
      \/ FreeSlot \in S /\ \A b \in S : b >= 0 => FreeSlot <= b
  BY <1>1, <1>2, FirstFromIs DEF S
<1>4. \A b \in S : b \in Nat
  BY <1>1 DEF S
<1>5. \/ FreeSlot = -1 /\ S = {}
      \/ FreeSlot \in S /\ \A b \in S : FreeSlot <= b
  BY <1>3, <1>4
<1> QED
  BY <1>5 DEF S

\* An entry is given a slot of the table that was nobody's.
LEMMA EnterKeeps ==
  ASSUME TablesInv, usage # "direct", NEW x \in Entries, where[x] = -1, FreeSlot \in 0 .. capacity - 1,
         Enter(x), UNCHANGED <<usage, capacity>>
  PROVE  TablesInv'
<1>1. TablesType /\ Places /\ EarlierKept /\ 0 .. capacity - 1 \subseteq Bits /\ -1 \notin Bits
  BY CapacityType, Sizes DEF TablesInv
<1>2. PICK f : f = FreeSlot
  OBVIOUS
<1>3. /\ f \in 0 .. capacity - 1 /\ f \in Bits /\ f # -1 /\ f \notin bits
  BY <1>1, <1>2, FreeSlotIs
<1>4. /\ cursor = -1 /\ cursor' = -1 /\ bits' = bits \union {f}
      /\ table' = [table EXCEPT ![f] = x] /\ where' = [where EXCEPT ![x] = f]
      /\ earlier' = earlier
  BY <1>2 DEF Enter, EnableBit
<1>5. /\ f \notin earlier /\ \A y \in Entries : where[y] # f
  BY <1>1, <1>3 DEF Places
<1>6. TablesType'
  BY <1>1, <1>3, <1>4 DEF TablesType
<1>7. Flushing'
  BY <1>4 DEF Flushing
<1>8. /\ where'[x] = f /\ \A y \in Entries : y # x => where'[y] = where[y]
      /\ table'[f] = x /\ \A s \in 0 .. capacity - 1 : s # f => table'[s] = table[s]
  BY <1>1, <1>3, <1>4 DEF TablesType
<1>9. Places'
  <2>1. \A y \in Entries : where'[y] # -1 =>
          where'[y] \in 0 .. capacity - 1 /\ where'[y] \notin earlier /\ table'[where'[y]] = y
    BY <1>1, <1>3, <1>5, <1>8 DEF Places
  <2>2. \A y, z \in Entries : where'[y] # -1 /\ where'[y] = where'[z] => y = z
    BY <1>1, <1>5, <1>8 DEF Places
  <2>3. \A b \in Bits : b \in bits' <=> b \in earlier \/ \E y \in Entries : where'[y] = b
    BY <1>1, <1>4, <1>8 DEF Places
  <2> QED
    BY <1>4, <2>1, <2>2, <2>3 DEF Places
<1>10. EarlierKept'
  BY <1>1, <1>4, <1>5, <1>8 DEF EarlierKept, TablesType
<1> QED
  BY <1>6, <1>7, <1>9, <1>10 DEF TablesInv

\* An entry's slot is nobody's once it is freed.
LEMMA FreeKeeps ==
  ASSUME TablesInv, usage # "direct", NEW x \in Entries, Free(x), UNCHANGED <<usage, capacity>>
  PROVE  TablesInv'
<1>1. TablesType /\ Places /\ EarlierKept /\ 0 .. capacity - 1 \subseteq Bits /\ -1 \notin Bits
  BY CapacityType, Sizes DEF TablesInv
<1>2. PICK f : f = where[x]
  OBVIOUS
<1>3. /\ cursor = -1 /\ cursor' = -1 /\ bits' = bits \ {f} /\ f # -1
      /\ where' = [where EXCEPT ![x] = -1] /\ table' = table /\ earlier' = earlier
  BY <1>2 DEF Free, DisableBit
<1>4. f \in Bits /\ f \notin earlier
  BY <1>1, <1>2, <1>3 DEF Places
<1>5. where'[x] = -1 /\ \A y \in Entries : y # x => where'[y] = where[y]
  BY <1>1, <1>3 DEF TablesType
<1>6. TablesType'
  BY <1>1, <1>3 DEF TablesType
<1>7. Flushing'
  BY <1>3 DEF Flushing
<1>8. Places'
  <2>1. \A y \in Entries : where'[y] # -1 =>
          where'[y] \in 0 .. capacity - 1 /\ where'[y] \notin earlier /\ table'[where'[y]] = y
    BY <1>1, <1>3, <1>5 DEF Places
  <2>2. \A y, z \in Entries : where'[y] # -1 /\ where'[y] = where'[z] => y = z
    BY <1>1, <1>5 DEF Places
  <2>3. \A b \in Bits : b \in bits' <=> b \in earlier \/ \E y \in Entries : where'[y] = b
    BY <1>1, <1>2, <1>3, <1>4, <1>5 DEF Places
  <2> QED
    BY <1>3, <2>1, <2>2, <2>3 DEF Places
<1>9. EarlierKept'
  BY <1>1, <1>3 DEF EarlierKept
<1> QED
  BY <1>6, <1>7, <1>8, <1>9 DEF TablesInv

\* The flush goes to the first slot that is left, and the ones before it are closed.
LEMMA FlushGoesOn ==
  ASSUME TablesType, Flushing, FlushBegin \/ FlushStep
  PROVE  /\ bits' \subseteq bits /\ cursor' \in Bits \union {-1}
         /\ cursor # -1 => bits' = bits \ {cursor}
         /\ cursor = -1 => bits' = bits
         /\ cursor' = -1 => bits' = {}
         /\ cursor' # -1 => /\ cursor' \in bits' /\ \A b \in bits' : b >= cursor'
                            /\ closed' \subseteq before' /\ bits' = before' \ closed'
<1>0. bits \in SUBSET Bits /\ cursor \in Bits \union {-1} /\ Bits \subseteq Nat
  BY Sizes DEF TablesType
<1>1. ASSUME NEW map \in SUBSET Bits, NEW o \in Nat, \A b \in map : b >= o,
             cursor' = NextOccupiedBit(map, o)
      PROVE  \/ cursor' = -1 /\ map = {}
             \/ cursor' \in map /\ \A b \in map : b >= cursor'
  <2>1. cursor' = FirstFrom(map, o) /\ map \in SUBSET Nat
    BY <1>0, <1>1, ScansReturn
  <2>2. \/ cursor' = -1 /\ \A b \in map : b < o
        \/ cursor' \in map /\ \A b \in map : b >= o => cursor' <= b
    BY <2>1, FirstFromIs
  <2>3. \A b \in map : b \in Nat /\ ~ (b < o)
    BY <1>1, <2>1
  <2>4. CASE cursor' = -1 /\ \A b \in map : b < o
    BY <2>3, <2>4
  <2>5. CASE cursor' \in map /\ \A b \in map : b >= o => cursor' <= b
    BY <1>1, <2>3, <2>5
  <2> QED
    BY <2>2, <2>4, <2>5
<1>2. CASE FlushBegin
  <2>1. cursor = -1 /\ bits' = bits /\ cursor' = NextOccupiedBit(bits, 0)
        /\ (cursor' # -1 => before' = bits /\ closed' = {})
    BY <1>2 DEF FlushBegin, FlushTo
  <2>2. \A b \in bits : b >= 0
    BY <1>0
  <2>3. \/ cursor' = -1 /\ bits = {}
        \/ cursor' \in bits /\ \A b \in bits : b >= cursor'
    BY <1>0, <1>1, <2>1, <2>2
  <2>4. CASE cursor' = -1 /\ bits = {}
    BY <2>1, <2>4
  <2>5. CASE cursor' \in bits /\ \A b \in bits : b >= cursor'
    <3>1. cursor' \in Bits /\ cursor' # -1
      BY <1>0, <2>5
    <3> QED
      BY <2>1, <2>5, <3>1
  <2> QED
    BY <2>3, <2>4, <2>5
<1>3. CASE FlushStep
  <2>1. /\ cursor # -1 /\ bits' = bits \ {cursor} /\ cursor' = NextOccupiedBit(bits', cursor + 1)
        /\ (cursor' # -1 => before' = before /\ closed' = closed \union {cursor})
    BY <1>3 DEF FlushStep, FlushTo
  <2>2. /\ cursor \in bits /\ \A b \in bits : b >= cursor
        /\ closed \subseteq before /\ bits = before \ closed
    BY <2>1 DEF Flushing
  <2>3. bits' \in SUBSET Bits /\ cursor + 1 \in Nat /\ \A b \in bits' : b >= cursor + 1
    <3>1. cursor \in Nat /\ \A b \in bits' : b \in Nat /\ b >= cursor /\ b # cursor
      BY <1>0, <2>1, <2>2
    <3> QED
      BY <1>0, <2>1, <3>1
  <2>4. \/ cursor' = -1 /\ bits' = {}
        \/ cursor' \in bits' /\ \A b \in bits' : b >= cursor'
    BY <1>1, <2>1, <2>3
  <2>5. CASE cursor' = -1 /\ bits' = {}
    BY <2>1, <2>5
  <2>6. CASE cursor' \in bits' /\ \A b \in bits' : b >= cursor'
    <3>1. cursor' \in Bits /\ cursor' # -1
      BY <1>0, <2>1, <2>6
    <3> QED
      BY <2>1, <2>2, <2>6, <3>1
  <2> QED
    BY <2>4, <2>5, <2>6
<1> QED
  BY <1>2, <1>3

\* A turn of the flush takes the entry it closes out of the table.
LEMMA ClientsFlushKeeps ==
  ASSUME TablesInv, ClientsFlushBegin \/ ClientsFlushStep, UNCHANGED <<usage, capacity>>
  PROVE  TablesInv'
<1>0. usage = "clients"
  BY DEF ClientsFlushBegin, ClientsFlushStep
<1>1. /\ TablesType /\ Flushing /\ Places /\ EarlierKept
      /\ 0 .. capacity - 1 \subseteq Bits /\ -1 \notin Bits
  BY <1>0, CapacityType, Sizes DEF TablesInv
<1>2. /\ bits' \subseteq bits /\ cursor' \in Bits \union {-1}
      /\ cursor # -1 => bits' = bits \ {cursor}
      /\ cursor = -1 => bits' = bits
      /\ cursor' # -1 => /\ cursor' \in bits' /\ \A b \in bits' : b >= cursor'
                         /\ closed' \subseteq before' /\ bits' = before' \ closed'
  BY <1>1, FlushGoesOn DEF ClientsFlushBegin, ClientsFlushStep
<1>3. Flushing'
  BY <1>0, <1>2 DEF Flushing
<1>4. CASE ClientsFlushBegin
  <2>1. UNCHANGED <<table, where, earlier>> /\ bits' = bits
    BY <1>4 DEF ClientsFlushBegin, tableVars, FlushBegin
  <2> QED
    BY <1>1, <1>2, <1>3, <2>1 DEF TablesInv, TablesType, Places, EarlierKept
<1>5. CASE ClientsFlushStep
  <2>1. PICK c : c = cursor
    OBVIOUS
  <2>2. /\ c # -1 /\ c \in Bits /\ bits' = bits \ {c} /\ table' = table /\ earlier' = earlier \ {c}
        /\ where' = [x \in Entries |-> IF where[x] = c THEN -1 ELSE where[x]]
    BY <1>1, <1>2, <1>5, <2>1 DEF ClientsFlushStep, FlushStep, TablesType
  <2>3. TablesType'
    BY <1>1, <1>2, <2>2 DEF TablesType
  <2>4. Places'
    <3>1. \A y \in Entries : where'[y] # -1 =>
            where'[y] \in 0 .. capacity - 1 /\ where'[y] \notin earlier' /\ table'[where'[y]] = y
      BY <1>1, <2>2 DEF Places
    <3>2. \A y, z \in Entries : where'[y] # -1 /\ where'[y] = where'[z] => y = z
      BY <1>1, <2>2 DEF Places
    <3>3. \A b \in Bits : b \in bits' <=> b \in earlier' \/ \E y \in Entries : where'[y] = b
      BY <1>1, <2>2 DEF Places
    <3> QED
      BY <3>1, <3>2, <3>3 DEF Places
  <2>5. EarlierKept'
    BY <1>1, <2>2 DEF EarlierKept
  <2> QED
    BY <1>3, <2>3, <2>4, <2>5 DEF TablesInv
<1> QED
  BY <1>4, <1>5

\* Every call keeps the invariant.
LEMMA TablesInductive == TablesInv /\ [TablesNext]_allVars => TablesInv'
<1> SUFFICES ASSUME TablesInv, [TablesNext]_allVars PROVE TablesInv'
  OBVIOUS
<1>0. TablesType /\ Flushing
  BY DEF TablesInv
<1>1. ASSUME UNCHANGED <<vars, usage, capacity, table, where, earlier>> PROVE TablesInv'
  BY <1>1 DEF vars, TablesInv, TablesType, Flushing, Places, EarlierKept
<1>2. ASSUME usage = "direct", Next, UNCHANGED tableVars, UNCHANGED <<usage, capacity>>
      PROVE  TablesInv'
  <2>1. UNCHANGED <<table, where, earlier>>
    BY <1>2 DEF tableVars
  <2>2. bits' \subseteq Bits /\ cursor' \in Bits \union {-1} /\ Flushing'
    <3>1. CASE FlushBegin \/ FlushStep
      BY <1>0, <1>2, <3>1, FlushGoesOn DEF TablesType, Flushing
    <3>2. CASE CleanOrder \/ \E idx \in Indices : EnableBit(idx) \/ DisableBit(idx)
      BY <1>0, <3>2, BitmapAssumption DEF CleanOrder, EnableBit, DisableBit, TablesType, Flushing
    <3> QED
      BY <1>2, <3>1, <3>2 DEF Next
  <2> QED
    BY <1>0, <1>2, <2>1, <2>2 DEF TablesInv, TablesType
<1>3. ASSUME NEW x \in Entries, Refuse, UNCHANGED <<usage, capacity>> PROVE TablesInv'
  BY <1>1, <1>3 DEF Refuse
<1>4. ASSUME NEW x \in Entries, usage # "direct", where[x] = -1, Enter(x),
             UNCHANGED <<usage, capacity>>, FreeSlot # -1, FreeSlot < capacity
      PROVE  TablesInv'
  <2>1. FreeSlot \in Bits /\ capacity \in Nat
    BY <1>0, <1>4, FreeSlotIs, CapacityType
  <2>2. FreeSlot \in 0 .. capacity - 1
    BY <1>4, <2>1, Sizes
  <2> QED
    BY <1>4, <2>2, EnterKeeps
<1>5. ASSUME NEW x \in Entries, UNCHANGED <<usage, capacity>>,
             BroadcastAdd(x) \/ ClientsAdd(x) \/ MonitorCreate(x)
      PROVE  TablesInv'
  <2>1. usage # "direct" /\ where[x] = -1
    BY <1>5 DEF BroadcastAdd, ClientsAdd, MonitorCreate
  <2>2. capacity \in Nat /\ BitCount \in Nat /\ FreeSlot \in Bits \union {-1}
    BY <1>0, FreeSlotIs, CapacityType, Sizes
  <2>3. FreeSlot \in Int
    BY <2>2, Sizes
  <2>4. CASE Refuse
    BY <1>3, <1>5, <2>4
  <2>5. CASE ~ Refuse
    <3>1. Enter(x) /\ FreeSlot # -1
      BY <1>5, <2>5 DEF BroadcastAdd, ClientsAdd, MonitorCreate
    <3>2. FreeSlot < capacity
      <4>1. CASE usage = "clients"
        <5>1. capacity = BitCount /\ FreeSlot \in 0 .. BitCount - 1
          BY <1>0, <2>2, <3>1, <4>1, Sizes DEF TablesType
        <5> QED
          BY <2>2, <5>1
      <4>2. CASE usage # "clients"
        <5>1. ~ (FreeSlot >= capacity)
          BY <1>5, <2>5, <4>2 DEF BroadcastAdd, ClientsAdd, MonitorCreate
        <5> QED
          BY <2>2, <2>3, <5>1
      <4> QED
        BY <4>1, <4>2
    <3> QED
      BY <1>4, <1>5, <2>1, <3>1, <3>2
  <2> QED
    BY <2>4, <2>5
<1>6. ASSUME NEW x \in Entries, UNCHANGED <<usage, capacity>>, ClientsDel(x) \/ MonitorDestroy(x)
      PROVE  TablesInv'
  BY <1>6, FreeKeeps DEF ClientsDel, MonitorDestroy
<1>7. ASSUME NEW x \in Entries, UNCHANGED <<usage, capacity>>, BroadcastDel(x) PROVE TablesInv'
  BY <1>1, <1>7 DEF BroadcastDel
<1>8. CASE UNCHANGED allVars
  BY <1>1, <1>8 DEF allVars, tableVars
<1>9. ASSUME UNCHANGED <<usage, capacity>>, ClientsDelMisaligned PROVE TablesInv'
  BY <1>1, <1>9 DEF ClientsDelMisaligned
<1> QED
  BY <1>2, <1>5, <1>6, <1>7, <1>8, <1>9, ClientsFlushKeeps DEF TablesNext

\* TablesInv holds in every state.
LEMMA TablesInvariant == TablesSpec => []TablesInv
BY TablesInitial, TablesInductive, PTL DEF TablesSpec

-----------------------------------------------------------------------------
(* The theorems *)

\* The scans of bitmap.c return the first wanted bit from the offset on, for
\* every length of the bitmap and of a byte, every contents, every offset and
\* whatever the memory after the bitmap holds: the chunks of eight, four, two and
\* one byte (bitmap.c lines 15-88) leave no bit out and read none beyond the end.
THEOREM ScansAlwaysExact == TablesSpec => []ScansExact
<1>1. TablesInv => ScansExact
  <2> SUFFICES ASSUME TablesInv, NEW offset \in Offsets
               PROVE  /\ NextOccupiedBit(bits, offset) = FirstFrom(bits, offset)
                      /\ NextAvaibleBit(bits, offset) = FirstFrom(Bits \ bits, offset)
    BY DEF ScansExact
  <2>1. bits \in SUBSET Bits /\ offset \in Nat
    BY BitmapAssumption DEF TablesInv, TablesType
  <2> QED
    BY <2>1, ScansReturn
<1> QED
  BY <1>1, TablesInvariant, PTL

\* In each of the three tables an entry that is held is in a slot of its own, with
\* its bit set, and no other bit is set, for every capacity and any calls.
THEOREM PlacesStayApart == TablesSpec => []PlacesApart
<1>1. TablesInv => PlacesApart
  BY PlacesAreApart
<1> QED
  BY <1>1, TablesInvariant, PTL

\* Add and Create refuse an entry only when every slot of the table is held, for
\* every capacity; a deleted client of the broadcast still holds its slot (clients.c, broadcast.c line 54, monitor.c line 75).
THEOREM RefusedOnlyWhenFull == TablesSpec => RefusedWhenFull
<1>1. ASSUME TablesInv, NEW x \in Entries, BroadcastAdd(x) \/ ClientsAdd(x) \/ MonitorCreate(x)
      PROVE  \/ status' = "SUCCESS"
             \/ Cardinality(earlier \union ({where[y] : y \in Entries} \ {-1})) = capacity
  <2>1. CASE Enter(x)
    BY <2>1 DEF Enter
  <2>2. CASE ~ Enter(x)
    <3>1. FreeSlot = -1 \/ FreeSlot >= capacity
      BY <1>1, <2>2 DEF BroadcastAdd, ClientsAdd, MonitorCreate
    <3>2. /\ TablesType /\ Places /\ capacity \in Nat /\ 0 .. capacity - 1 \subseteq Bits
          /\ -1 \notin Bits
      BY <1>1, CapacityType, Sizes DEF TablesInv, BroadcastAdd, ClientsAdd, MonitorCreate
    <3>3. 0 .. capacity - 1 \subseteq bits
      <4>1. CASE FreeSlot = -1
        BY <3>2, <4>1, FreeSlotIs
      <4>2. CASE FreeSlot # -1
        <5>1. FreeSlot \in Bits /\ \A b \in Bits \ bits : FreeSlot <= b
          BY <3>2, <4>2, FreeSlotIs
        <5>2. FreeSlot \in Nat /\ FreeSlot >= capacity
          BY <3>1, <4>2, <5>1, Sizes
        <5> SUFFICES ASSUME NEW b \in 0 .. capacity - 1, b \notin bits PROVE FALSE
          OBVIOUS
        <5>3. b \in Bits \ bits
          BY <3>2
        <5>4. FreeSlot <= b
          BY <5>1, <5>3
        <5> QED
          BY <3>2, <5>2, <5>4
      <4> QED
        BY <4>1, <4>2
    <3>4. earlier \union ({where[y] : y \in Entries} \ {-1}) = 0 .. capacity - 1
      <4>1. earlier \subseteq 0 .. capacity - 1
            /\ \A y \in Entries : where[y] = -1 \/ where[y] \in 0 .. capacity - 1
        BY <3>2 DEF TablesType
      <4>2. \A b \in 0 .. capacity - 1 : b # -1 /\ (b \in earlier \/ \E y \in Entries : where[y] = b)
        BY <3>2, <3>3 DEF Places
      <4> DEFINE I == 0 .. capacity - 1
      <4> HIDE DEF I
      <4>3. /\ earlier \subseteq I /\ \A y \in Entries : where[y] = -1 \/ where[y] \in I
            /\ \A b \in I : b # -1 /\ (b \in earlier \/ \E y \in Entries : where[y] = b)
        BY <4>1, <4>2 DEF I
      <4>4. earlier \union ({where[y] : y \in Entries} \ {-1}) = I
        BY <4>3
      <4> QED
        BY <4>4 DEF I
    <3>5. Cardinality(0 .. capacity - 1) = capacity
      BY <3>2, FS_Interval
    <3> QED
      BY <3>4, <3>5
  <2> QED
    BY <2>1, <2>2
<1>2. TablesInv /\ [TablesNext]_allVars =>
        [\A x \in Entries :
           BroadcastAdd(x) \/ ClientsAdd(x) \/ MonitorCreate(x) =>
             status' = "SUCCESS" \/
             Cardinality(earlier \union ({where[y] : y \in Entries} \ {-1})) = capacity]_allVars
  BY <1>1
<1> QED
  BY <1>2, TablesInvariant, PTL DEF TablesSpec, RefusedWhenFull

\* mcmchClientBroadcastFlush closes every client of the table once and leaves it
\* empty, for every length of the bitmap and any clients.
THEOREM FlushClosesEveryClient == TablesSpec => FlushClosesAll
<1>1. ASSUME TablesInv, [TablesNext]_allVars, vars' # vars
      PROVE  /\ cursor # -1 => cursor \in before \ closed
             /\ cursor' = -1 /\ cursor # -1 => closed = before \ {cursor} /\ bits' = {}
  <2>1. TablesType /\ Flushing
    BY <1>1 DEF TablesInv
  <2>2. cursor # -1 => cursor \in before \ closed
    BY <2>1 DEF Flushing
  <2>3. ASSUME cursor' = -1, cursor # -1 PROVE closed = before \ {cursor} /\ bits' = {}
    <3>1. FlushStep
      BY <1>1, <2>3 DEF allVars, TablesNext, Next, CleanOrder, EnableBit, DisableBit, FlushBegin,
         ClientsFlushBegin, ClientsFlushStep, ClientsDelMisaligned, BroadcastAdd, BroadcastDel, ClientsAdd, ClientsDel,
         MonitorCreate, MonitorDestroy, Enter, Refuse, Free
    <3>2. bits' = {} /\ bits' = bits \ {cursor}
      BY <2>1, <2>3, <3>1, FlushGoesOn
    <3> QED
      BY <2>1, <2>3, <3>2 DEF Flushing
  <2> QED
    BY <2>2, <2>3
<1>2. TablesInv /\ [TablesNext]_allVars =>
        [/\ cursor # -1 => cursor \in before \ closed
         /\ cursor' = -1 /\ cursor # -1 => closed = before \ {cursor} /\ bits' = {}]_vars
  BY <1>1
<1> QED
  BY <1>2, TablesInvariant, PTL DEF TablesSpec, FlushClosesAll

-----------------------------------------------------------------------------
(* The look-up of a client *)

\* One turn of the walk of mcmchClientGetBitIndex, with f for the turns that follow.
WalkTurn(x, f, s) ==
  IF s = -1 THEN -1
  ELSE IF table[s] = x THEN s
  ELSE f[NextOccupiedBit(bits, s + 1)]

\* The walk as an equation, which holds of it if anything solves it.
LEMMA WalkUnfolds ==
  ASSUME NEW x, \E f : f = [s \in -1 .. BitCount - 1 |-> WalkTurn(x, f, s)]
  PROVE  \E f : /\ f = [s \in -1 .. BitCount - 1 |-> WalkTurn(x, f, s)]
                /\ GetBitIndex(x) = f[NextOccupiedBit(bits, 0)]
<1> DEFINE Step(f, s) == CASE s = -1 -> -1
                           [] s # -1 /\ table[s] = x -> s
                           [] OTHER -> f[NextOccupiedBit(bits, s + 1)]
           R(f) == f = [s \in -1 .. BitCount - 1 |-> Step(f, s)]
<1>1. GetBitIndex(x) = (CHOOSE f : R(f))[NextOccupiedBit(bits, 0)]
  BY Zenon DEF GetBitIndex
<1>2. ASSUME NEW f, NEW s PROVE Step(f, s) = WalkTurn(x, f, s)
  BY DEF WalkTurn
<1> HIDE DEF Step
<1>3. ASSUME NEW f PROVE R(f) <=> f = [s \in -1 .. BitCount - 1 |-> WalkTurn(x, f, s)]
  BY <1>2
<1>4. R(CHOOSE f : R(f))
  <2>1. \E f : R(f)
    BY <1>3
  <2> HIDE DEF R
  <2> QED
    BY <2>1
<1> HIDE DEF R
<1> QED
  BY <1>1, <1>3, <1>4

\* Where the walk goes from a slot: to a taken slot beyond it, and past none.
LEMMA WalkGoesOn ==
  ASSUME TablesType, NEW o \in Nat
  PROVE  LET n == NextOccupiedBit(bits, o)
         IN  \/ n = -1 /\ \A b \in bits : b < o
             \/ /\ n \in bits /\ n >= o /\ n \in 0 .. BitCount - 1
                /\ \A b \in bits : b >= o => n <= b
<1>1. bits \in SUBSET Bits /\ bits \in SUBSET Nat /\ bits \subseteq 0 .. BitCount - 1
  BY Sizes DEF TablesType
<1>2. NextOccupiedBit(bits, o) = FirstFrom(bits, o)
  BY <1>1, ScansReturn
<1> QED
  BY <1>1, <1>2, FirstFromIs

\* Only one walk solves the equation.
LEMMA WalksUnique ==
  ASSUME TablesType, NEW x, NEW f, NEW g,
         f = [s \in -1 .. BitCount - 1 |-> WalkTurn(x, f, s)],
         g = [s \in -1 .. BitCount - 1 |-> WalkTurn(x, g, s)]
  PROVE  f = g
<1> DEFINE Stops == -1 .. BitCount - 1
           Left  == {k \in Nat : \E s \in 0 .. BitCount - 1 : k = BitCount - s /\ f[s] # g[s]}
<1>0. /\ BitCount \in Nat /\ BitCount > 0
      /\ \A s \in Stops : f[s] = WalkTurn(x, f, s) /\ g[s] = WalkTurn(x, g, s)
  <2>1. \A s \in Stops : f[s] = WalkTurn(x, f, s) /\ g[s] = WalkTurn(x, g, s)
    BY Zenon
  <2> QED
    BY <2>1, Sizes
<1>1. f[-1] = g[-1]
  <2>1. -1 \in Stops
    BY <1>0
  <2> QED
    BY <1>0, <2>1 DEF WalkTurn
<1>2. ASSUME Left # {} PROVE FALSE
  <2>1. PICK k \in Left : \A l \in Left : k <= l
    BY <1>2, MinOfBits
  <2>2. PICK s \in 0 .. BitCount - 1 : k = BitCount - s /\ f[s] # g[s]
    BY <2>1
  <2>3. s \in Stops /\ s \in Nat /\ s + 1 \in Nat /\ s # -1
    BY <1>0, <2>2
  <2>4. PICK n : n = NextOccupiedBit(bits, s + 1)
    OBVIOUS
  <2>5. f[n] # g[n]
    BY <1>0, <2>2, <2>3, <2>4 DEF WalkTurn
  <2>6. n = -1 \/ (n \in 0 .. BitCount - 1 /\ n >= s + 1)
    BY <2>3, <2>4, WalkGoesOn
  <2>7. n \in 0 .. BitCount - 1 /\ n > s
    BY <1>1, <2>3, <2>5, <2>6
  <2>8. BitCount - n \in Left
    BY <1>0, <2>5, <2>7
  <2>9. k <= BitCount - n
    BY <2>1, <2>8
  <2>10. n \in Nat
    BY <1>0, <2>7
  <2> HIDE DEF Left
  <2> QED
    BY <1>0, <2>2, <2>3, <2>7, <2>9, <2>10
<1>3. \A s \in Stops : f[s] = g[s]
  <2> SUFFICES ASSUME NEW s \in Stops, s # -1 PROVE f[s] = g[s]
    BY <1>1
  <2>1. s \in 0 .. BitCount - 1 /\ BitCount - s \in Nat
    BY <1>0
  <2> QED
    BY <1>2, <2>1
<1>4. f = [s \in Stops |-> f[s]] /\ g = [s \in Stops |-> g[s]]
  BY Zenon
<1> QED
  BY <1>3, <1>4

\* Of the taken slots, the one that has the client's contents is the client's.
LEMMA OneSlotEach ==
  ASSUME TablesInv, usage = "clients", NEW x \in Entries
  PROVE  /\ where[x] # -1 => where[x] \in bits
         /\ \A b \in bits : table[b] = x <=> b = where[x]
<1>1. /\ TablesType /\ Places /\ EarlierKept /\ 0 .. capacity - 1 \subseteq Bits /\ -1 \notin Bits
      /\ bits \subseteq Bits
  BY CapacityType, Sizes DEF TablesInv, TablesType
<1>2. where[x] # -1 => where[x] \in Bits /\ table[where[x]] = x
  BY <1>1 DEF Places
<1>3. where[x] # -1 => where[x] \in bits
  BY <1>1, <1>2 DEF Places
<1>4. ASSUME NEW b \in bits, table[b] = x PROVE b = where[x]
  <2>1. b \in Bits /\ b # -1
    BY <1>1
  <2>2. b \notin earlier
    BY <1>1, <1>4, EntriesAssumption DEF EarlierKept
  <2>3. PICK y \in Entries : where[y] = b
    BY <1>1, <2>1, <2>2 DEF Places
  <2>4. table[b] = y
    BY <1>1, <2>1, <2>3 DEF Places
  <2> QED
    BY <1>4, <2>3, <2>4
<1>5. ASSUME NEW b \in bits, b = where[x] PROVE table[b] = x
  BY <1>1, <1>2, <1>5
<1> QED
  BY <1>3, <1>4, <1>5

\* What the walk finds from a slot on.
LEMMA WalkFinds ==
  ASSUME TablesInv, usage = "clients", NEW x \in Entries, NEW g,
         g = [s \in -1 .. BitCount - 1 |->
                IF s = -1 THEN -1
                ELSE IF table[s] = x THEN s
                ELSE IF where[x] > s THEN where[x] ELSE -1]
  PROVE  /\ g = [s \in -1 .. BitCount - 1 |-> WalkTurn(x, g, s)]
         /\ g[NextOccupiedBit(bits, 0)] = where[x]
<1>0. /\ TablesType /\ BitCount \in Nat /\ BitCount > 0 /\ bits \subseteq Nat
      /\ where[x] \in Nat \union {-1}
      /\ where[x] # -1 => where[x] \in bits
      /\ \A b \in bits : table[b] = x <=> b = where[x]
  <2>1. TablesType /\ bits \subseteq Nat /\ capacity \in Nat
    BY CapacityType, Sizes DEF TablesInv, TablesType
  <2>2. where[x] \in Nat \union {-1}
    BY <2>1 DEF TablesType
  <2> QED
    BY <2>1, <2>2, OneSlotEach, Sizes
<1>1. PICK p : p = where[x]
  OBVIOUS
<1>2. p \in Int /\ p \in Nat \union {-1} /\ (p # -1 => p \in bits) /\ \A b \in bits : table[b] = x <=> b = p
  BY <1>0, <1>1
<1>3. \A s \in -1 .. BitCount - 1 :
        g[s] = IF s = -1 THEN -1 ELSE IF table[s] = x THEN s ELSE IF p > s THEN p ELSE -1
  BY <1>1, Zenon
<1>4. g[-1] = -1
  <2>1. -1 \in -1 .. BitCount - 1
    BY <1>0
  <2> QED
    BY <1>3, <2>1
\* From a taken slot on.
<1>5. ASSUME NEW n \in bits, n \in 0 .. BitCount - 1 PROVE g[n] = IF p >= n THEN p ELSE -1
  <2>1. n \in -1 .. BitCount - 1 /\ n \in Nat /\ n # -1
    BY <1>0, <1>5
  <2>2. g[n] = IF table[n] = x THEN n ELSE IF p > n THEN p ELSE -1
    BY <1>3, <2>1
  <2>3. CASE n = p
    BY <1>2, <2>1, <2>2, <2>3
  <2>4. CASE n # p
    BY <1>2, <2>1, <2>2, <2>4
  <2> QED
    BY <2>3, <2>4
<1>6. ASSUME NEW o \in Nat PROVE g[NextOccupiedBit(bits, o)] = IF p >= o THEN p ELSE -1
  <2>1. PICK n : n = NextOccupiedBit(bits, o)
    OBVIOUS
  <2>2. \/ n = -1 /\ \A b \in bits : b < o
        \/ /\ n \in bits /\ n >= o /\ n \in 0 .. BitCount - 1
           /\ \A b \in bits : b >= o => n <= b
    BY <1>0, <2>1, WalkGoesOn
  <2>3. CASE n = -1 /\ \A b \in bits : b < o
    <3>1. ~ (p >= o)
      BY <1>2, <2>3
    <3> QED
      BY <1>4, <2>1, <2>3, <3>1
  <2>4. CASE /\ n \in bits /\ n >= o /\ n \in 0 .. BitCount - 1
             /\ \A b \in bits : b >= o => n <= b
    <3>1. n \in Nat /\ (p >= o <=> p >= n)
      <4>1. n \in Nat
        BY <1>0, <2>4
      <4>2. CASE p = -1
        BY <2>4, <4>1, <4>2
      <4>3. CASE p # -1
        <5>1. p \in bits /\ p \in Nat
          BY <1>0, <1>2, <4>3
        <5> QED
          BY <2>4, <4>1, <5>1
      <4> QED
        BY <4>2, <4>3
    <3>2. g[n] = IF p >= n THEN p ELSE -1
      BY <1>5, <2>4
    <3> QED
      BY <2>1, <3>1, <3>2
  <2> QED
    BY <2>2, <2>3, <2>4
<1>7. g[NextOccupiedBit(bits, 0)] = where[x]
  <2>1. g[NextOccupiedBit(bits, 0)] = IF p >= 0 THEN p ELSE -1
    BY <1>6
  <2> QED
    BY <1>1, <1>2, <2>1
<1>8. ASSUME NEW s \in -1 .. BitCount - 1 PROVE g[s] = WalkTurn(x, g, s)
  <2>1. CASE s = -1
    BY <1>4, <2>1 DEF WalkTurn
  <2>2. CASE s # -1 /\ table[s] = x
    BY <1>3, <2>2 DEF WalkTurn
  <2>3. CASE s # -1 /\ table[s] # x
    <3>1. s \in Nat /\ s + 1 \in Nat
      BY <1>0, <2>3
    <3>2. g[NextOccupiedBit(bits, s + 1)] = IF p >= s + 1 THEN p ELSE -1
      BY <1>6, <3>1
    <3>3. WalkTurn(x, g, s) = IF p >= s + 1 THEN p ELSE -1
      BY <2>3, <3>2 DEF WalkTurn
    <3>4. g[s] = IF p > s THEN p ELSE -1
      BY <1>3, <2>3
    <3> QED
      BY <1>2, <3>1, <3>3, <3>4
  <2> QED
    BY <2>1, <2>2, <2>3
<1>9. g = [s \in -1 .. BitCount - 1 |-> g[s]]
  BY Zenon
<1>10. g = [s \in -1 .. BitCount - 1 |-> WalkTurn(x, g, s)]
  BY <1>8, <1>9
<1> QED
  BY <1>7, <1>10

\* A client is found by its descriptor exactly while it is in the table
\* (linux/clients.c lines 14-21), for every length of the table, any clients and
\* whatever the freed slots still hold.
THEOREM LookupAlwaysExact == TablesSpec => []LookupExact
<1>1. TablesInv => LookupExact
  <2> SUFFICES ASSUME TablesInv, usage = "clients", NEW x \in Entries PROVE GetBitIndex(x) = where[x]
    BY DEF LookupExact
  <2>1. PICK g : /\ g = [s \in -1 .. BitCount - 1 |-> WalkTurn(x, g, s)]
                 /\ g[NextOccupiedBit(bits, 0)] = where[x]
    BY WalkFinds
  <2>2. PICK f : /\ f = [s \in -1 .. BitCount - 1 |-> WalkTurn(x, f, s)]
                 /\ GetBitIndex(x) = f[NextOccupiedBit(bits, 0)]
    <3>1. \E f : f = [s \in -1 .. BitCount - 1 |-> WalkTurn(x, f, s)]
      BY <2>1
    <3> QED
      BY <3>1, WalkUnfolds
  <2>3. f = g
    BY <2>1, <2>2, WalksUnique DEF TablesInv
  <2> QED
    BY <2>1, <2>2, <2>3
<1> QED
  BY <1>1, TablesInvariant, PTL
=============================================================================
