------------------------------- MODULE Bitmap -------------------------------
(***************************************************************************)
(* The plain bitmap of utilities/src/common/bitmap.c, which its callers    *)
(* use from one thread, or under a lock, as a table of free and taken      *)
(* slots.  The scans compare whole chunks of eight, four and two bytes     *)
(* where they can; here they are functions of the bitmap, written with the *)
(* chunks of the C code, and are compared with what they should return.    *)
(* The walk that empties a table while it goes over it is the loop of      *)
(* mcmchClientBroadcastFlush in server/src/common/clients.c (and of        *)
(* heartbeat.c, lines 47-56).                                              *)
(***************************************************************************)
EXTENDS Integers, FiniteSets, FiniteSetsExt

CONSTANTS
  ByteCount,      \* the len of the scans
  WordBits,       \* bits of a byte (8 in the code)
  Indices,        \* the bits callers enable and disable
  Offsets,        \* the offsets callers scan from
  InitialBitmaps, \* what the table holds at first
  Beyond          \* the set bits of the memory after the bitmap

BitCount == ByteCount * WordBits
Bits     == 0 .. BitCount - 1

\* The bitmap and the eight bytes after it, as far as a chunk could reach.
Memory == 0 .. BitCount + 8 * WordBits - 1

ASSUME BitmapAssumption ==
  /\ ByteCount \in Nat \ {0} /\ WordBits \in Nat \ {0}
  /\ Indices \subseteq Bits /\ Offsets \subseteq Nat
  /\ InitialBitmaps \subseteq SUBSET Bits
  /\ Beyond \subseteq Memory \ Bits

VARIABLES
  bits,    \* the enabled bits
  cursor,  \* bitidx of the flush loop, -1 when no flush is going on
  before,  \* history: the enabled bits when the flush began
  closed   \* history: the slots the flush has closed

vars == <<bits, cursor, before, closed>>

-----------------------------------------------------------------------------
(* The scans *)

\* Mutant: the loop of eight bytes is guarded like the one of four.
BadChunk(i) ==
  CASE i + 4 < ByteCount -> 8
    [] i + 4 >= ByteCount /\ i + 2 < ByteCount -> 2
    [] OTHER -> 1

\* Bytes the loops at lines 28-50 (67-86) compare at once at byte i: a chunk is
\* only used while it leaves at least one byte for the loops after it.
Chunk(i) ==
  CASE i + 8 < ByteCount -> 8
    [] i + 8 >= ByteCount /\ i + 4 < ByteCount -> 4
    [] i + 4 >= ByteCount /\ i + 2 < ByteCount -> 2
    [] OTHER -> 1

\* The set bits of the bytes from i up to j, excluded.
BytesFrom(map, i, j) == {b \in map : i * WordBits <= b /\ b < j * WordBits}

\* The four loops, from byte i on: the lowest set bit of the first chunk that
\* is not zero (__builtin_ctz), or -1.
ScanBytes(map) ==
  LET scan[i \in Nat] ==
        IF i >= ByteCount THEN -1
        ELSE LET chunk == BytesFrom(map, i, i + Chunk(i))
             IN  IF chunk # {} THEN Min(chunk) ELSE scan[i + Chunk(i)]
  IN  scan

\* The first byte, without the bits below the offset, and then the others.
ScanFrom(map, offset) ==
  LET i     == offset \div WordBits
      first == {b \in BytesFrom(map, i, i + 1) : b % WordBits >= offset % WordBits}
  IN  CASE i >= ByteCount -> -1
        [] i < ByteCount /\ first # {} -> Min(first)
        [] OTHER -> ScanBytes(map)[i + 1]

\* A scan reads the memory its chunks cover, whatever the bitmap's end is.
NextOccupiedBit(map, offset) == ScanFrom(map \union Beyond, offset)

\* mcmpBitmapNextAvaibleBit inverts every chunk before it looks at it.
NextAvaibleBit(map, offset) == ScanFrom(Memory \ (map \union Beyond), offset)

-----------------------------------------------------------------------------
Init ==
  /\ bits \in InitialBitmaps
  /\ cursor = -1
  /\ before = {} /\ closed = {}

CleanOrder ==
  /\ cursor = -1
  /\ bits' = {}
  /\ UNCHANGED <<cursor, before, closed>>

EnableBit(idx) ==
  /\ cursor = -1
  /\ bits' = bits \union {idx}
  /\ UNCHANGED <<cursor, before, closed>>

DisableBit(idx) ==
  /\ cursor = -1
  /\ bits' = bits \ {idx}
  /\ UNCHANGED <<cursor, before, closed>>

\* The slot the loop goes to next, and what is remembered until it ends.
FlushTo(slot, begun, done) ==
  /\ cursor' = slot
  /\ before' = IF slot = -1 THEN {} ELSE begun
  /\ closed' = IF slot = -1 THEN {} ELSE done

FlushBegin ==
  /\ cursor = -1
  /\ FlushTo(NextOccupiedBit(bits, 0), bits, {})
  /\ UNCHANGED bits

\* Mutant: the slot is not freed.
BadFlushStep ==
  /\ cursor # -1
  /\ FlushTo(NextOccupiedBit(bits, cursor + 1), before, closed \union {cursor})
  /\ UNCHANGED bits

\* One turn of the loop: close the client, free its slot, look for the next one.
FlushStep ==
  /\ cursor # -1
  /\ bits' = bits \ {cursor}
  /\ FlushTo(NextOccupiedBit(bits', cursor + 1), before, closed \union {cursor})

Next ==
  \/ CleanOrder \/ FlushBegin \/ FlushStep
  \/ \E idx \in Indices : EnableBit(idx) \/ DisableBit(idx)

Spec == Init /\ [][Next]_vars

-----------------------------------------------------------------------------
(* Properties *)

\* The first member of S that is not below the offset.
FirstFrom(S, offset) ==
  LET T == {b \in S : b >= offset} IN IF T = {} THEN -1 ELSE Min(T)

\* Both scans return the first wanted bit of the bitmap, whatever the offset and
\* whatever the memory after the bitmap holds: no chunk is skipped, and no bit
\* beyond the end is taken for one of the bitmap (bitmap.c lines 28-50, 67-86).
ScansExact ==
  \A offset \in Offsets :
    /\ NextOccupiedBit(bits, offset) = FirstFrom(bits, offset)
    /\ NextAvaibleBit(bits, offset) = FirstFrom(Bits \ bits, offset)

\* A flush closes every client that was in the table, once, and leaves the
\* table empty, although it clears the bitmap it is walking over.
FlushClosesAll ==
  [][/\ cursor # -1 => cursor \in before \ closed
     /\ cursor' = -1 /\ cursor # -1 => closed = before \ {cursor} /\ bits' = {}]_vars
=============================================================================
