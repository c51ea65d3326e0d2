--------------------------- MODULE MCLockRegistry ---------------------------
(***************************************************************************)
(* Twelve bytes of two bits, the shortest bitmap whose scans use loads of  *)
(* eight, four, two and one byte.                                          *)
(***************************************************************************)
EXTENDS LockRegistry

CONSTANTS scanner, a, b

\* In the middle of the first and of the fourth byte, and beyond the bitmap.
SomeOffsets == {1, 7, 24}

\* Two bits of one byte, and one that only a later load sees.
SomeIndices == {6, 7, 20}

\* After the bitmap every byte has a set bit and a clear one, so that a scan that
\* loads too much finds what it looks for.
AlternateBits == {24, 26, 28, 30, 32, 34, 36, 38}

\* Nothing set, everything but the bits above, and all but the last two.
SomeBitmaps == {{}, (0 .. 23) \ {6, 7, 20}, 0 .. 21}
=============================================================================
