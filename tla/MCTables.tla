------------------------------ MODULE MCTables ------------------------------
EXTENDS Tables

\* Bits on both sides of the places where the scans change the chunk length:
\* 16 bytes are the first byte, one chunk of eight, of four, of two, and a byte.
SomeIndices == {0, 3, 4, 35, 36, 51, 52, 63}
SomeOffsets == {0, 1, 3, 4, 5, 35, 36, 37, 51, 52, 60, 63, 64, 100}

\* After the bitmap every byte has a set bit and a clear one, so that a scan that
\* reads too far finds what it looks for.
AlternateBits == {b \in Memory \ Bits : b % 2 = 0}

\* An empty bitmap, two with a few bits left, and a full one.
SomeBitmaps == {{}, 0 .. 58, 0 .. 61, Bits}
=============================================================================
