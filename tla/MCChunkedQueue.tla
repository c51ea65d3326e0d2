--------------------------- MODULE MCChunkedQueue ---------------------------
(***************************************************************************)
(* Instances of ChunkedQueue for TLC.                                      *)
(***************************************************************************)
EXTENDS ChunkedQueue, TLC

CONSTANTS a, b, x, y

\* Items are only copied and compared.
ItemSymmetry == Permutations(Items)
=============================================================================
