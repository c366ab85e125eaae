----------------------------- MODULE MCShlRing ------------------------------
(***************************************************************************)
(* ShlRing with blocks of at most eight bytes and chunks of at most three: *)
(* enough for a wrap at every offset, a resize of data in two stretches,   *)
(* and a push that no block can hold.                                      *)
(***************************************************************************)
EXTENDS ShlRing

CONSTANTS b1, b2

MCChunks == {<<>>, <<b1>>, <<b2, b1, b1>>}

MCLengths == {0, 2, 8}

=============================================================================
