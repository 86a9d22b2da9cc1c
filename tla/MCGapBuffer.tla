---------------------------- MODULE MCGapBuffer -----------------------------
(***************************************************************************)
(* GapBuffer for TLC: buffers of a few bytes over a two-letter alphabet.   *)
(***************************************************************************)
EXTENDS GapBuffer, SequencesExt

CONSTANT MaxString    \* bound on the length of a string of the caller

MCStrings == BoundedSeq(Byte, MaxString)
=============================================================================
