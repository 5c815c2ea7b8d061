----------------------------- MODULE MCLineIndex -----------------------------
(***************************************************************************)
(* Every source text of at most MaxLen bytes, with offsets of a few bits.  *)
(***************************************************************************)
EXTENDS LineIndexProperties, SequencesExt

CONSTANTS MaxLen

MCSources == BoundedSeq({"lf", "cr", "other"}, MaxLen)
=============================================================================
