-------------------------- MODULE MCFreeBlockQueue --------------------------
(* FreeBlockQueue for TLC: a handful of blocks, listed by block id. *)
EXTENDS FreeBlockQueue

CONSTANTS b1, b2, b3, b4

MCBlock == {b1, b2, b3, b4}
MCInitialOrder == <<b1, b2, b3, b4>>
=============================================================================
