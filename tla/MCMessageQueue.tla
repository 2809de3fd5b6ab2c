--------------------------- MODULE MCMessageQueue ---------------------------
(***************************************************************************)
(* MessageQueue for TLC. Two local readers and a remote one; the third     *)
(* message wraps around the ring.                                          *)
(***************************************************************************)
EXTENDS MessageQueue

CONSTANT q1
=============================================================================
