----------------------------- MODULE MCDPWaves -----------------------------
(***************************************************************************)
(* DPWaves for TLC: two engines, requests of one and of two steps.         *)
(***************************************************************************)
EXTENDS DPWaves, TLC

CONSTANTS c1, r1, r2

TwoLengths == r1 :> 1 @@ r2 :> 2
=============================================================================
