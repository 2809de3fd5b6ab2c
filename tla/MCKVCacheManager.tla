-------------------------- MODULE MCKVCacheManager --------------------------
(***************************************************************************)
(* KVCacheManager for TLC: one request repeats the tokens of another, a    *)
(* third leaves them after the first block.                                *)
(***************************************************************************)
EXTENDS KVCacheManager, TLC

CONSTANTS r1, r2, r3

MCRequest == {r1, r2, r3}
MCStream == r1 :> <<1, 1, 1, 1>> @@ r2 :> <<1, 1, 1, 1>> @@ r3 :> <<1, 1, 2, 2>>
=============================================================================
