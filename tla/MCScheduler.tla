---------------------------- MODULE MCScheduler ----------------------------
(***************************************************************************)
(* Scheduler for TLC.                                                      *)
(*                                                                         *)
(* The short requests: r1 and r2 start with the same block, r3 does not.   *)
(* A prompt of three tokens needs two blocks and, under a token budget     *)
(* shared with another request, two steps, so the blocks never suffice for *)
(* all requests at once.                                                   *)
(*                                                                         *)
(* The long requests: the prompt of r1 is prefilled in chunks that end     *)
(* inside a block, while the more urgent r2 asks for another block. Alone  *)
(* it is a request of max_model_len.                                       *)
(***************************************************************************)
EXTENDS Scheduler, TLC

CONSTANTS r1, r2, r3

ShortStream == [r \in Request |->
  CASE r = r1 -> <<1, 1, 1, 1, 1>> [] r = r2 -> <<1, 1, 2, 2, 2>> [] r = r3 -> <<2, 2, 2, 2, 2>>]
ShortPromptLen == r1 :> 3 @@ r2 :> 3 @@ r3 :> 2
ShortMaxTokens == r1 :> 2 @@ r2 :> 1 @@ r3 :> 2
ShortMinTokens == r1 :> 0 @@ r2 :> 0 @@ r3 :> 2

LongStream == [r \in Request |-> [i \in 1 .. 10 |-> IF r = r1 THEN 1 ELSE 2]]
LongPromptLen == r1 :> 9 @@ r2 :> 2
LongMaxTokens == r1 :> 1 @@ r2 :> 2
LongMinTokens == r1 :> 0 @@ r2 :> 1

LastFirst == r1 :> 3 @@ r2 :> 2 @@ r3 :> 1
=============================================================================
