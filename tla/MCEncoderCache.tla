--------------------------- MODULE MCEncoderCache ---------------------------
(***************************************************************************)
(* EncoderCache for TLC. The cache holds at most two of the inputs a, b    *)
(* and c; r1 and r2 share a, r1 and r3 share b, and b occurs twice in the  *)
(* prompt of r3. A prompt with one input, after a token of text, is what   *)
(* the drafter needs to read ahead of the chunk.                           *)
(***************************************************************************)
EXTENDS EncoderCache, TLC

CONSTANTS r1, r2, r3, a, b, c

In(hash, start, len) == [hash |-> hash, start |-> start, len |-> len]

SharedInputs ==
  r1 :> <<In(a, 0, 2), In(b, 2, 1)>> @@
  r2 :> <<In(c, 1, 2), In(a, 3, 2)>> @@
  r3 :> <<In(b, 0, 1), In(b, 1, 1)>>
SharedLen == r1 :> 3 @@ r2 :> 5 @@ r3 :> 2

TextFirst == r1 :> <<In(a, 1, 2)>> @@ r2 :> <<In(b, 1, 1)>>
TextFirstLen == r1 :> 4 @@ r2 :> 2

InOrder == r1 :> 3 @@ r2 :> 2 @@ r3 :> 1
=============================================================================
