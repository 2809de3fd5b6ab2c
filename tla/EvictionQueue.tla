--------------------------- MODULE EvictionQueue ---------------------------
(***************************************************************************)
(* What FreeKVCacheBlockQueue promises to its only client, BlockPool: a    *)
(* queue of distinct blocks, the next block to evict first.  Blocks leave  *)
(* at the front (popleft, popleft_n) or from the middle (remove, when the  *)
(* prefix cache revives a block) and come back at the end (append,         *)
(* append_n).  `ret' is what the last call returned.                       *)
(*                                                                         *)
(* The linked list of FreeBlockQueue is shown to implement it.             *)
(***************************************************************************)
EXTENDS Queues

CONSTANTS Block,          \* the blocks of the pool
          InitialOrder    \* the list the queue is built from

VARIABLES queue, ret

avars == <<queue, ret>>

AInit ==
  /\ queue = InitialOrder
  /\ ret = <<>>

APopLeftN(n) ==
  /\ n <= Len(queue)
  /\ ret' = TakeFirst(queue, n)
  /\ queue' = DropFirst(queue, n)

ARemove(b) ==
  /\ b \in Elements(queue)
  /\ queue' = Without(queue, {b})
  /\ ret' = <<>>

AAppendN(bs) ==
  /\ Distinct(bs)
  /\ Elements(bs) \cap Elements(queue) = {}
  /\ queue' = queue \o bs
  /\ ret' = <<>>

ANext ==
  \/ \E n \in 0 .. Cardinality(Block) : APopLeftN(n)
  \/ \E b \in Block : ARemove(b)
  \/ \E n \in 0 .. Cardinality(Block) : \E bs \in [1 .. n -> Block] : AAppendN(bs)

ASpec == AInit /\ [][ANext]_avars
============================================================================
