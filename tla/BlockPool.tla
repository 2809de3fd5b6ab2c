------------------------------ MODULE BlockPool ------------------------------
(***************************************************************************)
(* BlockPool and BlockHashToBlockMap (vllm/v1/core/block_pool.py): the     *)
(* blocks of the GPU's KV cache, their reference counts, the queue of free *)
(* blocks in eviction order, and the prefix cache's map from block hashes  *)
(* to blocks.                                                              *)
(*                                                                         *)
(* A pool is a value p, and a method is an operator from a pool to a pool, *)
(* because a request handler of the KV cache manager calls several of them *)
(* in one go:                                                              *)
(*   p.free    free_block_queue (the queue FreeBlockQueue implements)      *)
(*   p.refCnt  ref_cnt of every block                                      *)
(*   p.hash    block_hash of every block, NoHash when it is None           *)
(*   p.cached  cached_block_hash_to_block: the blocks cached under a hash, *)
(*             in insertion order; several, as full blocks are never       *)
(*             de-duplicated; none when the key is absent                  *)
(* Kept out: metrics and the KV event queue, which nothing here reads.     *)
(***************************************************************************)
EXTENDS Integers, Queues

CONSTANTS NumBlocks,      \* num_gpu_blocks
          Hash,           \* the block hashes that can occur
          NoHash          \* block_hash is None

Block == 0 .. NumBlocks - 1
NullBlock == 0            \* the placeholder, popped first by __init__

NewPool ==
  [free   |-> [i \in 1 .. NumBlocks - 1 |-> i],
   refCnt |-> [b \in Block |-> 0],
   hash   |-> [b \in Block |-> NoHash],
   cached |-> [h \in Hash |-> <<>>]]

NumFreeBlocks(p) == Len(p.free)

\* get_one_block: the one inserted first.
IsCached(p, h) == p.cached[h] # <<>>
GetCachedBlock(p, h) == p.cached[h][1]

\* _maybe_evict_cached_block of every block of S: a block that its hash does
\* not lead back to keeps its hash.
IsEvicted(p, S, b) ==
  b \in S /\ p.hash[b] # NoHash /\ b \in Elements(p.cached[p.hash[b]])

\* Mutant: the block forgets its hash, the map keeps the block.
EvictKeepingMap(p, S) ==
  [free   |-> p.free,
   refCnt |-> p.refCnt,
   hash   |-> [b \in Block |-> IF IsEvicted(p, S, b) THEN NoHash ELSE p.hash[b]],
   cached |-> p.cached]

EvictBlocks(p, S) ==
  [free   |-> p.free,
   refCnt |-> p.refCnt,
   hash   |-> [b \in Block |-> IF IsEvicted(p, S, b) THEN NoHash ELSE p.hash[b]],
   cached |-> [h \in Hash |-> Without(p.cached[h], {b \in S : p.hash[b] = h})]]

\* get_new_blocks raises when n > NumFreeBlocks(p); the blocks it returns are
\* the first n of the queue, each evicted from the prefix cache.
NewBlocks(p, n) == TakeFirst(p.free, n)

\* Mutant: the new blocks stay in the prefix cache.
GetNewBlocksCached(p, n) ==
  LET new == Elements(NewBlocks(p, n)) IN
  [free   |-> DropFirst(p.free, n),
   refCnt |-> [b \in Block |-> IF b \in new THEN p.refCnt[b] + 1 ELSE p.refCnt[b]],
   hash   |-> p.hash,
   cached |-> p.cached]

GetNewBlocks(p, n) ==
  LET new == Elements(NewBlocks(p, n))
      q == EvictBlocks(p, new)
  IN [free   |-> DropFirst(p.free, n),
      refCnt |-> [b \in Block |-> IF b \in new THEN p.refCnt[b] + 1 ELSE p.refCnt[b]],
      hash   |-> q.hash,
      cached |-> q.cached]

\* touch: a hit revives the blocks that wait for eviction.
Evictable(p, bs) == {b \in Elements(bs) : p.refCnt[b] = 0 /\ b # NullBlock}

\* Mutant: a revived block stays in the free queue.
TouchKeepingFree(p, bs) ==
  [free   |-> p.free,
   refCnt |-> [b \in Block |->
                 IF b \in Elements(bs) THEN p.refCnt[b] + 1 ELSE p.refCnt[b]],
   hash   |-> p.hash,
   cached |-> p.cached]

Touch(p, bs) ==
  [free   |-> Without(p.free, Evictable(p, bs)),
   refCnt |-> [b \in Block |->
                 IF b \in Elements(bs) THEN p.refCnt[b] + 1 ELSE p.refCnt[b]],
   hash   |-> p.hash,
   cached |-> p.cached]

\* free_blocks: every count goes down first, then the blocks nobody holds are
\* appended in the order given.
FreeBlocks(p, bs) ==
  LET rc == [b \in Block |-> IF b \in Elements(bs) THEN p.refCnt[b] - 1
                                                   ELSE p.refCnt[b]]
      kept == {b \in Elements(bs) : rc[b] # 0 \/ b = NullBlock}
  IN [free   |-> p.free \o Without(bs, kept),
      refCnt |-> rc,
      hash   |-> p.hash,
      cached |-> p.cached]

\* cache_full_blocks for blocks bs[from + 1 .. to], whose hashes are hs: the
\* hash is recorded in the block and the block entered in the map.
NewlyCached(bs, from, to) == {i \in from + 1 .. to : bs[i] # NullBlock}

CacheFullBlocks(p, bs, hs, from, to) ==
  LET new == NewlyCached(bs, from, to)
      at(b) == CHOOSE i \in new : bs[i] = b
      under(h) == {i \in new : hs[i] = h}
  IN [free   |-> p.free,
      refCnt |-> p.refCnt,
      hash   |-> [b \in Block |->
                    IF \E i \in new : bs[i] = b THEN hs[at(b)] ELSE p.hash[b]],
      cached |-> [h \in Hash |->
                    IF under(h) = {} THEN p.cached[h]
                    ELSE Append(p.cached[h], bs[CHOOSE i \in under(h) : TRUE])]]

\* reset_prefix_cache refuses while a block other than the null block is used.
IsUnused(p) == NumBlocks - NumFreeBlocks(p) = 1

ResetPrefixCache(p) ==
  IF IsUnused(p)
  THEN [free   |-> p.free,
        refCnt |-> p.refCnt,
        hash   |-> [b \in Block |-> NoHash],
        cached |-> [h \in Hash |-> <<>>]]
  ELSE p
=============================================================================
