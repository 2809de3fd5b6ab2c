--------------------------- MODULE KVCacheManager ---------------------------
(***************************************************************************)
(* KVCacheManager with one full-attention group (kv_cache_manager.py, the  *)
(* UnitaryKVCacheCoordinator and FullAttentionManager under it): the block *)
(* tables of the requests over one BlockPool.                              *)
(*                                                                         *)
(* Stream[r] is the token sequence of request r, prompt first.  The hash   *)
(* of a full block is chained over the blocks before it, so, collisions    *)
(* aside, it stands for all the tokens up to the end of the block.  The    *)
(* next-state relation is any caller that respects the contract of         *)
(* allocate_slots; Scheduler is one.                                       *)
(***************************************************************************)
EXTENDS Integers, Sequences, FiniteSets

CONSTANTS NumBlocks,      \* num_gpu_blocks, the null block included
          BlockSize,      \* tokens per block
          Request,        \* request ids
          Token,          \* token ids
          Stream,         \* the tokens of every request
          MaxModelLen,    \* max_model_len
          EnableCaching,  \* enable_prefix_caching
          UseEagle        \* use_eagle

VARIABLES pool,           \* block_pool
          reqBlocks,      \* req_to_blocks, empty when the request has none
          numCached,      \* num_cached_block, 0 when the request has none
          error           \* an assertion failed or an exception was raised

kvVars == <<pool, reqBlocks, numCached, error>>

\* block_hashes of a request: the chain of hashes of its full blocks.
BlockHash(r, i) == SubSeq(Stream[r], 1, i * BlockSize)
NumHashes(r) == Len(Stream[r]) \div BlockSize
Hash == UNION {{BlockHash(r, i) : i \in 1 .. NumHashes(r)} : r \in Request}
NoHash == <<>>

INSTANCE BlockPool

ASSUME SizeAssumption ==
  /\ NumBlocks \in Nat \ {0} /\ BlockSize \in Nat \ {0} /\ MaxModelLen \in Nat
  /\ EnableCaching \in BOOLEAN /\ UseEagle \in BOOLEAN
ASSUME StreamAssumption ==
  /\ IsFiniteSet(Request)
  /\ Stream \in [Request -> Seq(Token)]

Max2(a, b) == IF a > b THEN a ELSE b
Min2(a, b) == IF a < b THEN a ELSE b
CDiv(a, b) == (a + b - 1) \div b

\* Mutant: the head of the table is freed first.
InOrder(s) == s

Reversed(s) == [i \in 1 .. Len(s) |-> s[Len(s) + 1 - i]]

----------------------------------------------------------------------------

KVInit ==
  /\ pool = NewPool
  /\ reqBlocks = [r \in Request |-> <<>>]
  /\ numCached = [r \in Request |-> 0]
  /\ error = FALSE

\* find_longest_cache_hit: the longest run of cached blocks from the first
\* one, within maxLength tokens; eagle gives the last one up.
HitLength(r, maxLength) ==
  LET ok == {k \in 0 .. Min2(maxLength \div BlockSize, NumHashes(r)) :
               \A i \in 1 .. k : IsCached(pool, BlockHash(r, i))}
      k == CHOOSE k \in ok : \A j \in ok : j <= k
  IN IF ~EnableCaching THEN 0
     ELSE IF UseEagle /\ k > 0 THEN k - 1 ELSE k

\* get_computed_blocks for a request of numTokens tokens: the last token is
\* always left to compute.
GetComputedBlocks(r, numTokens) ==
  [i \in 1 .. HitLength(r, numTokens - 1) |-> GetCachedBlock(pool, BlockHash(r, i))]

\* Mutant: hits that wait in the free queue are not counted.
NumNewBlocksOnly(r, hits, needSlot) ==
  Max2(CDiv(needSlot, BlockSize) - (Len(hits) + Len(reqBlocks[r])), 0)

\* get_num_blocks_to_allocate: blocks to take from the free queue, hits that
\* wait in it included.
NumBlocksToAllocate(r, hits, needSlot) ==
  Max2(CDiv(needSlot, BlockSize) - (Len(hits) + Len(reqBlocks[r])), 0)
    + Cardinality(Evictable(pool, hits))

CanAllocate(r, hits, needSlot) ==
  NumBlocksToAllocate(r, hits, needSlot) <= NumFreeBlocks(pool)

\* cache_blocks: the full blocks among the first n tokens that are not cached
\* yet.  A request of numTokens tokens must have that many hashes, the table that
\* many blocks, and the blocks must not have a hash.
CacheBlocks(p, r, table, cached, n) ==
  IF n \div BlockSize > cached
  THEN CacheFullBlocks(p, table, [i \in 1 .. NumHashes(r) |-> BlockHash(r, i)],
                       cached, n \div BlockSize)
  ELSE p

CacheRaises(p, table, cached, n, numTokens) ==
  \E i \in cached + 1 .. n \div BlockSize :
    i > Len(table) \/ i > numTokens \div BlockSize \/ p.hash[table[i]] # NoHash

\* allocate_slots when it returns blocks: touch the hits, take new blocks for
\* the first needSlot tokens, cache the full blocks among the first commit.
AllocateSlots(r, hits, needSlot, commit) ==
  LET touched == Touch(pool, hits)
      known == reqBlocks[r] \o hits
      n == Max2(CDiv(needSlot, BlockSize) - Len(known), 0)
      grown == GetNewBlocks(touched, n)
      table == known \o NewBlocks(touched, n)
      cached == IF hits = <<>> THEN numCached[r] ELSE Len(known)
      final == IF EnableCaching THEN CacheBlocks(grown, r, table, cached, commit)
                                ELSE grown
      raises ==
        \/ hits # <<>> /\ (numCached[r] # 0 \/ reqBlocks[r] # <<>>)
        \/ \E b \in Evictable(pool, hits) : b \notin Elements(pool.free)
        \/ n > NumFreeBlocks(touched)
        \/ \E b \in Elements(NewBlocks(touched, n)) : touched.refCnt[b] # 0
        \/ EnableCaching /\ CacheRaises(grown, table, cached, commit, commit)
  IN /\ CanAllocate(r, hits, needSlot)
     /\ IF raises
        THEN error' = TRUE /\ UNCHANGED <<pool, reqBlocks, numCached>>
        ELSE /\ pool' = final
             /\ reqBlocks' = [reqBlocks EXCEPT ![r] = table]
             /\ numCached' = [numCached EXCEPT ![r] =
                  IF EnableCaching THEN Max2(cached, commit \div BlockSize) ELSE cached]
             /\ UNCHANGED error

\* cache_blocks once the tokens of a step are known (asynchronous scheduling).
CacheComputed(r, n, numTokens) ==
  LET table == reqBlocks[r] IN
  IF EnableCaching /\ CacheRaises(pool, table, numCached[r], n, numTokens)
  THEN error' = TRUE /\ UNCHANGED <<pool, reqBlocks, numCached>>
  ELSE /\ pool' = IF EnableCaching THEN CacheBlocks(pool, r, table, numCached[r], n)
                                   ELSE pool
       /\ numCached' = [numCached EXCEPT ![r] =
            IF EnableCaching THEN Max2(@, n \div BlockSize) ELSE @]
       /\ UNCHANGED <<reqBlocks, error>>

\* Mutant: the table is not forgotten.
FreeKeepingTable(r) ==
  /\ pool' = FreeBlocks(pool, Reversed(reqBlocks[r]))
  /\ numCached' = [numCached EXCEPT ![r] = 0]
  /\ UNCHANGED <<reqBlocks, error>>

\* Mutant: num_cached_block is not forgotten.
FreeKeepingCount(r) ==
  /\ pool' = FreeBlocks(pool, Reversed(reqBlocks[r]))
  /\ reqBlocks' = [reqBlocks EXCEPT ![r] = <<>>]
  /\ UNCHANGED <<numCached, error>>

\* free: the tail of the table first, so that it is evicted first.
Free(r) ==
  /\ pool' = FreeBlocks(pool, Reversed(reqBlocks[r]))
  /\ reqBlocks' = [reqBlocks EXCEPT ![r] = <<>>]
  /\ numCached' = [numCached EXCEPT ![r] = 0]
  /\ UNCHANGED error

Evict(S) ==
  /\ pool' = EvictBlocks(pool, S)
  /\ UNCHANGED <<reqBlocks, numCached, error>>

Reset ==
  /\ pool' = ResetPrefixCache(pool)
  /\ UNCHANGED <<reqBlocks, numCached, error>>

----------------------------------------------------------------------------
(* A caller that keeps the contract: hits are looked up for a request that *)
(* holds no block, slots cover the tokens to cache, and only tokens the    *)
(* request has are cached.                                                 *)

AllocateFor(r) ==
  \E needSlot \in 1 .. MaxModelLen, numTokens \in 1 .. Len(Stream[r]) :
    LET hits == IF reqBlocks[r] = <<>> THEN GetComputedBlocks(r, numTokens) ELSE <<>>
    IN /\ needSlot > Len(hits) * BlockSize
       /\ AllocateSlots(r, hits, needSlot, Min2(needSlot, numTokens))

CacheLater(r) ==
  \E n \in 1 .. Len(Stream[r]) :
    /\ n <= Len(reqBlocks[r]) * BlockSize
    /\ CacheComputed(r, n, n)

KVNext ==
  \/ \E r \in Request : AllocateFor(r) \/ CacheLater(r) \/ Free(r)
  \/ \E S \in SUBSET Block : Evict(S)
  \/ Reset

KVSpec == KVInit /\ [][KVNext]_kvVars

----------------------------------------------------------------------------

Pool == [free : Seq(Block), refCnt : [Block -> Nat],
         hash : [Block -> Hash \cup {NoHash}], cached : [Hash -> Seq(Block)]]

\* Tables and queue hold blocks of the pool, and no reference count ever goes
\* below zero: free gives back each reference once.
KVTypeOK ==
  /\ pool \in Pool
  /\ reqBlocks \in [Request -> Seq(Block)]
  /\ numCached \in [Request -> Nat]
  /\ error \in BOOLEAN

Holders(b) == {r \in Request : b \in Elements(reqBlocks[r])}

\* A block's reference count is the number of block tables it is in, and the
\* blocks in no table are exactly those in the free queue, once each: nothing
\* leaks and nothing in use can be handed out, whatever sequence of
\* allocations, prefix hits, evictions and frees led here.
RefCountsMatchTables ==
  /\ Distinct(pool.free)
  /\ NullBlock \notin Elements(pool.free)
  /\ \A b \in Block \ {NullBlock} :
       /\ pool.refCnt[b] = Cardinality(Holders(b))
       /\ b \in Elements(pool.free) <=> pool.refCnt[b] = 0

\* The map and the blocks agree on what is cached: a hash leads to a block
\* exactly when the block records that hash, so an evicted block can never be
\* hit and a cached one can always be evicted.
HashMapMatchesBlocks ==
  \A h \in Hash :
    /\ Distinct(pool.cached[h])
    /\ \A b \in Block : b \in Elements(pool.cached[h]) <=> pool.hash[b] = h

\* Two tables share a block only at the same place and only if the requests
\* have the same tokens up to the end of that block: prefix caching never
\* shows a request the keys and values of other tokens.
SharedBlocksAgree ==
  \A r, s \in Request :
    \A i \in DOMAIN reqBlocks[r], j \in DOMAIN reqBlocks[s] :
      reqBlocks[r][i] = reqBlocks[s][j] =>
        i = j /\ (r = s \/ (i <= NumHashes(r) /\ BlockHash(r, i) = BlockHash(s, i)))

\* What makes the above inductive: num_cached_block[r] splits the table of r.
\* The blocks before the split were cached for r, so they carry its hash or were
\* evicted since; those behind it have no hash and no other holder, so they may
\* be cached without asking.  The null block is never cached and in no table.
TablesMatchCache ==
  /\ pool.hash[NullBlock] = NoHash
  /\ \A r \in Request :
       /\ NullBlock \notin Elements(reqBlocks[r])
       /\ numCached[r] <= Len(reqBlocks[r]) /\ numCached[r] <= NumHashes(r)
       /\ \A i \in DOMAIN reqBlocks[r] :
            IF i <= numCached[r]
            THEN pool.hash[reqBlocks[r][i]] \in {BlockHash(r, i), NoHash}
            ELSE pool.hash[reqBlocks[r][i]] = NoHash /\ Holders(reqBlocks[r][i]) = {r}

\* No assertion of the managers fails and none of their exceptions is raised:
\* the admission test of allocate_slots counts enough blocks for the new ones
\* it then takes, hits are in the free queue when their count is 0, blocks
\* taken from it are unreferenced and blocks to cache have no hash.
NoError == ~error
=============================================================================
