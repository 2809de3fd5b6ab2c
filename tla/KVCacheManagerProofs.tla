------------------------ MODULE KVCacheManagerProofs ------------------------
(***************************************************************************)
(* The block tables and the prefix cache are sound for every pool size,    *)
(* block size and set of requests.                                         *)
(*                                                                         *)
(* A call of allocate_slots touches the hits, takes new blocks and caches  *)
(* the full ones.  Each of these leaves the pool p, the tables t and the   *)
(* counts c of cached blocks sound together, so soundness is a predicate   *)
(* of the three, and a step of the specification is a chain of them.       *)
(***************************************************************************)
EXTENDS KVCacheManager, QueuesProofs

HoldersIn(t, b) == {r \in Request : b \in Elements(t[r])}

Typed(p, t, c) ==
  p \in Pool /\ t \in [Request -> Seq(Block)] /\ c \in [Request -> Nat]

Counted(p, t) ==
  /\ Distinct(p.free)
  /\ NullBlock \notin Elements(p.free)
  /\ \A b \in Block \ {NullBlock} :
       /\ p.refCnt[b] = Cardinality(HoldersIn(t, b))
       /\ b \in Elements(p.free) <=> p.refCnt[b] = 0

Mapped(p) ==
  \A h \in Hash :
    /\ Distinct(p.cached[h])
    /\ \A b \in Block : b \in Elements(p.cached[h]) <=> p.hash[b] = h

Agreeing(t) ==
  \A r, s \in Request :
    \A i \in DOMAIN t[r], j \in DOMAIN t[s] :
      t[r][i] = t[s][j] =>
        i = j /\ (r = s \/ (i <= NumHashes(r) /\ BlockHash(r, i) = BlockHash(s, i)))

Split(p, t, c) ==
  /\ p.hash[NullBlock] = NoHash
  /\ \A r \in Request :
       /\ NullBlock \notin Elements(t[r])
       /\ c[r] <= Len(t[r]) /\ c[r] <= NumHashes(r)
       /\ \A i \in DOMAIN t[r] :
            IF i <= c[r]
            THEN p.hash[t[r][i]] \in {BlockHash(r, i), NoHash}
            ELSE p.hash[t[r][i]] = NoHash /\ HoldersIn(t, t[r][i]) = {r}

Sound(p, t, c) ==
  Typed(p, t, c) /\ Counted(p, t) /\ Mapped(p) /\ Agreeing(t) /\ Split(p, t, c)

----------------------------------------------------------------------------

\* Arithmetic of block counts.
LEMMA DivFacts ==
  ASSUME NEW n \in Nat, NEW b \in Nat \ {0}
  PROVE  /\ n \div b \in Nat
         /\ (n \div b) * b <= n
         /\ CDiv(n, b) \in Nat
         /\ n \div b <= CDiv(n, b)
         /\ \A m \in Nat : n <= m => n \div b <= m \div b
BY DEF CDiv

\* Enough blocks for n tokens.
LEMMA CDivFacts ==
  ASSUME NEW n \in Nat, NEW b \in Nat \ {0}
  PROVE  CDiv(n, b) * b >= n
BY DEF CDiv

\* A number of tokens that fits m blocks has at most m full ones.
LEMMA DivBound ==
  ASSUME NEW n \in Nat, NEW b \in Nat \ {0}, NEW m \in Nat, n <= m * b
  PROVE  n \div b <= m
<1>. DEFINE k == n \div b
<1>1. k \in Nat /\ k * b <= n
  BY DivFacts
<1>. HIDE DEF k
<1>2. k * b <= m * b
  BY <1>1
<1>3. ASSUME k >= m + 1 PROVE FALSE
  <2>1. k * b >= (m + 1) * b
    BY <1>1, <1>3
  <2>2. (m + 1) * b = m * b + b
    OBVIOUS
  <2>. QED
    BY <1>1, <1>2, <2>1, <2>2
<1>. QED
  BY <1>1, <1>3 DEF k

\* The hash of the first i blocks of a request tells i: hashes of different
\* places differ, and none is the absence of a hash.
LEMMA HashFacts ==
  ASSUME NEW r \in Request
  PROVE  /\ NumHashes(r) \in Nat
         /\ \A i \in 1 .. NumHashes(r) : /\ BlockHash(r, i) \in Hash
                                         /\ BlockHash(r, i) \in Seq(Token)
                                         /\ Len(BlockHash(r, i)) = i * BlockSize
<1>1. Stream[r] \in Seq(Token) /\ Len(Stream[r]) \in Nat /\ BlockSize \in Nat \ {0}
  BY StreamAssumption, SizeAssumption
<1>2. NumHashes(r) \in Nat /\ NumHashes(r) * BlockSize <= Len(Stream[r])
  BY <1>1, DivFacts DEF NumHashes
<1>3. ASSUME NEW i \in 1 .. NumHashes(r)
      PROVE  /\ BlockHash(r, i) \in Hash
             /\ BlockHash(r, i) \in Seq(Token)
             /\ Len(BlockHash(r, i)) = i * BlockSize
  <2>1. i * BlockSize \in Nat /\ i * BlockSize <= Len(Stream[r]) /\ 1 <= i * BlockSize
    BY <1>1, <1>2
  <2>2. \A k \in 1 .. i * BlockSize : Stream[r][k] \in Token
    BY <1>1, <2>1
  <2>. QED
    BY <2>1, <2>2, SubSeqProperties DEF BlockHash, Hash
<1>. QED
  BY <1>2, <1>3

\* Equal hashes stand at the same place of their chains.
LEMMA HashPlace ==
  ASSUME NEW r \in Request, NEW s \in Request,
         NEW i \in 1 .. NumHashes(r), NEW j \in 1 .. NumHashes(s),
         BlockHash(r, i) = BlockHash(s, j)
  PROVE  i = j
<1>1. i * BlockSize = j * BlockSize
  BY HashFacts
<1>2. i \in Nat /\ j \in Nat /\ BlockSize \in Nat \ {0}
  BY HashFacts, SizeAssumption
<1>. QED
  BY <1>1, <1>2

\* A block that records a hash is told apart from one that records None.
LEMMA NoHashIsNone == NoHash \notin Hash
<1>. SUFFICES ASSUME NEW r \in Request, NEW i \in 1 .. NumHashes(r), BlockHash(r, i) = <<>>
              PROVE  FALSE
  BY DEF Hash, NoHash
<1>1. i * BlockSize = 0
  BY HashFacts
<1>2. i \in Nat \ {0} /\ BlockSize \in Nat \ {0}
  BY HashFacts, SizeAssumption
<1>. QED
  BY <1>1, <1>2

\* The null block is one of the pool's blocks, and block ids are naturals.
LEMMA NullIsBlock == NullBlock \in Block /\ Block \subseteq Nat
BY SizeAssumption DEF NullBlock, Block

\* Initially the pool is sound: every block but the null block is free.
LEMMA InitSound ==
  ASSUME KVInit
  PROVE  Sound(pool, reqBlocks, numCached) /\ ~error
<1>1. Typed(pool, reqBlocks, numCached)
  BY SizeAssumption DEF KVInit, NewPool, Typed, Pool, Block
<1>2. pool.free = [i \in 1 .. NumBlocks - 1 |-> i] /\ DOMAIN pool.free = 1 .. NumBlocks - 1
  BY DEF KVInit, NewPool
<1>3. \A r \in Request : reqBlocks[r] = <<>> /\ numCached[r] = 0 /\ Elements(reqBlocks[r]) = {}
  BY DEF KVInit, Elements
<1>4. \A b \in Block : pool.refCnt[b] = 0 /\ HoldersIn(reqBlocks, b) = {}
  BY <1>3 DEF KVInit, NewPool, HoldersIn
<1>5. Counted(pool, reqBlocks)
  <2>1. Distinct(pool.free)
    BY <1>2 DEF Distinct
  <2>2. Elements(pool.free) = 1 .. NumBlocks - 1
    BY <1>2 DEF Elements
  <2>3. Cardinality({}) = 0
    BY FS_EmptySet
  <2>4. \A b \in Block \ {NullBlock} : b \in 1 .. NumBlocks - 1
    BY SizeAssumption DEF Block, NullBlock
  <2>5. NullBlock \notin Elements(pool.free)
    BY <2>2 DEF NullBlock
  <2>6. \A b \in Block : pool.refCnt[b] = Cardinality(HoldersIn(reqBlocks, b))
    BY <1>4, <2>3
  <2>. QED
    BY <1>4, <2>1, <2>2, <2>4, <2>5, <2>6 DEF Counted
<1>6. Mapped(pool)
  <2>1. \A h \in Hash : pool.cached[h] = <<>>
    BY DEF KVInit, NewPool
  <2>2. \A b \in Block : pool.hash[b] = NoHash
    BY DEF KVInit, NewPool
  <2>. QED
    BY <2>1, <2>2, NoHashIsNone DEF Mapped, Distinct, Elements
<1>7. Agreeing(reqBlocks)
  BY <1>3 DEF Agreeing
<1>8. Split(pool, reqBlocks, numCached)
  <2>1. pool.hash[NullBlock] = NoHash
    BY NullIsBlock DEF KVInit, NewPool
  <2>2. \A r \in Request : numCached[r] <= NumHashes(r)
    BY <1>3, HashFacts
  <2>. QED
    BY <1>3, <2>1, <2>2 DEF Split
<1>. QED
  BY <1>1, <1>5, <1>6, <1>7, <1>8 DEF Sound, KVInit

----------------------------------------------------------------------------

\* Finitely many requests hold a block, so its holders can be counted.
LEMMA HoldersFinite ==
  ASSUME NEW t, NEW b
  PROVE  IsFiniteSet(HoldersIn(t, b))
<1>1. HoldersIn(t, b) \in SUBSET Request
  BY DEF HoldersIn
<1>. QED
  BY <1>1, StreamAssumption, FS_Subset

\* The blocks in the free queue are those no table holds.
LEMMA FreeBlocksUnheld ==
  ASSUME NEW p, NEW t, NEW c, Sound(p, t, c), NEW b \in Elements(p.free)
  PROVE  /\ b \in Block \ {NullBlock}
         /\ p.refCnt[b] = 0
         /\ HoldersIn(t, b) = {}
         /\ \A r \in Request : b \notin Elements(t[r])
<1>1. b \in Block \ {NullBlock}
  BY DEF Sound, Typed, Counted, Pool, Elements
<1>2. p.refCnt[b] = 0 /\ Cardinality(HoldersIn(t, b)) = 0
  BY <1>1 DEF Sound, Counted
<1>3. HoldersIn(t, b) = {}
  BY <1>2, HoldersFinite, FS_EmptySet
<1>. QED
  BY <1>1, <1>2, <1>3 DEF HoldersIn

\* Blocks may lose their hash at any time, as long as the map loses them too.
LEMMA LosingHashesSound ==
  ASSUME NEW p, NEW q, NEW t, NEW c, Sound(p, t, c),
         q \in Pool, Mapped(q), q.free = p.free, q.refCnt = p.refCnt,
         \A b \in Block : q.hash[b] \in {p.hash[b], NoHash}
  PROVE  Sound(q, t, c)
<1>1. Typed(q, t, c) /\ Counted(q, t) /\ Agreeing(t)
  BY DEF Sound, Typed, Counted
<1>2. \A r \in Request : \A i \in DOMAIN t[r] : t[r][i] \in Block
  BY DEF Sound, Typed
<1>3. Split(q, t, c)
  <2>1. q.hash[NullBlock] = NoHash
    BY NullIsBlock DEF Sound, Split
  <2>2. \A r \in Request : \A i \in DOMAIN t[r] :
          q.hash[t[r][i]] \in {p.hash[t[r][i]], NoHash}
    BY <1>2
  <2>. QED
    BY <2>1, <2>2 DEF Sound, Split
<1>. QED
  BY <1>1, <1>3 DEF Sound

\* Eviction takes the hash of exactly the blocks of S, in the blocks and in the
\* map.
LEMMA EvictFields ==
  ASSUME NEW p \in Pool, Mapped(p), NEW S \in SUBSET Block
  PROVE  LET q == EvictBlocks(p, S) IN
         /\ q \in Pool /\ Mapped(q)
         /\ q.free = p.free /\ q.refCnt = p.refCnt
         /\ \A b \in Block : q.hash[b] = IF b \in S THEN NoHash ELSE p.hash[b]
<1>. DEFINE q == EvictBlocks(p, S)
            gone(h) == {b \in S : p.hash[b] = h}
<1>1. /\ p.free \in Seq(Block) /\ p.refCnt \in [Block -> Nat]
      /\ p.hash \in [Block -> Hash \cup {NoHash}] /\ p.cached \in [Hash -> Seq(Block)]
  BY DEF Pool
<1>2. /\ q.free = p.free /\ q.refCnt = p.refCnt
      /\ q.cached = [h \in Hash |-> Without(p.cached[h], gone(h))]
      /\ q.hash = [b \in Block |-> IF IsEvicted(p, S, b) THEN NoHash ELSE p.hash[b]]
      /\ q = [free |-> q.free, refCnt |-> q.refCnt, hash |-> q.hash, cached |-> q.cached]
  BY DEF EvictBlocks, Pool
<1>3. \A b \in Block : IsEvicted(p, S, b) <=> b \in S /\ p.hash[b] # NoHash
  BY <1>1 DEF IsEvicted, Mapped
<1>4. \A b \in Block : q.hash[b] = IF b \in S THEN NoHash ELSE p.hash[b]
  BY <1>2, <1>3
<1>5. \A h \in Hash : /\ q.cached[h] \in Seq(Block)
                       /\ Elements(q.cached[h]) = Elements(p.cached[h]) \ gone(h)
                       /\ Distinct(q.cached[h])
  BY <1>1, <1>2, WithoutElements DEF Mapped
<1>6. q \in Pool
  <2>1. q.hash \in [Block -> Hash \cup {NoHash}]
    <3>. DEFINE f == [b \in Block |-> IF IsEvicted(p, S, b) THEN NoHash ELSE p.hash[b]]
    <3>1. \A b \in Block : f[b] \in Hash \cup {NoHash}
      BY <1>1 DEF Pool
    <3>2. f \in [Block -> Hash \cup {NoHash}]
      BY <3>1
    <3>. QED
      BY <1>2, <3>2
  <2>2. q.cached \in [Hash -> Seq(Block)]
    <3>. DEFINE f == [h \in Hash |-> Without(p.cached[h], gone(h))]
    <3>1. \A h \in Hash : f[h] \in Seq(Block)
      BY <1>2, <1>5
    <3>2. f \in [Hash -> Seq(Block)]
      <4>. HIDE DEF gone
      <4>. QED
        BY <3>1
    <3>. QED
      BY <1>2, <3>2
  <2>. QED
    BY <1>1, <1>2, <2>1, <2>2 DEF Pool
<1>7. Mapped(q)
  <2>. SUFFICES ASSUME NEW h \in Hash, NEW b \in Block
                PROVE  b \in Elements(q.cached[h]) <=> q.hash[b] = h
    BY <1>5 DEF Mapped
  <2>1. b \in Elements(p.cached[h]) <=> p.hash[b] = h
    BY DEF Mapped
  <2>. QED
    BY <1>4, <1>5, <2>1, NoHashIsNone
<1>. QED
  BY <1>2, <1>4, <1>6, <1>7

\* evict_blocks, of any set of blocks at any time, keeps the pool sound.
LEMMA EvictSound ==
  ASSUME NEW p, NEW t, NEW c, Sound(p, t, c), NEW S \in SUBSET Block
  PROVE  Sound(EvictBlocks(p, S), t, c)
<1>1. p \in Pool /\ Mapped(p)
  BY DEF Sound, Typed
<1>. QED
  BY <1>1, EvictFields, LosingHashesSound

\* reset_prefix_cache keeps the pool sound, whether it resets or refuses.
LEMMA ResetSound ==
  ASSUME NEW p, NEW t, NEW c, Sound(p, t, c)
  PROVE  Sound(ResetPrefixCache(p), t, c)
<1>. DEFINE q == ResetPrefixCache(p)
<1>1. CASE IsUnused(p)
  <2>1. /\ q.free = p.free /\ q.refCnt = p.refCnt
        /\ q.hash = [b \in Block |-> NoHash] /\ q.cached = [h \in Hash |-> <<>>]
        /\ q \in Pool
    BY <1>1 DEF ResetPrefixCache, Sound, Typed, Pool
  <2>2. Mapped(q)
    BY <2>1, NoHashIsNone DEF Mapped, Distinct, Elements
  <2>. QED
    BY <2>1, <2>2, LosingHashesSound
<1>2. CASE ~IsUnused(p)
  BY <1>2 DEF ResetPrefixCache
<1>. QED
  BY <1>1, <1>2

----------------------------------------------------------------------------

\* Reversing a table, as free does, keeps its blocks and their distinctness.
LEMMA ReversedElements ==
  ASSUME NEW T, NEW s \in Seq(T)
  PROVE  /\ Reversed(s) \in Seq(T)
         /\ Elements(Reversed(s)) = Elements(s)
         /\ Distinct(s) => Distinct(Reversed(s))
<1>. DEFINE v == Reversed(s)
<1>1. DOMAIN s = 1 .. Len(s) /\ Len(s) \in Nat
  OBVIOUS
<1>2. /\ v \in Seq(T) /\ DOMAIN v = 1 .. Len(s)
      /\ \A i \in 1 .. Len(s) : v[i] = s[Len(s) + 1 - i]
  BY <1>1 DEF Reversed
<1>. HIDE DEF v
<1>3. Elements(v) = Elements(s)
  <2>1. \A i \in DOMAIN v : v[i] \in Elements(s)
    <3>. SUFFICES ASSUME NEW i \in 1 .. Len(s) PROVE v[i] \in Elements(s)
      BY <1>2
    <3>1. Len(s) + 1 - i \in DOMAIN s
      BY <1>1
    <3>. QED
      BY <1>2, <3>1 DEF Elements
  <2>2. \A i \in DOMAIN s : s[i] \in Elements(v)
    <3>. SUFFICES ASSUME NEW i \in 1 .. Len(s) PROVE s[i] \in Elements(v)
      BY <1>1
    <3>1. Len(s) + 1 - i \in 1 .. Len(s) /\ v[Len(s) + 1 - i] = s[i]
      BY <1>1, <1>2
    <3>. QED
      BY <1>2, <3>1 DEF Elements
  <2>. QED
    BY <2>1, <2>2, Zenon DEF Elements
<1>4. ASSUME Distinct(s) PROVE Distinct(v)
  BY <1>1, <1>2, <1>4 DEF Distinct
<1>. QED
  BY <1>2, <1>3, <1>4 DEF v

\* free: the blocks of the table lose one holder each and those without another
\* holder go back to the free queue.
LEMMA FreeSound ==
  ASSUME NEW p, NEW t, NEW c, Sound(p, t, c), NEW r \in Request
  PROVE  Sound(FreeBlocks(p, Reversed(t[r])),
               [t EXCEPT ![r] = <<>>], [c EXCEPT ![r] = 0])
<1>. DEFINE bs == Reversed(t[r])
            q == FreeBlocks(p, bs)
            rc(b) == IF b \in Elements(bs) THEN p.refCnt[b] - 1 ELSE p.refCnt[b]
            kept == {b \in Elements(bs) : rc(b) # 0 \/ b = NullBlock}
            u == [t EXCEPT ![r] = <<>>]
            d == [c EXCEPT ![r] = 0]
<1>1. /\ p \in Pool /\ t \in [Request -> Seq(Block)] /\ c \in [Request -> Nat]
      /\ p.free \in Seq(Block) /\ p.refCnt \in [Block -> Nat]
  BY DEF Sound, Typed, Pool
<1>2. /\ bs \in Seq(Block) /\ Elements(bs) = Elements(t[r]) /\ Distinct(bs)
      /\ Elements(bs) \subseteq Block \ {NullBlock}
  <2>1. t[r] \in Seq(Block) /\ NullBlock \notin Elements(t[r])
    BY <1>1 DEF Sound, Split
  <2>2. Distinct(t[r])
    BY DEF Sound, Agreeing, Distinct
  <2>3. Elements(t[r]) \subseteq Block
    BY <2>1 DEF Elements
  <2>. QED
    BY <2>1, <2>2, <2>3, ReversedElements
<1>. HIDE DEF bs
<1>3. /\ q.free = p.free \o Without(bs, kept)
      /\ q.refCnt = [b \in Block |-> rc(b)]
      /\ q.hash = p.hash /\ q.cached = p.cached
      /\ q = [free |-> q.free, refCnt |-> q.refCnt, hash |-> q.hash, cached |-> q.cached]
      /\ kept = {b \in Elements(bs) : rc(b) # 0}
  <2>1. Elements(bs) \subseteq Block
    BY <1>2
  <2>2. kept = {b \in Elements(bs) : q.refCnt[b] # 0 \/ b = NullBlock}
    BY <2>1 DEF FreeBlocks
  <2>. QED
    BY <1>2, <2>1, <2>2 DEF FreeBlocks
<1>4. /\ Without(bs, kept) \in Seq(Block) /\ Distinct(Without(bs, kept))
      /\ Elements(Without(bs, kept)) = {b \in Elements(bs) : rc(b) = 0}
  <2>1. Elements(bs) \ kept = {b \in Elements(bs) : rc(b) = 0}
    BY <1>3
  <2>. QED
    BY <1>2, <2>1, WithoutElements
<1>5. /\ u \in [Request -> Seq(Block)] /\ d \in [Request -> Nat]
      /\ \A s \in Request : /\ u[s] = IF s = r THEN <<>> ELSE t[s]
                            /\ d[s] = IF s = r THEN 0 ELSE c[s]
  BY <1>1
<1>. HIDE DEF q, kept, u, d
<1>6. \A b : HoldersIn(u, b) = HoldersIn(t, b) \ {r}
  BY <1>5 DEF HoldersIn, Elements
<1>7. \A b \in Block \ {NullBlock} : rc(b) = Cardinality(HoldersIn(u, b))
  <2>. SUFFICES ASSUME NEW b \in Block \ {NullBlock}
                PROVE  rc(b) = Cardinality(HoldersIn(u, b))
    OBVIOUS
  <2>1. p.refCnt[b] = Cardinality(HoldersIn(t, b)) /\ p.refCnt[b] \in Int
    BY <1>1 DEF Sound, Counted
  <2>2. IsFiniteSet(HoldersIn(t, b))
    BY HoldersFinite
  <2>3. r \in HoldersIn(t, b) <=> b \in Elements(bs)
    BY <1>2 DEF HoldersIn
  <2>4. Cardinality(HoldersIn(t, b) \ {r}) =
          IF r \in HoldersIn(t, b) THEN Cardinality(HoldersIn(t, b)) - 1
                                   ELSE Cardinality(HoldersIn(t, b))
    BY <2>2, FS_RemoveElement
  <2>. QED
    BY <1>6, <2>1, <2>3, <2>4
<1>8. /\ q.free \in Seq(Block) /\ Distinct(q.free)
      /\ Elements(q.free) = Elements(p.free) \cup {b \in Elements(bs) : rc(b) = 0}
  <2>1. Elements(p.free) \cap Elements(bs) = {}
    BY <1>2, FreeBlocksUnheld
  <2>2. Distinct(p.free)
    BY DEF Sound, Counted
  <2>3. Elements(p.free) \cap Elements(Without(bs, kept)) = {}
    BY <1>4, <2>1
  <2>4. /\ q.free \in Seq(Block) /\ Distinct(q.free)
        /\ Elements(q.free) = Elements(p.free) \cup Elements(Without(bs, kept))
    <3>. DEFINE w == Without(bs, kept)
    <3>1. w \in Seq(Block) /\ Distinct(w) /\ p.free \in Seq(Block)
      BY <1>1, <1>4
    <3>2. q.free = p.free \o w
      BY <1>3
    <3>. HIDE DEF w
    <3>3. p.free \o w \in Seq(Block) /\ Distinct(p.free \o w)
          /\ Elements(p.free \o w) = Elements(p.free) \cup Elements(w)
      BY <2>2, <2>3, <3>1, ConcatElements DEF w
    <3>. QED
      BY <3>2, <3>3 DEF w
  <2>. QED
    BY <1>4, <2>4
<1>9. Typed(q, u, d)
  <2>1. ASSUME NEW b \in Block PROVE rc(b) \in Nat
    <3>1. CASE b = NullBlock
      BY <1>1, <1>2, <3>1
    <3>2. CASE b # NullBlock
      <4>1. IsFiniteSet(HoldersIn(u, b))
        BY HoldersFinite
      <4>2. Cardinality(HoldersIn(u, b)) \in Nat
        BY <4>1, FS_CardinalityType
      <4>. QED
        BY <1>7, <3>2, <4>2
    <3>. QED
      BY <3>1, <3>2
  <2>2. q.refCnt \in [Block -> Nat]
    BY <1>3, <2>1
  <2>3. q \in Pool
    BY <1>1, <1>3, <1>8, <2>2 DEF Pool
  <2>. QED
    BY <1>5, <2>3 DEF Typed
<1>10. Counted(q, u)
  <2>1. NullBlock \notin Elements(q.free)
    BY <1>2, <1>8 DEF Sound, Counted
  <2>2. ASSUME NEW b \in Block \ {NullBlock}
        PROVE  b \in Elements(q.free) <=> rc(b) = 0
    <3>1. b \in Elements(p.free) <=> p.refCnt[b] = 0
      BY DEF Sound, Counted
    <3>2. b \in Elements(p.free) => b \notin Elements(bs)
      BY <1>2, FreeBlocksUnheld
    <3>. QED
      BY <1>8, <3>1, <3>2
  <2>. QED
    BY <1>3, <1>7, <1>8, <2>1, <2>2 DEF Counted
<1>11. Mapped(q)
  BY <1>3 DEF Sound, Mapped
<1>12. Agreeing(u)
  BY <1>5 DEF Sound, Agreeing
<1>13. Split(q, u, d)
  <2>1. q.hash[NullBlock] = NoHash
    BY <1>3 DEF Sound, Split
  <2>3. u[r] = <<>> /\ d[r] = 0 /\ Len(u[r]) = 0 /\ DOMAIN u[r] = {} /\ Elements(u[r]) = {}
    BY <1>5 DEF Elements
  <2>4. 0 <= NumHashes(r)
    BY HashFacts
  <2>5. ASSUME NEW s \in Request
        PROVE  /\ NullBlock \notin Elements(u[s])
               /\ d[s] <= Len(u[s]) /\ d[s] <= NumHashes(s)
               /\ \A i \in DOMAIN u[s] :
                    IF i <= d[s]
                    THEN q.hash[u[s][i]] \in {BlockHash(s, i), NoHash}
                    ELSE q.hash[u[s][i]] = NoHash /\ HoldersIn(u, u[s][i]) = {s}
    <3>1. CASE s = r
      BY <2>3, <2>4, <3>1
    <3>2. CASE s # r
      <4>1. u[s] = t[s] /\ d[s] = c[s]
        BY <1>5, <3>2
      <4>2. \A b : HoldersIn(t, b) = {s} => HoldersIn(u, b) = {s}
        BY <1>6, <3>2
      <4>3. /\ NullBlock \notin Elements(t[s])
            /\ c[s] <= Len(t[s]) /\ c[s] <= NumHashes(s)
            /\ \A i \in DOMAIN t[s] :
                 IF i <= c[s]
                 THEN p.hash[t[s][i]] \in {BlockHash(s, i), NoHash}
                 ELSE p.hash[t[s][i]] = NoHash /\ HoldersIn(t, t[s][i]) = {s}
        BY DEF Sound, Split
      <4>. QED
        BY <1>3, <4>1, <4>2, <4>3
    <3>. QED
      BY <3>1, <3>2
  <2>. QED
    BY <2>1, <2>5 DEF Split
<1>. QED
  BY <1>9, <1>10, <1>11, <1>12, <1>13 DEF Sound, bs, q, u, d

----------------------------------------------------------------------------

\* Appending blocks to the table of r adds r to their holders.
Extends(t, u, r, bs) ==
  /\ u \in [Request -> Seq(Block)]
  /\ \A s \in Request : s # r => u[s] = t[s]
  /\ u[r] = t[r] \o bs
  /\ Len(u[r]) = Len(t[r]) + Len(bs)
  /\ \A i \in 1 .. Len(t[r]) : u[r][i] = t[r][i]
  /\ \A i \in Len(t[r]) + 1 .. Len(u[r]) :
       /\ i - Len(t[r]) \in DOMAIN bs
       /\ u[r][i] = bs[i - Len(t[r])]
       /\ u[r][i] \in Elements(bs)
  /\ \A b : HoldersIn(u, b) =
       IF b \in Elements(bs) THEN HoldersIn(t, b) \cup {r} ELSE HoldersIn(t, b)
  /\ \A b \in Elements(bs) :
       Cardinality(HoldersIn(u, b)) = Cardinality(HoldersIn(t, b)) + 1

\* Appending blocks the table does not hold adds one holder to each of them.
LEMMA ExtendTable ==
  ASSUME NEW t \in [Request -> Seq(Block)], NEW r \in Request,
         NEW bs \in Seq(Block), Elements(bs) \cap Elements(t[r]) = {}
  PROVE  Extends(t, [t EXCEPT ![r] = t[r] \o bs], r, bs)
<1>. DEFINE u == [t EXCEPT ![r] = t[r] \o bs]
<1>1. t[r] \in Seq(Block)
  OBVIOUS
<1>2. /\ t[r] \o bs \in Seq(Block)
      /\ Elements(t[r] \o bs) = Elements(t[r]) \cup Elements(bs)
  BY <1>1, ConcatElements
<1>3. /\ u \in [Request -> Seq(Block)]
      /\ \A s \in Request : s # r => u[s] = t[s]
      /\ u[r] = t[r] \o bs
  BY <1>1, <1>2
<1>. HIDE DEF u
<1>4. /\ Len(u[r]) = Len(t[r]) + Len(bs)
      /\ \A i \in 1 .. Len(t[r]) : u[r][i] = t[r][i]
      /\ \A i \in Len(t[r]) + 1 .. Len(u[r]) :
              /\ i - Len(t[r]) \in DOMAIN bs
              /\ u[r][i] = bs[i - Len(t[r])]
  BY <1>1, <1>3
<1>5. \A i \in Len(t[r]) + 1 .. Len(u[r]) : u[r][i] \in Elements(bs)
  BY <1>4 DEF Elements
<1>6. \A b : HoldersIn(u, b) =
        IF b \in Elements(bs) THEN HoldersIn(t, b) \cup {r} ELSE HoldersIn(t, b)
  <2>. SUFFICES ASSUME NEW b
                PROVE  HoldersIn(u, b) = IF b \in Elements(bs) THEN HoldersIn(t, b) \cup {r}
                                                              ELSE HoldersIn(t, b)
    OBVIOUS
  <2>1. Elements(u[r]) = Elements(t[r]) \cup Elements(bs)
    BY <1>2, <1>3
  <2>. QED
    BY <1>3, <2>1 DEF HoldersIn
<1>7. ASSUME NEW b \in Elements(bs)
      PROVE  Cardinality(HoldersIn(u, b)) = Cardinality(HoldersIn(t, b)) + 1
  <2>1. r \notin HoldersIn(t, b)
    BY DEF HoldersIn
  <2>2. IsFiniteSet(HoldersIn(t, b))
    BY HoldersFinite
  <2>3. Cardinality(HoldersIn(t, b) \cup {r}) = Cardinality(HoldersIn(t, b)) + 1
    BY <2>1, <2>2, FS_AddElement
  <2>. QED
    BY <1>6, <2>3
<1>. QED
  BY <1>3, <1>4, <1>5, <1>6, <1>7 DEF Extends, u

\* get_new_blocks: the first n blocks of the queue, which nobody holds, lose
\* their hash and go to the end of the table of r.
LEMMA GrowSound ==
  ASSUME NEW p, NEW t, NEW c, Sound(p, t, c), NEW r \in Request,
         NEW n \in 0 .. Len(p.free)
  PROVE  /\ Sound(GetNewBlocks(p, n), [t EXCEPT ![r] = t[r] \o NewBlocks(p, n)], c)
         /\ Len(t[r] \o NewBlocks(p, n)) = Len(t[r]) + n
<1>. DEFINE bs == NewBlocks(p, n)
            q == EvictBlocks(p, Elements(bs))
            g == GetNewBlocks(p, n)
            u == [t EXCEPT ![r] = t[r] \o bs]
<1>1. /\ p \in Pool /\ t \in [Request -> Seq(Block)] /\ c \in [Request -> Nat]
      /\ p.free \in Seq(Block) /\ p.refCnt \in [Block -> Nat] /\ Distinct(p.free) /\ Mapped(p)
  BY DEF Sound, Typed, Pool, Counted
<1>2. /\ bs \in Seq(Block) /\ Len(bs) = n /\ Distinct(bs)
      /\ DropFirst(p.free, n) \in Seq(Block) /\ Distinct(DropFirst(p.free, n))
      /\ Elements(DropFirst(p.free, n)) = Elements(p.free) \ Elements(bs)
      /\ Elements(bs) \subseteq Elements(p.free)
  BY <1>1, SplitElements DEF NewBlocks
<1>3. \A b \in Elements(bs) : /\ b \in Block \ {NullBlock} /\ p.refCnt[b] = 0
                               /\ HoldersIn(t, b) = {}
                               /\ \A s \in Request : b \notin Elements(t[s])
  BY <1>2, FreeBlocksUnheld
<1>4. /\ g.free = DropFirst(p.free, n)
      /\ g.refCnt = [b \in Block |->
                       IF b \in Elements(bs) THEN p.refCnt[b] + 1 ELSE p.refCnt[b]]
      /\ g.hash = q.hash /\ g.cached = q.cached
      /\ g = [free |-> g.free, refCnt |-> g.refCnt, hash |-> g.hash, cached |-> g.cached]
  BY DEF GetNewBlocks
<1>5. /\ q \in Pool /\ Mapped(q)
      /\ \A b \in Block : q.hash[b] = IF b \in Elements(bs) THEN NoHash ELSE p.hash[b]
  <2>1. Elements(bs) \in SUBSET Block
    BY <1>3
  <2>. QED
    BY <1>1, <2>1, EvictFields
<1>. HIDE DEF bs, q, g
<1>6. /\ t \in [Request -> Seq(Block)] /\ bs \in Seq(Block)
      /\ Elements(bs) \cap Elements(t[r]) = {}
  BY <1>1, <1>2, <1>3
<1>7. /\ u \in [Request -> Seq(Block)]
      /\ \A s \in Request : s # r => u[s] = t[s]
      /\ Len(u[r]) = Len(t[r]) + Len(bs)
      /\ \A i \in 1 .. Len(t[r]) : u[r][i] = t[r][i]
      /\ \A i \in Len(t[r]) + 1 .. Len(u[r]) : /\ i - Len(t[r]) \in DOMAIN bs
                                               /\ u[r][i] = bs[i - Len(t[r])]
                                               /\ u[r][i] \in Elements(bs)
      /\ \A b : HoldersIn(u, b) =
           IF b \in Elements(bs) THEN HoldersIn(t, b) \cup {r} ELSE HoldersIn(t, b)
  <2>1. Extends(t, u, r, bs)
    BY <1>6, ExtendTable
  <2>. QED
    BY <2>1 DEF Extends
<1>. HIDE DEF u
<1>8. /\ \A b \in Elements(bs) : HoldersIn(u, b) = {r} /\ Cardinality(HoldersIn(u, b)) = 1
      /\ \A b : b \notin Elements(bs) => HoldersIn(u, b) = HoldersIn(t, b)
  <2>1. Cardinality({r}) = 1
    BY FS_Singleton
  <2>. QED
    BY <1>3, <1>7, <2>1
<1>9. Typed(g, u, c)
  <2>1. g.refCnt \in [Block -> Nat]
    BY <1>1, <1>4
  <2>2. g.hash \in [Block -> Hash \cup {NoHash}] /\ g.cached \in [Hash -> Seq(Block)]
    BY <1>4, <1>5 DEF Pool
  <2>3. g \in Pool
    BY <1>2, <1>4, <2>1, <2>2 DEF Pool
  <2>. QED
    BY <1>1, <1>7, <2>3 DEF Typed
<1>10. Counted(g, u)
  <2>1. Distinct(g.free) /\ NullBlock \notin Elements(g.free)
    BY <1>2, <1>4 DEF Sound, Counted
  <2>2. ASSUME NEW b \in Block \ {NullBlock}
        PROVE  /\ g.refCnt[b] = Cardinality(HoldersIn(u, b))
               /\ b \in Elements(g.free) <=> g.refCnt[b] = 0
    <3>1. /\ p.refCnt[b] = Cardinality(HoldersIn(t, b))
          /\ b \in Elements(p.free) <=> p.refCnt[b] = 0
      BY DEF Sound, Counted
    <3>2. CASE b \in Elements(bs)
      <4>1. g.refCnt[b] = 1
        BY <1>3, <1>4, <3>2
      <4>2. b \notin Elements(g.free)
        BY <1>2, <1>4, <3>2
      <4>. QED
        BY <1>8, <3>2, <4>1, <4>2
    <3>3. CASE b \notin Elements(bs)
      <4>1. g.refCnt[b] = p.refCnt[b]
        BY <1>4, <3>3
      <4>. QED
        BY <1>2, <1>4, <1>8, <3>1, <3>3, <4>1
    <3>. QED
      BY <3>2, <3>3
  <2>. QED
    BY <2>1, <2>2 DEF Counted
<1>11. Mapped(g)
  BY <1>4, <1>5 DEF Mapped
<1>12. Agreeing(u)
  <2>. SUFFICES ASSUME NEW s1 \in Request, NEW s2 \in Request,
                       NEW i \in DOMAIN u[s1], NEW j \in DOMAIN u[s2],
                       u[s1][i] = u[s2][j]
                PROVE  i = j /\ (s1 = s2 \/ (/\ i <= NumHashes(s1)
                                            /\ BlockHash(s1, i) = BlockHash(s2, i)))
    BY DEF Agreeing
  <2>1. \A s \in Request : \A k \in DOMAIN u[s] :
          \/ k \in DOMAIN t[s] /\ u[s][k] = t[s][k] /\ u[s][k] \notin Elements(bs)
          \/ /\ s = r /\ k - Len(t[r]) \in DOMAIN bs
             /\ u[s][k] = bs[k - Len(t[r])] /\ u[s][k] \in Elements(bs)
             /\ k \in Nat
    <3>. SUFFICES ASSUME NEW s \in Request, NEW k \in DOMAIN u[s]
                  PROVE
          \/ k \in DOMAIN t[s] /\ u[s][k] = t[s][k] /\ u[s][k] \notin Elements(bs)
          \/ /\ s = r /\ k - Len(t[r]) \in DOMAIN bs
             /\ u[s][k] = bs[k - Len(t[r])] /\ u[s][k] \in Elements(bs)
             /\ k \in Nat
      OBVIOUS
    <3>1. \A l \in DOMAIN t[s] : t[s][l] \notin Elements(bs)
      BY <1>3 DEF Elements
    <3>2. CASE s # r
      BY <1>7, <3>1, <3>2
    <3>3. CASE s = r
      <4>1. DOMAIN t[r] = 1 .. Len(t[r]) /\ k \in 1 .. Len(u[r]) /\ Len(t[r]) \in Nat
        BY <1>1, <1>7, <3>3
      <4>2. CASE k <= Len(t[r])
        BY <1>7, <3>1, <3>3, <4>1, <4>2, SMTT(30)
      <4>3. CASE k > Len(t[r])
        <5>1. k \in Len(t[r]) + 1 .. Len(u[r])
          BY <1>7, <4>1, <4>3
        <5>. QED
          BY <1>7, <3>3, <4>1, <5>1
      <4>. QED
        BY <4>1, <4>2, <4>3
    <3>. QED
      BY <3>2, <3>3
  <2>2. CASE u[s1][i] \in Elements(bs)
    <3>1. /\ s1 = r /\ i - Len(t[r]) \in DOMAIN bs /\ u[s1][i] = bs[i - Len(t[r])]
          /\ s2 = r /\ j - Len(t[r]) \in DOMAIN bs /\ u[s2][j] = bs[j - Len(t[r])]
          /\ i \in Nat /\ j \in Nat
      BY <2>1, <2>2
    <3>2. i - Len(t[r]) = j - Len(t[r])
      BY <1>2, <3>1 DEF Distinct
    <3>3. Len(t[r]) \in Nat
      BY <1>1
    <3>. QED
      BY <3>1, <3>2, <3>3
  <2>3. CASE u[s1][i] \notin Elements(bs)
    BY <2>1, <2>3 DEF Sound, Agreeing
  <2>. QED
    BY <2>2, <2>3
<1>13. Split(g, u, c)
  <2>1. g.hash[NullBlock] = NoHash
    BY <1>4, <1>5, NullIsBlock DEF Sound, Split
  <2>2. ASSUME NEW s \in Request, NEW i \in DOMAIN t[s]
        PROVE  /\ g.hash[t[s][i]] = p.hash[t[s][i]]
               /\ HoldersIn(u, t[s][i]) = HoldersIn(t, t[s][i])
    <3>1. t[s][i] \in Block
      BY <1>1
    <3>2. t[s][i] \in Elements(t[s])
      BY DEF Elements
    <3>3. t[s][i] \notin Elements(bs)
      BY <1>3, <3>2
    <3>. QED
      BY <1>4, <1>5, <1>8, <3>1, <3>3
  <2>3. ASSUME NEW s \in Request
        PROVE  /\ NullBlock \notin Elements(t[s])
               /\ c[s] <= Len(t[s]) /\ c[s] <= NumHashes(s) /\ c[s] \in Nat
               /\ \A i \in DOMAIN t[s] :
                    IF i <= c[s]
                    THEN g.hash[t[s][i]] \in {BlockHash(s, i), NoHash}
                    ELSE g.hash[t[s][i]] = NoHash /\ HoldersIn(u, t[s][i]) = {s}
    <3>1. /\ NullBlock \notin Elements(t[s])
          /\ c[s] <= Len(t[s]) /\ c[s] <= NumHashes(s) /\ c[s] \in Nat
          /\ \A i \in DOMAIN t[s] :
               IF i <= c[s]
               THEN p.hash[t[s][i]] \in {BlockHash(s, i), NoHash}
               ELSE p.hash[t[s][i]] = NoHash /\ HoldersIn(t, t[s][i]) = {s}
      BY <1>1 DEF Sound, Split
    <3>. QED
      BY <2>2, <3>1
  <2>4. ASSUME NEW i \in Len(t[r]) + 1 .. Len(u[r])
        PROVE  g.hash[u[r][i]] = NoHash /\ HoldersIn(u, u[r][i]) = {r}
    <3>1. u[r][i] \in Elements(bs) /\ u[r][i] \in Block
      BY <1>3, <1>7
    <3>. QED
      BY <1>4, <1>5, <1>8, <3>1
  <2>5. ASSUME NEW s \in Request
        PROVE  /\ NullBlock \notin Elements(u[s])
               /\ c[s] <= Len(u[s]) /\ c[s] <= NumHashes(s)
               /\ \A i \in DOMAIN u[s] :
                    IF i <= c[s]
                    THEN g.hash[u[s][i]] \in {BlockHash(s, i), NoHash}
                    ELSE g.hash[u[s][i]] = NoHash /\ HoldersIn(u, u[s][i]) = {s}
    <3>1. CASE s # r
      <4>1. u[s] = t[s]
        BY <1>7, <3>1
      <4>. QED
        BY <2>3, <4>1
    <3>2. CASE s = r
      <4>1. Len(t[r]) \in Nat /\ DOMAIN t[r] = 1 .. Len(t[r]) /\ DOMAIN u[r] = 1 .. Len(u[r])
            /\ Len(u[r]) \in Nat /\ Len(t[r]) <= Len(u[r])
        BY <1>1, <1>7
      <4>2. Elements(u[r]) \subseteq Elements(t[r]) \cup Elements(bs)
        BY <1>7, <4>1, SMTT(30) DEF Elements
      <4>3. NullBlock \notin Elements(u[r])
        BY <1>3, <2>3, <4>2
      <4>4. c[r] <= Len(u[r]) /\ c[r] <= NumHashes(r)
        BY <2>3, <4>1
      <4>5. ASSUME NEW i \in 1 .. Len(u[r])
            PROVE  IF i <= c[r]
                   THEN g.hash[u[r][i]] \in {BlockHash(r, i), NoHash}
                   ELSE g.hash[u[r][i]] = NoHash /\ HoldersIn(u, u[r][i]) = {r}
        <5>1. CASE i <= Len(t[r])
          <6>1. i \in 1 .. Len(t[r]) /\ u[r][i] = t[r][i]
            BY <1>7, <4>1, <5>1
          <6>. QED
            BY <2>3, <4>1, <6>1
        <5>2. CASE i > Len(t[r])
          <6>1. i \in Len(t[r]) + 1 .. Len(u[r]) /\ ~(i <= c[r])
            BY <2>3, <4>1, <5>2
          <6>. QED
            BY <2>4, <6>1
        <5>3. i <= Len(t[r]) \/ i > Len(t[r])
          BY <4>1
        <5>. QED
          BY <5>1, <5>2, <5>3
      <4>. QED
        BY <3>2, <4>1, <4>3, <4>4, <4>5
    <3>. QED
      BY <3>1, <3>2
  <2>. QED
    BY <2>1, <2>5 DEF Split
<1>. QED
  BY <1>2, <1>7, <1>9, <1>10, <1>11, <1>12, <1>13 DEF Sound, g, u, bs

----------------------------------------------------------------------------

\* What find_longest_cache_hit returns: blocks cached under the hashes of r.
IsHit(p, r, hits) ==
  /\ hits \in Seq(Block)
  /\ \A i \in DOMAIN hits : i \in 1 .. NumHashes(r) /\ p.hash[hits[i]] = BlockHash(r, i)

\* Hits are real blocks with a hash, and those that nobody holds are in the free
\* queue: touch may remove them from it.
LEMMA HitBlocks ==
  ASSUME NEW p, NEW t, NEW c, Sound(p, t, c), NEW r \in Request,
         NEW hits, IsHit(p, r, hits)
  PROVE  /\ \A b \in Elements(hits) : /\ b \in Block \ {NullBlock}
                                      /\ p.hash[b] # NoHash
                                      /\ \E i \in DOMAIN hits : hits[i] = b
         /\ Evictable(p, hits) = Elements(hits) \cap Elements(p.free)
<1>2. hits \in Seq(Block)
  BY DEF IsHit
<1>3. \A b \in Elements(hits) : /\ b \in Block \ {NullBlock}
                                 /\ p.hash[b] # NoHash
                                 /\ \E i \in DOMAIN hits : hits[i] = b
  <2>. SUFFICES ASSUME NEW i \in DOMAIN hits
                PROVE  hits[i] \in Block \ {NullBlock} /\ p.hash[hits[i]] # NoHash
    BY DEF Elements
  <2>1. p.hash[hits[i]] = BlockHash(r, i) /\ BlockHash(r, i) \in Hash
    BY HashFacts DEF IsHit
  <2>2. p.hash[hits[i]] # NoHash /\ p.hash[NullBlock] = NoHash
    BY <2>1, NoHashIsNone DEF Sound, Split
  <2>. QED
    BY <1>2, <2>2
<1>4. Evictable(p, hits) = Elements(hits) \cap Elements(p.free)
  <2>1. \A b \in Elements(hits) : p.refCnt[b] = 0 <=> b \in Elements(p.free)
    BY <1>3 DEF Sound, Counted
  <2>. QED
    BY <1>3, <2>1 DEF Evictable
<1>. QED
  BY <1>3, <1>4

\* touch: a request without blocks becomes a further holder of its hits, and
\* those that waited for eviction leave the free queue.
LEMMA TouchSound ==
  ASSUME NEW p, NEW t, NEW c, Sound(p, t, c), NEW r \in Request,
         NEW hits, IsHit(p, r, hits), hits = <<>> \/ t[r] = <<>>
  PROVE  Sound(Touch(p, hits), [t EXCEPT ![r] = t[r] \o hits],
               [c EXCEPT ![r] = c[r] + Len(hits)])
<1>. DEFINE q == Touch(p, hits)
            u == [t EXCEPT ![r] = t[r] \o hits]
            d == [c EXCEPT ![r] = c[r] + Len(hits)]
<1>1. /\ p \in Pool /\ t \in [Request -> Seq(Block)] /\ c \in [Request -> Nat]
      /\ p.free \in Seq(Block) /\ p.refCnt \in [Block -> Nat] /\ Distinct(p.free)
  BY DEF Sound, Typed, Pool, Counted
<1>2. hits \in Seq(Block) /\ Len(hits) \in Nat /\ DOMAIN hits = 1 .. Len(hits)
  BY DEF IsHit
<1>3. \A b \in Elements(hits) : /\ b \in Block \ {NullBlock}
                                 /\ p.hash[b] # NoHash
                                 /\ \E i \in DOMAIN hits : hits[i] = b
  BY HitBlocks
<1>4. Evictable(p, hits) = Elements(hits) \cap Elements(p.free)
  BY HitBlocks
<1>5. /\ q.free = Without(p.free, Evictable(p, hits))
      /\ q.refCnt = [b \in Block |->
                       IF b \in Elements(hits) THEN p.refCnt[b] + 1 ELSE p.refCnt[b]]
      /\ q.hash = p.hash /\ q.cached = p.cached
      /\ q = [free |-> q.free, refCnt |-> q.refCnt, hash |-> q.hash, cached |-> q.cached]
  BY DEF Touch
<1>6. /\ q.free \in Seq(Block) /\ Distinct(q.free)
      /\ Elements(q.free) = Elements(p.free) \ Elements(hits)
  <2>1. /\ q.free \in Seq(Block) /\ Distinct(q.free)
        /\ Elements(q.free) = Elements(p.free) \ Evictable(p, hits)
    BY <1>1, <1>5, WithoutElements
  <2>. QED
    BY <1>4, <2>1
<1>7. Elements(hits) \cap Elements(t[r]) = {}
  BY DEF Elements
<1>8. Extends(t, u, r, hits)
  BY <1>1, <1>2, <1>7, ExtendTable
<1>9. /\ d \in [Request -> Nat] /\ d[r] = c[r] + Len(hits)
      /\ \A s \in Request : s # r => d[s] = c[s]
  BY <1>1, <1>2
<1>. HIDE DEF q, u, d
<1>10. Typed(q, u, d)
  <2>1. q.refCnt \in [Block -> Nat]
    BY <1>1, <1>5
  <2>2. q \in Pool
    BY <1>1, <1>5, <1>6, <2>1 DEF Pool
  <2>. QED
    BY <1>8, <1>9, <2>2 DEF Typed, Extends
<1>11. Counted(q, u)
  <2>1. NullBlock \notin Elements(q.free)
    BY <1>6 DEF Sound, Counted
  <2>2. ASSUME NEW b \in Block \ {NullBlock}
        PROVE  /\ q.refCnt[b] = Cardinality(HoldersIn(u, b))
               /\ b \in Elements(q.free) <=> q.refCnt[b] = 0
    <3>1. /\ p.refCnt[b] = Cardinality(HoldersIn(t, b))
          /\ b \in Elements(p.free) <=> p.refCnt[b] = 0
      BY DEF Sound, Counted
    <3>2. CASE b \in Elements(hits)
      <4>1. p.refCnt[b] \in Nat
        BY <3>1, HoldersFinite, FS_CardinalityType
      <4>2. q.refCnt[b] = p.refCnt[b] + 1
        BY <1>5, <3>2
      <4>3. Cardinality(HoldersIn(u, b)) = Cardinality(HoldersIn(t, b)) + 1
        BY <1>8, <3>2 DEF Extends
      <4>4. b \notin Elements(q.free)
        BY <1>6, <3>2
      <4>. QED
        BY <3>1, <4>1, <4>2, <4>3, <4>4
    <3>3. CASE b \notin Elements(hits)
      <4>1. q.refCnt[b] = p.refCnt[b] /\ HoldersIn(u, b) = HoldersIn(t, b)
        BY <1>5, <1>8, <3>3 DEF Extends
      <4>2. b \in Elements(q.free) <=> b \in Elements(p.free)
        BY <1>6, <3>3
      <4>. QED
        BY <3>1, <4>1, <4>2
    <3>. QED
      BY <3>2, <3>3
  <2>. QED
    BY <1>6, <2>1, <2>2 DEF Counted
<1>12. Mapped(q)
  BY <1>5 DEF Sound, Mapped
<1>13. \A s \in Request : \A k \in DOMAIN u[s] :
         \/ k \in DOMAIN t[s] /\ u[s][k] = t[s][k]
         \/ s = r /\ k \in DOMAIN hits /\ u[s][k] = hits[k] /\ t[r] = <<>>
  <2>. SUFFICES ASSUME NEW s \in Request, NEW k \in DOMAIN u[s]
                PROVE  \/ k \in DOMAIN t[s] /\ u[s][k] = t[s][k]
                       \/ s = r /\ k \in DOMAIN hits /\ u[s][k] = hits[k] /\ t[r] = <<>>
    OBVIOUS
  <2>1. CASE s # r
    BY <1>8, <2>1 DEF Extends
  <2>2. CASE s = r /\ t[r] = <<>>
    <3>1. u[r] = <<>> \o hits
      BY <1>8, <2>2 DEF Extends
    <3>2. u[r] = hits
      BY <1>2, <3>1
    <3>. QED
      BY <2>2, <3>2
  <2>3. CASE s = r /\ hits = <<>>
    <3>1. u[r] = t[r] \o <<>> /\ t[r] \in Seq(Block)
      BY <1>1, <1>8, <2>3 DEF Extends
    <3>2. u[r] = t[r]
      BY <3>1
    <3>. QED
      BY <2>3, <3>2
  <2>. QED
    BY <2>1, <2>2, <2>3
<1>14. \A s \in Request : \A k \in DOMAIN t[s] :
         t[s][k] \in Elements(hits) => /\ k \in 1 .. NumHashes(s) /\ k <= c[s]
                                       /\ p.hash[t[s][k]] = BlockHash(s, k)
  <2>. SUFFICES ASSUME NEW s \in Request, NEW k \in DOMAIN t[s], t[s][k] \in Elements(hits)
                PROVE  k \in 1 .. NumHashes(s) /\ k <= c[s] /\ p.hash[t[s][k]] = BlockHash(s, k)
    OBVIOUS
  <2>1. p.hash[t[s][k]] # NoHash
    BY <1>3
  <2>2. k <= c[s] /\ p.hash[t[s][k]] = BlockHash(s, k) /\ c[s] <= NumHashes(s)
    BY <2>1 DEF Sound, Split
  <2>3. k \in Nat \ {0} /\ c[s] \in Nat /\ NumHashes(s) \in Nat
    BY <1>1, HashFacts, SMTT(30)
  <2>. QED
    BY <2>2, <2>3
<1>15. Agreeing(u)
  <2>. SUFFICES ASSUME NEW s1 \in Request, NEW s2 \in Request,
                       NEW i \in DOMAIN u[s1], NEW j \in DOMAIN u[s2],
                       u[s1][i] = u[s2][j]
                PROVE  i = j /\ (s1 = s2 \/ (/\ i <= NumHashes(s1)
                                            /\ BlockHash(s1, i) = BlockHash(s2, i)))
    BY DEF Agreeing
  <2>1. ASSUME NEW s \in Request, NEW k \in DOMAIN u[s], u[s][k] \in Elements(hits)
        PROVE  k \in 1 .. NumHashes(s) /\ p.hash[u[s][k]] = BlockHash(s, k)
    <3>1. CASE k \in DOMAIN t[s] /\ u[s][k] = t[s][k]
      BY <1>14, <2>1, <3>1
    <3>2. CASE s = r /\ k \in DOMAIN hits /\ u[s][k] = hits[k]
      BY <3>2 DEF IsHit
    <3>. QED
      BY <1>13, <3>1, <3>2
  <2>2. CASE u[s1][i] \in Elements(hits)
    <3>1. /\ i \in 1 .. NumHashes(s1) /\ p.hash[u[s1][i]] = BlockHash(s1, i)
          /\ j \in 1 .. NumHashes(s2) /\ p.hash[u[s2][j]] = BlockHash(s2, j)
      BY <2>1, <2>2
    <3>2. BlockHash(s1, i) = BlockHash(s2, j)
      BY <3>1
    <3>3. i = j
      BY <3>1, <3>2, HashPlace
    <3>. QED
      BY <3>1, <3>2, <3>3
  <2>3. CASE u[s1][i] \notin Elements(hits)
    <3>1. /\ i \in DOMAIN t[s1] /\ u[s1][i] = t[s1][i]
          /\ j \in DOMAIN t[s2] /\ u[s2][j] = t[s2][j]
      BY <1>13, <2>3 DEF Elements
    <3>2. Agreeing(t) /\ t[s1][i] = t[s2][j]
      BY <3>1 DEF Sound
    <3>. QED
      BY <3>1, <3>2 DEF Agreeing
  <2>. QED
    BY <2>2, <2>3
<1>16. Split(q, u, d)
  <2>1. q.hash[NullBlock] = NoHash
    BY <1>5 DEF Sound, Split
  <2>2. ASSUME NEW s \in Request
        PROVE  /\ NullBlock \notin Elements(t[s])
               /\ c[s] <= Len(t[s]) /\ c[s] <= NumHashes(s) /\ c[s] \in Nat
               /\ \A i \in DOMAIN t[s] :
                    IF i <= c[s]
                    THEN p.hash[t[s][i]] \in {BlockHash(s, i), NoHash}
                    ELSE p.hash[t[s][i]] = NoHash /\ HoldersIn(t, t[s][i]) = {s}
    BY <1>1 DEF Sound, Split
  <2>3. ASSUME NEW s \in Request, NEW i \in DOMAIN t[s], ~(i <= c[s])
        PROVE  HoldersIn(u, t[s][i]) = {s}
    <3>1. t[s][i] \notin Elements(hits)
      BY <1>14, <2>3
    <3>. QED
      BY <1>8, <2>2, <2>3, <3>1 DEF Extends
  <2>4. ASSUME NEW s \in Request
        PROVE  /\ NullBlock \notin Elements(u[s])
               /\ d[s] <= Len(u[s]) /\ d[s] <= NumHashes(s)
               /\ \A i \in DOMAIN u[s] :
                    IF i <= d[s]
                    THEN p.hash[u[s][i]] \in {BlockHash(s, i), NoHash}
                    ELSE p.hash[u[s][i]] = NoHash /\ HoldersIn(u, u[s][i]) = {s}
    <3>1. CASE u[s] = t[s] /\ d[s] = c[s]
      BY <2>2, <2>3, <3>1
    <3>2. CASE s = r /\ t[r] = <<>>
      <4>1. u[r] = hits /\ c[r] = 0 /\ d[r] = Len(hits)
        <5>1. u[r] = <<>> \o hits
          BY <1>8, <3>2 DEF Extends
        <5>2. u[r] = hits
          BY <1>2, <5>1
        <5>3. Len(t[r]) = 0 /\ c[r] <= Len(t[r]) /\ c[r] \in Nat
          BY <2>2, <3>2
        <5>. QED
          BY <1>2, <1>9, <5>2, <5>3
      <4>2. NullBlock \notin Elements(hits)
        BY <1>3
      <4>3. Len(hits) <= NumHashes(r)
        <5>1. CASE Len(hits) = 0
          BY <5>1, HashFacts
        <5>2. CASE Len(hits) # 0
          <6>1. Len(hits) \in DOMAIN hits
            BY <1>2, <5>2
          <6>. QED
            BY <6>1, HashFacts DEF IsHit
        <5>. QED
          BY <5>1, <5>2
      <4>4. \A i \in DOMAIN hits : i <= Len(hits) /\ p.hash[hits[i]] = BlockHash(r, i)
        BY <1>2 DEF IsHit
      <4>. QED
        BY <1>2, <3>2, <4>1, <4>2, <4>3, <4>4
    <3>3. s # r => u[s] = t[s] /\ d[s] = c[s]
      BY <1>8, <1>9 DEF Extends
    <3>4. hits = <<>> => u[r] = t[r] /\ d[r] = c[r]
      <4>. SUFFICES ASSUME hits = <<>> PROVE u[r] = t[r] /\ d[r] = c[r]
        OBVIOUS
      <4>1. u[r] = t[r] \o <<>> /\ t[r] \in Seq(Block)
        BY <1>1, <1>8 DEF Extends
      <4>2. Len(hits) = 0 /\ c[r] \in Nat
        BY <1>1
      <4>. QED
        BY <1>9, <4>1, <4>2
    <3>. QED
      BY <3>1, <3>2, <3>3, <3>4
  <2>5. q.hash = p.hash
    BY <1>5
  <2>6. ASSUME NEW s \in Request
        PROVE  /\ NullBlock \notin Elements(u[s])
               /\ d[s] <= Len(u[s]) /\ d[s] <= NumHashes(s)
               /\ \A i \in DOMAIN u[s] :
                    IF i <= d[s]
                    THEN q.hash[u[s][i]] \in {BlockHash(s, i), NoHash}
                    ELSE q.hash[u[s][i]] = NoHash /\ HoldersIn(u, u[s][i]) = {s}
    BY <2>4, <2>5
  <2>. QED
    BY <2>1, <2>6 DEF Split
<1>. QED
  BY <1>10, <1>11, <1>12, <1>15, <1>16 DEF Sound, q, u, d

----------------------------------------------------------------------------

\* What cache_full_blocks does to the blocks behind the split of r's table: each
\* gets its own hash and is entered under it, and nothing else changes.
LEMMA CacheFields ==
  ASSUME NEW p, NEW t, NEW c, Sound(p, t, c), NEW r \in Request,
         NEW to \in Nat, to > c[r], to <= Len(t[r]), to <= NumHashes(r),
         NEW q, q = CacheFullBlocks(p, t[r], [i \in 1 .. NumHashes(r) |-> BlockHash(r, i)],
                                    c[r], to)
  PROVE  /\ q.free = p.free /\ q.refCnt = p.refCnt /\ q \in Pool
         /\ \A i \in c[r] + 1 .. to : q.hash[t[r][i]] = BlockHash(r, i)
         /\ \A b \in Block : (\A i \in c[r] + 1 .. to : t[r][i] # b) => q.hash[b] = p.hash[b]
         /\ \A h \in Hash : (\A i \in c[r] + 1 .. to : BlockHash(r, i) # h)
                               => q.cached[h] = p.cached[h]
         /\ \A i \in c[r] + 1 .. to :
              q.cached[BlockHash(r, i)] = Append(p.cached[BlockHash(r, i)], t[r][i])
<1>. DEFINE hs == [i \in 1 .. NumHashes(r) |-> BlockHash(r, i)]
            new == NewlyCached(t[r], c[r], to)
            at(b) == CHOOSE i \in new : t[r][i] = b
            under(h) == {i \in new : hs[i] = h}
<1>1. /\ p \in Pool /\ t \in [Request -> Seq(Block)] /\ c[r] \in Nat
      /\ p.hash \in [Block -> Hash \cup {NoHash}] /\ p.cached \in [Hash -> Seq(Block)]
      /\ p.free \in Seq(Block) /\ p.refCnt \in [Block -> Nat] /\ t[r] \in Seq(Block)
  BY DEF Sound, Typed, Pool
<1>2. \A i \in c[r] + 1 .. to : i \in DOMAIN t[r] /\ i \in 1 .. NumHashes(r) /\ t[r][i] \in Block
  BY <1>1, HashFacts
<1>3. new = c[r] + 1 .. to
  <2>1. NullBlock \notin Elements(t[r])
    BY DEF Sound, Split
  <2>2. \A i \in c[r] + 1 .. to : t[r][i] # NullBlock
    BY <1>2, <2>1 DEF Elements
  <2>. QED
    BY <2>2 DEF NewlyCached
<1>4. \A i, j \in new : t[r][i] = t[r][j] => i = j
  BY <1>2, <1>3 DEF Sound, Agreeing
<1>5. \A i \in new : /\ hs[i] = BlockHash(r, i) /\ BlockHash(r, i) \in Hash
                     /\ t[r][i] \in Block /\ i \in 1 .. NumHashes(r)
  BY <1>2, <1>3, HashFacts
<1>6. \A i, j \in new : hs[i] = hs[j] => i = j
  BY <1>5, HashPlace
<1>7. /\ q.free = p.free /\ q.refCnt = p.refCnt
      /\ q.hash = [b \in Block |->
                     IF \E i \in new : t[r][i] = b THEN hs[at(b)] ELSE p.hash[b]]
      /\ q.cached = [h \in Hash |->
                       IF under(h) = {} THEN p.cached[h]
                       ELSE Append(p.cached[h], t[r][CHOOSE i \in under(h) : TRUE])]
      /\ q = [free |-> q.free, refCnt |-> q.refCnt, hash |-> q.hash, cached |-> q.cached]
  BY DEF CacheFullBlocks
<1>8. \A i \in new : at(t[r][i]) = i
  BY <1>4
<1>9. \A i \in new : under(BlockHash(r, i)) = {i}
  BY <1>5, <1>6
<1>10. \A i \in new : (CHOOSE k \in under(BlockHash(r, i)) : TRUE) = i
  BY <1>9
<1>11. \A h \in Hash : (\A i \in new : BlockHash(r, i) # h) => under(h) = {}
  BY <1>5
<1>12. \A h \in Hash : under(h) # {} => \E i \in new : BlockHash(r, i) = h
  BY <1>5
<1>. HIDE DEF at, under, hs, new
<1>13. \A i \in new : q.hash[t[r][i]] = BlockHash(r, i)
  BY <1>5, <1>7, <1>8
<1>14. \A b \in Block : (\A i \in new : t[r][i] # b) => q.hash[b] = p.hash[b]
  BY <1>7
<1>15. \A h \in Hash : (\A i \in new : BlockHash(r, i) # h) => q.cached[h] = p.cached[h]
  BY <1>7, <1>11
<1>16. \A i \in new :
         q.cached[BlockHash(r, i)] = Append(p.cached[BlockHash(r, i)], t[r][i])
  <2>. SUFFICES ASSUME NEW i \in new
                PROVE  q.cached[BlockHash(r, i)] = Append(p.cached[BlockHash(r, i)], t[r][i])
    OBVIOUS
  <2>1. under(BlockHash(r, i)) # {} /\ BlockHash(r, i) \in Hash
    BY <1>5, <1>9
  <2>. QED
    BY <1>7, <1>10, <2>1, ZenonT(30)
<1>17. q.hash \in [Block -> Hash \cup {NoHash}]
  <2>1. \A b \in Block : q.hash[b] \in Hash \cup {NoHash}
    <3>. SUFFICES ASSUME NEW b \in Block PROVE q.hash[b] \in Hash \cup {NoHash}
      OBVIOUS
    <3>1. CASE \E i \in new : t[r][i] = b
      BY <1>5, <1>13, <3>1
    <3>2. CASE \A i \in new : t[r][i] # b
      BY <1>1, <1>14, <3>2
    <3>. QED
      BY <3>1, <3>2
  <2>. QED
    BY <1>7, <2>1
<1>18. q.cached \in [Hash -> Seq(Block)]
  <2>1. \A h \in Hash : q.cached[h] \in Seq(Block)
    <3>. SUFFICES ASSUME NEW h \in Hash PROVE q.cached[h] \in Seq(Block)
      OBVIOUS
    <3>1. CASE \E i \in new : BlockHash(r, i) = h
      <4>1. PICK i \in new : BlockHash(r, i) = h
        BY <3>1
      <4>2. p.cached[h] \in Seq(Block) /\ t[r][i] \in Block
        BY <1>1, <1>5
      <4>3. q.cached[h] = Append(p.cached[h], t[r][i])
        BY <1>16, <4>1
      <4>. QED
        BY <4>2, <4>3, AppendProperties
    <3>2. CASE \A i \in new : BlockHash(r, i) # h
      BY <1>1, <1>15, <3>2
    <3>. QED
      BY <3>1, <3>2
  <2>. QED
    BY <1>7, <2>1
<1>19. q \in Pool
  BY <1>1, <1>7, <1>17, <1>18 DEF Pool
<1>. QED
  BY <1>3, <1>7, <1>13, <1>14, <1>15, <1>16, <1>19

\* cache_blocks: the split moves behind the blocks that became cached, none of
\* its assertions fails, and nobody else's table is concerned.
LEMMA CacheSound ==
  ASSUME NEW p, NEW t, NEW c, Sound(p, t, c), NEW r \in Request,
         NEW n \in Nat, n \div BlockSize <= Len(t[r]), n \div BlockSize <= NumHashes(r)
  PROVE  /\ Sound(CacheBlocks(p, r, t[r], c[r], n), t,
                  [c EXCEPT ![r] = Max2(c[r], n \div BlockSize)])
         /\ ~CacheRaises(p, t[r], c[r], n, n)
<1>. DEFINE to == n \div BlockSize
            d == [c EXCEPT ![r] = Max2(c[r], to)]
<1>1. /\ p \in Pool /\ t \in [Request -> Seq(Block)] /\ c \in [Request -> Nat]
      /\ c[r] \in Nat /\ t[r] \in Seq(Block) /\ DOMAIN t[r] = 1 .. Len(t[r])
      /\ p.hash \in [Block -> Hash \cup {NoHash}] /\ p.cached \in [Hash -> Seq(Block)]
  BY DEF Sound, Typed, Pool
<1>2. to \in Nat
  BY SizeAssumption, DivFacts
<1>3. ~CacheRaises(p, t[r], c[r], n, n)
  <2>. SUFFICES ASSUME NEW i \in c[r] + 1 .. to
                PROVE  ~(i > Len(t[r])) /\ ~(i > to) /\ p.hash[t[r][i]] = NoHash
    BY DEF CacheRaises
  <2>1. i \in DOMAIN t[r] /\ ~(i <= c[r]) /\ ~(i > Len(t[r])) /\ ~(i > to)
    BY <1>1, <1>2
  <2>. QED
    BY <2>1 DEF Sound, Split
<1>4. CASE ~(to > c[r])
  <2>1. CacheBlocks(p, r, t[r], c[r], n) = p
    BY <1>4 DEF CacheBlocks
  <2>2. Max2(c[r], to) = c[r]
    BY <1>1, <1>2, <1>4 DEF Max2
  <2>3. d = c
    BY <1>1, <2>2
  <2>. QED
    BY <1>3, <2>1, <2>3
<1>5. CASE to > c[r]
  <2>. DEFINE q == CacheBlocks(p, r, t[r], c[r], n)
              new == c[r] + 1 .. to
  <2>1. q = CacheFullBlocks(p, t[r], [i \in 1 .. NumHashes(r) |-> BlockHash(r, i)], c[r], to)
    BY <1>5 DEF CacheBlocks
  <2>2. d \in [Request -> Nat] /\ d[r] = to /\ \A s \in Request : s # r => d[s] = c[s]
    BY <1>1, <1>2, <1>5 DEF Max2
  <2>. HIDE DEF q, to, d
  <2>3. to <= Len(t[r]) /\ to <= NumHashes(r)
    BY DEF to
  <2>4. /\ q.free = p.free /\ q.refCnt = p.refCnt /\ q \in Pool
        /\ \A i \in new : q.hash[t[r][i]] = BlockHash(r, i)
        /\ \A b \in Block : (\A i \in new : t[r][i] # b) => q.hash[b] = p.hash[b]
        /\ \A h \in Hash : (\A i \in new : BlockHash(r, i) # h) => q.cached[h] = p.cached[h]
        /\ \A i \in new :
             q.cached[BlockHash(r, i)] = Append(p.cached[BlockHash(r, i)], t[r][i])
    BY <1>2, <1>5, <2>1, <2>3, CacheFields, SMTT(30)
  <2>5. \A i \in new : /\ i \in DOMAIN t[r] /\ i \in 1 .. NumHashes(r) /\ ~(i <= c[r])
                       /\ t[r][i] \in Block /\ BlockHash(r, i) \in Hash
    BY <1>1, <1>2, <2>3, HashFacts
  <2>. HIDE DEF new
  <2>6. \A i \in new : p.hash[t[r][i]] = NoHash /\ HoldersIn(t, t[r][i]) = {r}
    BY <2>5 DEF Sound, Split
  <2>7. Typed(q, t, d)
    BY <1>1, <2>2, <2>4 DEF Typed
  <2>8. Counted(q, t)
    BY <2>4 DEF Sound, Counted
  <2>9. Mapped(q)
    <3>. SUFFICES ASSUME NEW h \in Hash
                  PROVE  /\ Distinct(q.cached[h])
                         /\ \A b \in Block : b \in Elements(q.cached[h]) <=> q.hash[b] = h
      BY DEF Mapped
    <3>1. /\ Distinct(p.cached[h]) /\ p.cached[h] \in Seq(Block) /\ h # NoHash
          /\ \A b \in Block : b \in Elements(p.cached[h]) <=> p.hash[b] = h
      BY <1>1, NoHashIsNone DEF Sound, Mapped
    <3>2. CASE \A i \in new : BlockHash(r, i) # h
      <4>1. q.cached[h] = p.cached[h]
        BY <2>4, <3>2
      <4>2. ASSUME NEW b \in Block PROVE q.hash[b] = h <=> p.hash[b] = h
        <5>1. CASE \E i \in new : t[r][i] = b
          BY <2>4, <2>6, <3>1, <3>2, <5>1
        <5>2. CASE \A i \in new : t[r][i] # b
          BY <2>4, <5>2
        <5>. QED
          BY <5>1, <5>2
      <4>. QED
        BY <3>1, <4>1, <4>2
    <3>3. CASE \E i \in new : BlockHash(r, i) = h
      <4>1. PICK i \in new : BlockHash(r, i) = h
        BY <3>3
      <4>2. q.cached[h] = Append(p.cached[h], t[r][i])
        BY <2>4, <4>1
      <4>3. t[r][i] \notin Elements(p.cached[h]) /\ t[r][i] \in Block
        BY <2>5, <2>6, <3>1
      <4>4. /\ Distinct(q.cached[h])
            /\ Elements(q.cached[h]) = Elements(p.cached[h]) \cup {t[r][i]}
        BY <3>1, <4>2, <4>3, AppendElements
      <4>5. ASSUME NEW b \in Block
            PROVE  q.hash[b] = h <=> (p.hash[b] = h \/ b = t[r][i])
        <5>1. CASE \E k \in new : t[r][k] = b
          <6>1. PICK k \in new : t[r][k] = b
            BY <5>1
          <6>2. q.hash[b] = BlockHash(r, k) /\ p.hash[b] # h
            BY <2>4, <2>6, <3>1, <6>1
          <6>3. BlockHash(r, k) = h => k = i
            BY <2>5, <4>1, HashPlace
          <6>4. t[r][k] = t[r][i] => k = i
            BY <2>5 DEF Sound, Agreeing
          <6>. QED
            BY <4>1, <6>1, <6>2, <6>3, <6>4
        <5>2. CASE \A k \in new : t[r][k] # b
          BY <2>4, <4>1, <5>2
        <5>. QED
          BY <5>1, <5>2
      <4>. QED
        BY <3>1, <4>4, <4>5
    <3>. QED
      BY <3>2, <3>3
  <2>10. Split(q, t, d)
    <3>1. NullBlock \notin Elements(t[r])
      BY DEF Sound, Split
    <3>2. q.hash[NullBlock] = NoHash
      <4>1. \A i \in new : t[r][i] # NullBlock
        BY <2>5, <3>1 DEF Elements
      <4>2. p.hash[NullBlock] = NoHash
        BY DEF Sound, Split
      <4>. QED
        BY <2>4, <4>1, <4>2, NullIsBlock
    <3>3. ASSUME NEW s \in Request
          PROVE  /\ NullBlock \notin Elements(t[s])
                 /\ d[s] <= Len(t[s]) /\ d[s] <= NumHashes(s)
                 /\ \A i \in DOMAIN t[s] :
                      IF i <= d[s]
                      THEN q.hash[t[s][i]] \in {BlockHash(s, i), NoHash}
                      ELSE q.hash[t[s][i]] = NoHash /\ HoldersIn(t, t[s][i]) = {s}
      <4>1. /\ NullBlock \notin Elements(t[s])
            /\ c[s] <= Len(t[s]) /\ c[s] <= NumHashes(s)
            /\ \A i \in DOMAIN t[s] :
                 IF i <= c[s]
                 THEN p.hash[t[s][i]] \in {BlockHash(s, i), NoHash}
                 ELSE p.hash[t[s][i]] = NoHash /\ HoldersIn(t, t[s][i]) = {s}
        BY DEF Sound, Split
      <4>2. d[s] <= Len(t[s]) /\ d[s] <= NumHashes(s)
        BY <2>2, <2>3, <4>1
      <4>3. ASSUME NEW i \in DOMAIN t[s]
            PROVE  IF i <= d[s]
                   THEN q.hash[t[s][i]] \in {BlockHash(s, i), NoHash}
                   ELSE q.hash[t[s][i]] = NoHash /\ HoldersIn(t, t[s][i]) = {s}
        <5>1. t[s][i] \in Block /\ i \in Nat \ {0}
          BY <1>1
        <5>2. CASE \E k \in new : t[r][k] = t[s][i]
          <6>1. PICK k \in new : t[r][k] = t[s][i]
            BY <5>2
          <6>2. s \in HoldersIn(t, t[s][i])
            BY DEF HoldersIn, Elements
          <6>3. s = r
            BY <2>6, <6>1, <6>2
          <6>4. i = k
            BY <2>5, <6>1, <6>3 DEF Sound, Agreeing
          <6>5. i <= to
            BY <6>4, <1>1, <1>2 DEF new
          <6>. QED
            BY <2>2, <2>4, <6>3, <6>4, <6>5
        <5>3. CASE \A k \in new : t[r][k] # t[s][i]
          <6>1. q.hash[t[s][i]] = p.hash[t[s][i]]
            BY <2>4, <5>1, <5>3
          <6>2. i <= d[s] <=> i <= c[s]
            <7>1. CASE s # r
              BY <2>2, <7>1
            <7>2. CASE s = r
              <8>1. i \notin new
                BY <5>3, <7>2
              <8>. QED
                BY <1>1, <1>2, <1>5, <2>2, <5>1, <7>2, <8>1 DEF new
            <7>. QED
              BY <7>1, <7>2
          <6>. QED
            BY <4>1, <6>1, <6>2
        <5>. QED
          BY <5>2, <5>3
      <4>. QED
        BY <4>1, <4>2, <4>3
    <3>. QED
      BY <3>2, <3>3 DEF Split
  <2>11. Agreeing(t)
    BY DEF Sound
  <2>12. Sound(q, t, d)
    BY <2>7, <2>8, <2>9, <2>10, <2>11 DEF Sound
  <2>. QED
    BY <1>3, <2>12 DEF q, d, to
<1>. QED
  BY <1>4, <1>5

----------------------------------------------------------------------------

\* get_computed_blocks returns cached blocks of the request's own prefix.
LEMMA HitsAreHits ==
  ASSUME Sound(pool, reqBlocks, numCached), NEW r \in Request, NEW numTokens \in Nat \ {0}
  PROVE  IsHit(pool, r, GetComputedBlocks(r, numTokens))
<1>. DEFINE len == HitLength(r, numTokens - 1)
            top == Min2((numTokens - 1) \div BlockSize, NumHashes(r))
            ok == {k \in 0 .. top : \A i \in 1 .. k : IsCached(pool, BlockHash(r, i))}
            k0 == CHOOSE k \in ok : \A j \in ok : j <= k
<1>1. top \in Nat /\ top <= NumHashes(r) /\ NumHashes(r) \in Nat
  <2>1. numTokens - 1 \in Nat /\ BlockSize \in Nat \ {0}
    BY SizeAssumption
  <2>2. (numTokens - 1) \div BlockSize \in Nat
    BY <2>1, DivFacts
  <2>. QED
    BY <2>2, HashFacts DEF Min2
<1>2. k0 \in ok
  <2>1. 0 \in ok /\ ok \in SUBSET (0 .. top)
    BY <1>1
  <2>2. \A k \in ok : \A j \in 0 .. k : j \in ok
    BY <1>1
  <2>3. \E k \in ok : \A j \in ok : j <= k
    BY <1>1, <2>1, <2>2, InitialSegmentMax
  <2>. QED
    BY <2>3
<1>3. len = IF ~EnableCaching THEN 0 ELSE IF UseEagle /\ k0 > 0 THEN k0 - 1 ELSE k0
  BY DEF HitLength
<1>. HIDE DEF len, k0, top
<1>4. len \in Nat /\ len <= NumHashes(r) /\ \A i \in 1 .. len : IsCached(pool, BlockHash(r, i))
  <2>1. /\ k0 \in Nat /\ k0 <= NumHashes(r)
        /\ \A i \in 1 .. k0 : IsCached(pool, BlockHash(r, i))
    BY <1>1, <1>2
  <2>2. len \in Nat /\ len <= k0
    BY <1>3, <2>1
  <2>. QED
    BY <1>1, <2>1, <2>2
<1>5. ASSUME NEW i \in 1 .. len
      PROVE  /\ i \in 1 .. NumHashes(r) /\ GetCachedBlock(pool, BlockHash(r, i)) \in Block
             /\ pool.hash[GetCachedBlock(pool, BlockHash(r, i))] = BlockHash(r, i)
  <2>1. i \in 1 .. NumHashes(r) /\ IsCached(pool, BlockHash(r, i))
    BY <1>1, <1>4
  <2>2. BlockHash(r, i) \in Hash
    BY <2>1, HashFacts
  <2>3. pool.cached[BlockHash(r, i)] \in Seq(Block) /\ pool.cached[BlockHash(r, i)] # <<>>
    BY <2>1, <2>2 DEF Sound, Typed, Pool, IsCached
  <2>4. 1 \in DOMAIN pool.cached[BlockHash(r, i)] /\ GetCachedBlock(pool, BlockHash(r, i)) \in Block
    BY <2>3 DEF GetCachedBlock
  <2>5. GetCachedBlock(pool, BlockHash(r, i)) \in Elements(pool.cached[BlockHash(r, i)])
    BY <2>4 DEF GetCachedBlock, Elements
  <2>. QED
    BY <2>1, <2>2, <2>4, <2>5 DEF Sound, Mapped
<1>6. GetComputedBlocks(r, numTokens) = [i \in 1 .. len |-> GetCachedBlock(pool, BlockHash(r, i))]
  BY DEF GetComputedBlocks, len
<1>. QED
  BY <1>4, <1>5, <1>6 DEF IsHit

\* The three steps of allocate_slots, each on a sound state: touch the hits, take
\* n new blocks, cache the full blocks among the first commit tokens.
Grows(r, hits, n, commit) ==
  LET touched == Touch(pool, hits)
      t1 == [reqBlocks EXCEPT ![r] = reqBlocks[r] \o hits]
      c1 == [numCached EXCEPT ![r] = numCached[r] + Len(hits)]
      grown == GetNewBlocks(touched, n)
      t2 == [t1 EXCEPT ![r] = t1[r] \o NewBlocks(touched, n)]
      to == commit \div BlockSize
  IN /\ Sound(touched, t1, c1) /\ n \in 0 .. Len(touched.free)
     /\ Sound(grown, t2, c1) /\ to <= Len(t2[r]) /\ to <= NumHashes(r)
     /\ reqBlocks' = t2
     /\ IF EnableCaching
        THEN /\ pool' = CacheBlocks(grown, r, t2[r], c1[r], commit)
             /\ numCached' = [c1 EXCEPT ![r] = Max2(c1[r], to)]
        ELSE pool' = grown /\ numCached' = c1

\* allocate_slots as a whole: once admitted, it touches, grows and caches without
\* raising, and leaves the pool and the tables sound.
LEMMA AllocateSound ==
  ASSUME Sound(pool, reqBlocks, numCached), NEW r \in Request,
         NEW hits, IsHit(pool, r, hits), hits = <<>> \/ reqBlocks[r] = <<>>,
         NEW needSlot \in Nat, NEW commit \in Nat,
         commit <= needSlot, commit <= Len(Stream[r]),
         AllocateSlots(r, hits, needSlot, commit)
  PROVE  /\ Sound(pool', reqBlocks', numCached') /\ error' = error
         /\ Len(reqBlocks'[r]) * BlockSize >= needSlot
         /\ \E n : Grows(r, hits, n, commit)
<1>. DEFINE touched == Touch(pool, hits)
            known == reqBlocks[r] \o hits
            n == Max2(CDiv(needSlot, BlockSize) - Len(known), 0)
            grown == GetNewBlocks(touched, n)
            table == known \o NewBlocks(touched, n)
            cached == IF hits = <<>> THEN numCached[r] ELSE Len(known)
            final == IF EnableCaching THEN CacheBlocks(grown, r, table, cached, commit)
                                      ELSE grown
            raises ==
              \/ hits # <<>> /\ (numCached[r] # 0 \/ reqBlocks[r] # <<>>)
              \/ \E b \in Evictable(pool, hits) : b \notin Elements(pool.free)
              \/ n > NumFreeBlocks(touched)
              \/ \E b \in Elements(NewBlocks(touched, n)) : touched.refCnt[b] # 0
              \/ EnableCaching /\ CacheRaises(grown, table, cached, commit, commit)
            t1 == [reqBlocks EXCEPT ![r] = known]
            c1 == [numCached EXCEPT ![r] = numCached[r] + Len(hits)]
            t2 == [t1 EXCEPT ![r] = t1[r] \o NewBlocks(touched, n)]
            c2 == [c1 EXCEPT ![r] = Max2(c1[r], commit \div BlockSize)]
<1>1. /\ reqBlocks \in [Request -> Seq(Block)] /\ numCached \in [Request -> Nat]
      /\ pool.free \in Seq(Block) /\ Distinct(pool.free) /\ hits \in Seq(Block)
      /\ Len(hits) \in Nat /\ Len(reqBlocks[r]) \in Nat /\ BlockSize \in Nat \ {0}
  BY SizeAssumption DEF Sound, Typed, Pool, Counted, IsHit
<1>2. /\ CanAllocate(r, hits, needSlot)
      /\ IF raises
         THEN error' = TRUE /\ UNCHANGED <<pool, reqBlocks, numCached>>
         ELSE /\ pool' = final
              /\ reqBlocks' = [reqBlocks EXCEPT ![r] = table]
              /\ numCached' = [numCached EXCEPT ![r] =
                   IF EnableCaching THEN Max2(cached, commit \div BlockSize) ELSE cached]
              /\ UNCHANGED error
  BY DEF AllocateSlots
<1>3. Len(known) = Len(reqBlocks[r]) + Len(hits) /\ known \in Seq(Block)
  BY <1>1
<1>4. n \in Nat /\ CDiv(needSlot, BlockSize) \in Nat /\ needSlot \div BlockSize <= CDiv(needSlot, BlockSize)
      /\ CDiv(needSlot, BlockSize) <= Len(known) + n
  <2>1. /\ CDiv(needSlot, BlockSize) \in Nat
        /\ needSlot \div BlockSize <= CDiv(needSlot, BlockSize)
    BY <1>1, DivFacts
  <2>2. Len(known) \in Nat
    BY <1>1, <1>3
  <2>. QED
    BY <2>1, <2>2 DEF Max2
<1>5. Evictable(pool, hits) = Elements(hits) \cap Elements(pool.free)
  BY HitBlocks
<1>6. touched.free = Without(pool.free, Evictable(pool, hits))
  BY DEF Touch
<1>7. Len(touched.free) = Len(pool.free) - Cardinality(Evictable(pool, hits))
  <2>1. Evictable(pool, hits) \in SUBSET Elements(pool.free)
    BY <1>5
  <2>. QED
    BY <1>1, <1>6, <2>1, WithoutLength
<1>8. Cardinality(Evictable(pool, hits)) \in Nat
  <2>1. IsFiniteSet(Block)
    BY SizeAssumption, FS_Interval DEF Block
  <2>2. IsFiniteSet(Evictable(pool, hits))
    <3>1. Evictable(pool, hits) \in SUBSET Block
      BY <1>5, HitBlocks
    <3>. QED
      BY <2>1, <3>1, FS_Subset
  <2>. QED
    BY <2>2, FS_CardinalityType
<1>9. n \in 0 .. Len(touched.free)
  <2>1. n + Cardinality(Evictable(pool, hits)) <= Len(pool.free)
    BY <1>1, <1>2, <1>3 DEF CanAllocate, NumBlocksToAllocate, NumFreeBlocks
  <2>2. Len(pool.free) \in Nat
    BY <1>1
  <2>. QED
    BY <1>4, <1>7, <1>8, <2>1, <2>2
<1>. HIDE DEF n
<1>10. Sound(touched, t1, c1)
  BY TouchSound
<1>11. t1[r] = known /\ c1[r] = numCached[r] + Len(hits) /\ c1[r] \in Nat
  BY <1>1
<1>12. c1[r] = cached
  <2>1. CASE hits = <<>>
    BY <1>1, <1>11, <2>1
  <2>2. CASE hits # <<>>
    <3>1. reqBlocks[r] = <<>> /\ Len(reqBlocks[r]) = 0
      BY <2>2
    <3>2. numCached[r] <= Len(reqBlocks[r]) /\ numCached[r] \in Nat
      BY <1>1 DEF Sound, Split
    <3>. QED
      BY <1>1, <1>3, <1>11, <2>2, <3>1, <3>2
  <2>. QED
    BY <2>1, <2>2
<1>. HIDE DEF touched, known, cached
<1>13. Sound(grown, t2, c1) /\ Len(t2[r]) = Len(t1[r]) + n
  <2>. HIDE DEF t1, c1
  <2>1. Sound(GetNewBlocks(touched, n), [t1 EXCEPT ![r] = t1[r] \o NewBlocks(touched, n)], c1)
    BY <1>9, <1>10, GrowSound
  <2>2. Len(t1[r] \o NewBlocks(touched, n)) = Len(t1[r]) + n
    BY <1>9, <1>10, GrowSound
  <2>3. t2[r] = t1[r] \o NewBlocks(touched, n)
    BY <1>1 DEF t1
  <2>. QED
    BY <2>1, <2>2, <2>3
<1>14. t2[r] = table /\ t2 = [reqBlocks EXCEPT ![r] = table]
  BY <1>1, <1>11
<1>15. /\ commit \div BlockSize \in Nat
       /\ commit \div BlockSize <= Len(t2[r]) /\ commit \div BlockSize <= NumHashes(r)
  <2>1. commit \div BlockSize \in Nat /\ commit \div BlockSize <= needSlot \div BlockSize
    BY <1>1, DivFacts
  <2>2. commit \div BlockSize <= Len(Stream[r]) \div BlockSize
    <3>1. Len(Stream[r]) \in Nat
      BY StreamAssumption
    <3>. QED
      BY <1>1, <3>1, DivFacts
  <2>3. Len(t2[r]) = Len(known) + n /\ Len(known) \in Nat /\ needSlot \div BlockSize \in Nat
    <3>1. Len(t2[r]) = Len(known) + n
      BY <1>11, <1>13
    <3>2. Len(known) \in Nat
      BY <1>1, <1>3
    <3>. QED
      BY <1>1, <3>1, <3>2, DivFacts
  <2>. QED
    BY <1>4, <2>1, <2>2, <2>3 DEF NumHashes
<1>16. /\ Sound(CacheBlocks(grown, r, t2[r], c1[r], commit), t2, c2)
       /\ ~CacheRaises(grown, t2[r], c1[r], commit, commit)
  <2>. HIDE DEF grown, t2, c1
  <2>. QED
    BY <1>13, <1>15, CacheSound
<1>17. \A b \in Elements(NewBlocks(touched, n)) : touched.refCnt[b] = 0
  <2>1. touched.free \in Seq(Block) /\ Distinct(touched.free)
    BY <1>10 DEF Sound, Typed, Pool, Counted
  <2>2. Elements(NewBlocks(touched, n)) \subseteq Elements(touched.free)
    BY <1>9, <2>1, SplitElements DEF NewBlocks
  <2>3. \A b \in Elements(touched.free) : b \in Block \ {NullBlock}
    <3>1. NullBlock \notin Elements(touched.free)
      BY <1>10 DEF Sound, Counted
    <3>2. \A i \in DOMAIN touched.free : touched.free[i] \in Block
      BY <2>1
    <3>. QED
      BY <3>1, <3>2 DEF Elements
  <2>. QED
    BY <1>10, <2>2, <2>3 DEF Sound, Counted
<1>18. hits # <<>> => numCached[r] = 0 /\ reqBlocks[r] = <<>>
  <2>. SUFFICES ASSUME hits # <<>> PROVE numCached[r] = 0 /\ reqBlocks[r] = <<>>
    OBVIOUS
  <2>1. reqBlocks[r] = <<>> /\ Len(reqBlocks[r]) = 0
    OBVIOUS
  <2>2. numCached[r] <= Len(reqBlocks[r]) /\ numCached[r] \in Nat
    BY <1>1 DEF Sound, Split
  <2>. QED
    BY <2>1, <2>2
<1>19. ~(n > NumFreeBlocks(touched))
  BY <1>1, <1>7, <1>8, <1>9 DEF NumFreeBlocks
<1>20. ~CacheRaises(grown, table, cached, commit, commit)
  BY <1>12, <1>14, <1>16
<1>21. ~raises
  BY <1>5, <1>17, <1>18, <1>19, <1>20
<1>. HIDE DEF raises
<1>22. /\ pool' = final /\ reqBlocks' = t2 /\ error' = error
       /\ numCached' = [numCached EXCEPT ![r] =
            IF EnableCaching THEN Max2(cached, commit \div BlockSize) ELSE cached]
  BY <1>2, <1>14, <1>21
<1>23. ASSUME EnableCaching
      PROVE  Sound(pool', reqBlocks', numCached') /\ error' = error
  <2>1. numCached' = c2
    BY <1>1, <1>11, <1>12, <1>22, <1>23
  <2>2. pool' = CacheBlocks(grown, r, t2[r], c1[r], commit)
    BY <1>12, <1>14, <1>22, <1>23
  <2>. QED
    BY <1>16, <1>22, <2>1, <2>2
<1>24. ASSUME ~EnableCaching
      PROVE  Sound(pool', reqBlocks', numCached') /\ error' = error
  <2>1. numCached' = c1
    BY <1>1, <1>11, <1>12, <1>22, <1>24
  <2>2. pool' = grown
    BY <1>22, <1>24
  <2>. QED
    BY <1>13, <1>22, <2>1, <2>2
<1>25. Len(reqBlocks'[r]) * BlockSize >= needSlot
  <2>. DEFINE m == Len(reqBlocks'[r])
              c == CDiv(needSlot, BlockSize)
  <2>1. m = Len(known) + n /\ Len(known) \in Nat
    BY <1>1, <1>3, <1>11, <1>13, <1>22
  <2>2. c * BlockSize >= needSlot
    BY <1>1, CDivFacts
  <2>3. m \in Nat /\ c \in Nat /\ m >= c
    BY <1>4, <2>1
  <2>. HIDE DEF m, c
  <2>4. m * BlockSize >= c * BlockSize /\ m * BlockSize \in Nat /\ c * BlockSize \in Nat
    BY <1>1, <2>3
  <2>5. m * BlockSize >= needSlot
    BY <2>2, <2>4
  <2>. QED
    BY <2>5 DEF m
<1>26. Grows(r, hits, n, commit)
  <2>1. /\ EnableCaching => /\ pool' = CacheBlocks(grown, r, t2[r], c1[r], commit)
                            /\ numCached' = c2
        /\ ~EnableCaching => pool' = grown /\ numCached' = c1
    BY <1>1, <1>11, <1>12, <1>14, <1>22
  <2>2. reqBlocks' = t2
    BY <1>22
  <2>. HIDE DEF final, raises
  <2>. QED
    BY <1>9, <1>10, <1>13, <1>15, <2>1, <2>2 DEF Grows, touched, known
<1>. QED
  BY <1>23, <1>24, <1>25, <1>26

\* Full blocks among n tokens lie within the n tokens.
LEMMA FullBlocksFit ==
  ASSUME NEW n \in Int, NEW i \in Nat \ {0}, i <= n \div BlockSize
  PROVE  i * BlockSize <= n
<1>1. BlockSize \in Nat \ {0}
  BY SizeAssumption
<1>. DEFINE k == n \div BlockSize
<1>2. k \in Int /\ k * BlockSize <= n
  BY <1>1
<1>. HIDE DEF k
<1>3. i <= k
  BY DEF k
<1>4. i * BlockSize <= k * BlockSize
  BY <1>1, <1>2, <1>3
<1>. QED
  BY <1>1, <1>2, <1>4

\* cache_blocks gives a hash only to full blocks of the table among the first n
\* tokens.
LEMMA CacheBlocksHashes ==
  ASSUME NEW p, NEW r, NEW table \in Seq(Block), NEW cached \in Nat, NEW n \in Int,
         n \div BlockSize <= Len(table)
  PROVE  \A b \in Block :
           \/ CacheBlocks(p, r, table, cached, n).hash[b] = p.hash[b]
           \/ \E i \in DOMAIN table : table[i] = b /\ i * BlockSize <= n
<1>. SUFFICES ASSUME NEW b \in Block
              PROVE  \/ CacheBlocks(p, r, table, cached, n).hash[b] = p.hash[b]
                     \/ \E i \in DOMAIN table : table[i] = b /\ i * BlockSize <= n
  OBVIOUS
<1>. DEFINE to == n \div BlockSize
            q == CacheFullBlocks(p, table, [i \in 1 .. NumHashes(r) |-> BlockHash(r, i)], cached, to)
<1>1. to \in Int
  BY SizeAssumption
<1>2. CacheBlocks(p, r, table, cached, n) = IF to > cached THEN q ELSE p
  BY DEF CacheBlocks
<1>3. CASE \E i \in NewlyCached(table, cached, to) : table[i] = b
  <2>1. PICK i \in cached + 1 .. to : table[i] = b
    BY <1>3 DEF NewlyCached
  <2>2. i \in Nat \ {0} /\ i <= to
    BY <1>1, <2>1
  <2>3. Len(table) \in Nat /\ DOMAIN table = 1 .. Len(table)
    OBVIOUS
  <2>4. i \in DOMAIN table
    BY <1>1, <2>2, <2>3
  <2>. QED
    BY <2>1, <2>2, <2>4, FullBlocksFit
<1>4. CASE ~ \E i \in NewlyCached(table, cached, to) : table[i] = b
  <2>1. q.hash[b] = p.hash[b]
    BY <1>4 DEF CacheFullBlocks
  <2>. HIDE DEF q, to
  <2>. QED
    BY <1>2, <2>1
<1>. QED
  BY <1>3, <1>4

\* What allocate_slots does to the table of the request and to the hashes: the
\* table keeps what it had and the hits, in place; the blocks behind them come
\* from the free queue and have lost the hash they had; and the blocks that gain
\* a hash are full blocks among the first n tokens.
Gains(r, known, n) ==
  /\ known \in Seq(Block) /\ reqBlocks'[r] \in Seq(Block)
  /\ \A i \in DOMAIN known : i \in DOMAIN reqBlocks'[r] /\ reqBlocks'[r][i] = known[i]
  /\ \A b \in Elements(reqBlocks'[r]) \ Elements(known) : b \in Elements(pool.free)
  /\ \A b \in Block : pool'.hash[b] # NoHash =>
       \/ pool.hash[b] # NoHash /\ b \notin Elements(reqBlocks'[r]) \ Elements(known)
       \/ \E i \in DOMAIN reqBlocks'[r] : reqBlocks'[r][i] = b /\ i * BlockSize <= n

\* allocate_slots changes the table and the hashes like that.
LEMMA AllocateFields ==
  ASSUME Sound(pool, reqBlocks, numCached), ~error, NEW r \in Request,
         NEW hits, IsHit(pool, r, hits), hits = <<>> \/ reqBlocks[r] = <<>>,
         NEW needSlot \in Nat, NEW commit \in Nat,
         commit <= needSlot, commit <= Len(Stream[r]),
         AllocateSlots(r, hits, needSlot, commit),
         NEW known, known = reqBlocks[r] \o hits
  PROVE  Gains(r, known, commit)
<1>. DEFINE touched == Touch(pool, hits)
            n == Max2(CDiv(needSlot, BlockSize) - Len(known), 0)
            new == NewBlocks(touched, n)
            grown == GetNewBlocks(touched, n)
            table == known \o new
            cached == IF hits = <<>> THEN numCached[r] ELSE Len(known)
            final == IF EnableCaching THEN CacheBlocks(grown, r, table, cached, commit)
                                      ELSE grown
            raises ==
              \/ hits # <<>> /\ (numCached[r] # 0 \/ reqBlocks[r] # <<>>)
              \/ \E b \in Evictable(pool, hits) : b \notin Elements(pool.free)
              \/ n > NumFreeBlocks(touched)
              \/ \E b \in Elements(NewBlocks(touched, n)) : touched.refCnt[b] # 0
              \/ EnableCaching /\ CacheRaises(grown, table, cached, commit, commit)
<1>1. /\ reqBlocks \in [Request -> Seq(Block)] /\ numCached \in [Request -> Nat]
      /\ pool.free \in Seq(Block) /\ Distinct(pool.free) /\ hits \in Seq(Block)
      /\ pool.hash \in [Block -> Hash \cup {NoHash}]
      /\ BlockSize \in Nat \ {0}
  BY SizeAssumption DEF Sound, Typed, Pool, Counted, IsHit
<1>2. known \in Seq(Block) /\ Len(known) \in Nat /\ DOMAIN known = 1 .. Len(known)
      /\ Elements(known) = Elements(reqBlocks[r]) \cup Elements(hits)
  <2>1. reqBlocks[r] \in Seq(Block)
    BY <1>1
  <2>2. known \in Seq(Block) /\ Elements(known) = Elements(reqBlocks[r]) \cup Elements(hits)
    BY <1>1, <2>1, ConcatElements
  <2>. QED
    BY <2>2
<1>3. /\ IF raises
         THEN error' = TRUE /\ UNCHANGED <<pool, reqBlocks, numCached>>
         ELSE /\ pool' = final
              /\ reqBlocks' = [reqBlocks EXCEPT ![r] = table]
              /\ numCached' = [numCached EXCEPT ![r] =
                   IF EnableCaching THEN Max2(cached, commit \div BlockSize) ELSE cached]
              /\ UNCHANGED error
  BY DEF AllocateSlots
<1>4. error' = error
  BY AllocateSound
<1>5. ~raises
  <2>. HIDE DEF raises
  <2>. QED
    BY <1>3, <1>4
<1>6. pool' = final /\ reqBlocks'[r] = table
  <2>. HIDE DEF raises, table, final
  <2>. QED
    BY <1>1, <1>3, <1>5
<1>7. /\ touched.hash = pool.hash /\ touched.cached = pool.cached
      /\ touched.free = Without(pool.free, Evictable(pool, hits))
  BY DEF Touch
<1>8. touched.free \in Seq(Block) /\ Elements(touched.free) = Elements(pool.free) \ Elements(hits)
  <2>1. Evictable(pool, hits) = Elements(hits) \cap Elements(pool.free)
    BY HitBlocks
  <2>2. /\ touched.free \in Seq(Block)
        /\ Elements(touched.free) = Elements(pool.free) \ Evictable(pool, hits)
    BY <1>1, <1>7, WithoutElements
  <2>. QED
    BY <2>1, <2>2
<1>9. n \in 0 .. Len(touched.free)
  <2>1. CDiv(needSlot, BlockSize) \in Nat
    BY <1>1, DivFacts
  <2>2. n \in Nat
    BY <1>2, <2>1 DEF Max2
  <2>3. ~(n > Len(touched.free)) /\ Len(touched.free) \in Nat
    BY <1>5, <1>8 DEF NumFreeBlocks
  <2>. HIDE DEF n, touched
  <2>. QED
    BY <2>2, <2>3
<1>10. ~(EnableCaching /\ CacheRaises(grown, table, cached, commit, commit))
  BY <1>5
<1>11. cached \in Nat /\ cached <= Len(known)
  <2>1. numCached[r] \in Nat /\ numCached[r] <= Len(reqBlocks[r])
    BY <1>1 DEF Sound, Split
  <2>2. Len(known) = Len(reqBlocks[r]) + Len(hits) /\ Len(hits) \in Nat /\ Len(reqBlocks[r]) \in Nat
    BY <1>1
  <2>. QED
    BY <1>2, <2>1, <2>2
<1>. HIDE DEF n, touched, raises, cached
<1>12. new \in Seq(Block) /\ Elements(new) \subseteq Elements(touched.free)
  BY <1>8, <1>9, SplitElements DEF NewBlocks
<1>13. grown.hash = EvictBlocks(touched, Elements(new)).hash
  BY DEF GetNewBlocks
<1>14. ASSUME NEW b \in Block, grown.hash[b] # NoHash
       PROVE  pool.hash[b] # NoHash /\ b \notin Elements(new)
  <2>1. grown.hash[b] = IF IsEvicted(touched, Elements(new), b) THEN NoHash ELSE touched.hash[b]
    BY <1>13 DEF EvictBlocks
  <2>2. ~IsEvicted(touched, Elements(new), b) /\ pool.hash[b] # NoHash
    BY <1>7, <1>14, <2>1
  <2>3. pool.hash[b] \in Hash
    BY <1>1, <2>2
  <2>4. b \in Elements(pool.cached[pool.hash[b]])
    BY <2>3 DEF Sound, Mapped
  <2>. QED
    BY <1>7, <2>2, <2>4 DEF IsEvicted
<1>. HIDE DEF new, grown
<1>15. Elements(new) \cap Elements(known) = {}
  <2>1. ASSUME NEW b \in Elements(pool.free) PROVE b \notin Elements(reqBlocks[r])
    BY FreeBlocksUnheld
  <2>. QED
    BY <1>2, <1>8, <1>12, <2>1
<1>16. /\ table \in Seq(Block) /\ Len(table) = Len(known) + Len(new) /\ Len(new) \in Nat
       /\ Elements(table) = Elements(known) \cup Elements(new)
  <2>1. Len(new) \in Nat
    BY <1>12
  <2>2. /\ known \o new \in Seq(Block) /\ Len(known \o new) = Len(known) + Len(new)
        /\ Elements(known \o new) = Elements(known) \cup Elements(new)
    <3>1. PICK u \in Seq(Block) : u = new
      BY <1>12
    <3>2. known \in Seq(Block)
      BY <1>2
    <3>3. known \o u \in Seq(Block)
      BY <3>2
    <3>4. Len(known \o u) = Len(known) + Len(u)
      BY <3>2
    <3>5. Elements(known \o u) = Elements(known) \cup Elements(u)
      BY <3>2, ConcatElements, ZenonT(30)
    <3>. QED
      BY <3>1, <3>3, <3>4, <3>5
  <2>. QED
    BY <2>1, <2>2
<1>17. DOMAIN table = 1 .. Len(table) /\ Len(table) \in Nat
  BY <1>16
<1>18. \A i \in DOMAIN known : i \in DOMAIN table /\ table[i] = known[i]
  BY <1>2, <1>12
<1>19. Elements(table) \ Elements(known) = Elements(new)
  BY <1>15, <1>16
<1>20. ASSUME NEW b \in Block, pool'.hash[b] # NoHash
       PROVE  \/ pool.hash[b] # NoHash /\ b \notin Elements(new)
              \/ \E i \in DOMAIN table : table[i] = b /\ i * BlockSize <= commit
  <2>1. CASE pool'.hash[b] = grown.hash[b]
    <3>. HIDE DEF table
    <3>1. grown.hash[b] # NoHash
      BY <1>20, <2>1
    <3>. QED
      BY <1>14, <3>1
  <2>2. CASE pool'.hash[b] # grown.hash[b]
    <3>1. EnableCaching /\ pool' = CacheBlocks(grown, r, table, cached, commit)
      BY <1>6, <2>2
    <3>2. ~CacheRaises(grown, table, cached, commit, commit)
      BY <1>10, <3>1
    <3>3. PICK p, u, k : p = grown /\ u = table /\ k = cached
      OBVIOUS
    <3>. HIDE DEF table
    <3>4. /\ k \in Nat /\ commit \in Int /\ u \in Seq(Block)
          /\ commit \div BlockSize <= Len(u)
      <4>1. commit \div BlockSize \in Nat
        BY <1>1, DivFacts
      <4>2. commit \div BlockSize <= Len(table)
        <5>. SUFFICES ASSUME commit \div BlockSize > Len(table) PROVE FALSE
          BY <1>17, <4>1
        <5>1. PICK q \in Nat : q = commit \div BlockSize
          BY <4>1
        <5>2. Len(known) \in Nat /\ cached \in Nat /\ cached <= Len(known) /\ Len(new) \in Nat
              /\ q > Len(known) + Len(new)
          BY <1>2, <1>11, <1>16, <5>1
        <5>3. q \in cached + 1 .. q
          BY <5>2
        <5>. QED
          BY <3>2, <5>1, <5>3 DEF CacheRaises
      <4>3. table \in Seq(Block) /\ cached \in Nat
        BY <1>11, <1>16
      <4>4. u \in Seq(Block) /\ k \in Nat /\ commit \div BlockSize <= Len(u)
        BY <3>3, <4>2, <4>3, Zenon
      <4>. QED
        BY <4>4
    <3>5. \A d \in Block :
            \/ CacheBlocks(p, r, u, k, commit).hash[d] = p.hash[d]
            \/ \E i \in DOMAIN u : u[i] = d /\ i * BlockSize <= commit
      BY <3>4, CacheBlocksHashes
    <3>. QED
      BY <2>2, <3>1, <3>3, <3>5, Zenon
  <2>. HIDE DEF table
  <2>. QED
    BY <2>1, <2>2
<1>. HIDE DEF table, final
<1>. QED
  BY <1>2, <1>6, <1>8, <1>12, <1>16, <1>18, <1>19, <1>20 DEF Gains

----------------------------------------------------------------------------

\* The inductive invariant: the conjunction of the properties below.  None of
\* them is inductive alone; caching a block without asking whether it has a hash
\* is right only because num_cached_block splits the table as Split says.
Inv == Sound(pool, reqBlocks, numCached) /\ error = FALSE

\* A call of allocate_slots that keeps the contract.
Called(r, hits, needSlot, commit) ==
  /\ IsHit(pool, r, hits) /\ (hits = <<>> \/ reqBlocks[r] = <<>>)
  /\ commit <= needSlot /\ commit <= Len(Stream[r])
  /\ AllocateSlots(r, hits, needSlot, commit)

\* AllocateFor is one.
LEMMA AllocateCall ==
  ASSUME Sound(pool, reqBlocks, numCached), NEW r \in Request, AllocateFor(r)
  PROVE  \E hits \in Seq(Block), needSlot \in Nat, commit \in Nat : Called(r, hits, needSlot, commit)
<1>1. PICK needSlot \in 1 .. MaxModelLen, numTokens \in 1 .. Len(Stream[r]) :
        LET hits == IF reqBlocks[r] = <<>> THEN GetComputedBlocks(r, numTokens) ELSE <<>>
        IN /\ needSlot > Len(hits) * BlockSize
           /\ AllocateSlots(r, hits, needSlot, Min2(needSlot, numTokens))
  BY DEF AllocateFor
<1>. DEFINE hits == IF reqBlocks[r] = <<>> THEN GetComputedBlocks(r, numTokens) ELSE <<>>
            commit == Min2(needSlot, numTokens)
<1>2. /\ needSlot \in Nat /\ numTokens \in Nat \ {0} /\ commit \in Nat
      /\ commit <= needSlot /\ commit <= Len(Stream[r])
  BY StreamAssumption DEF Min2
<1>3. AllocateSlots(r, hits, needSlot, commit)
  BY <1>1
<1>4. hits = <<>> \/ reqBlocks[r] = <<>>
  OBVIOUS
<1>5. IsHit(pool, r, hits)
  <2>1. CASE reqBlocks[r] = <<>>
    BY <1>2, <2>1, HitsAreHits
  <2>2. CASE reqBlocks[r] # <<>>
    BY <2>2 DEF IsHit
  <2>. QED
    BY <2>1, <2>2
<1>. HIDE DEF hits, commit
<1>. QED
  BY <1>2, <1>3, <1>4, <1>5 DEF Called, IsHit

\* Every operation of the manager preserves the invariant.
LEMMA StepSound ==
  ASSUME Inv, [KVNext]_kvVars
  PROVE  Inv'
<1>. SUFFICES Sound(pool', reqBlocks', numCached') /\ error' = error
  BY DEF Inv, Sound, Typed, Counted, Mapped, Agreeing, Split, HoldersIn
<1>1. Sound(pool, reqBlocks, numCached)
  BY DEF Inv
<1>2. ASSUME NEW r \in Request, AllocateFor(r)
      PROVE  Sound(pool', reqBlocks', numCached') /\ error' = error
  <2>1. PICK hits \in Seq(Block), needSlot \in Nat, commit \in Nat : Called(r, hits, needSlot, commit)
    BY <1>1, <1>2, AllocateCall
  <2>. QED
    BY <1>1, <2>1, AllocateSound DEF Called
<1>3. ASSUME NEW r \in Request, CacheLater(r)
      PROVE  Sound(pool', reqBlocks', numCached') /\ error' = error
  <2>1. PICK n \in 1 .. Len(Stream[r]) :
          n <= Len(reqBlocks[r]) * BlockSize /\ CacheComputed(r, n, n)
    BY <1>3 DEF CacheLater
  <2>2. /\ n \in Nat /\ Len(Stream[r]) \in Nat /\ BlockSize \in Nat \ {0}
        /\ reqBlocks \in [Request -> Seq(Block)] /\ Len(reqBlocks[r]) \in Nat
        /\ numCached \in [Request -> Nat] /\ n <= Len(Stream[r])
    BY <1>1, StreamAssumption, SizeAssumption DEF Sound, Typed
  <2>3. n \div BlockSize <= NumHashes(r)
    BY <2>2, DivFacts DEF NumHashes
  <2>4. n \div BlockSize <= Len(reqBlocks[r])
    BY <2>1, <2>2, DivBound
  <2>5. /\ Sound(CacheBlocks(pool, r, reqBlocks[r], numCached[r], n), reqBlocks,
                 [numCached EXCEPT ![r] = Max2(numCached[r], n \div BlockSize)])
        /\ ~CacheRaises(pool, reqBlocks[r], numCached[r], n, n)
    BY <1>1, <2>2, <2>3, <2>4, CacheSound
  <2>6. CASE EnableCaching
    <3>1. /\ pool' = CacheBlocks(pool, r, reqBlocks[r], numCached[r], n)
          /\ numCached' = [numCached EXCEPT ![r] = Max2(numCached[r], n \div BlockSize)]
          /\ reqBlocks' = reqBlocks /\ error' = error
      BY <2>1, <2>2, <2>5, <2>6 DEF CacheComputed
    <3>. QED
      BY <2>5, <3>1
  <2>7. CASE ~EnableCaching
    <3>1. /\ pool' = pool /\ reqBlocks' = reqBlocks /\ error' = error
          /\ numCached' = numCached
      BY <2>1, <2>2, <2>7 DEF CacheComputed
    <3>. QED
      BY <1>1, <3>1
  <2>. QED
    BY <2>6, <2>7
<1>4. ASSUME NEW r \in Request, Free(r)
      PROVE  Sound(pool', reqBlocks', numCached') /\ error' = error
  BY <1>1, <1>4, FreeSound DEF Free
<1>5. ASSUME NEW S \in SUBSET Block, Evict(S)
      PROVE  Sound(pool', reqBlocks', numCached') /\ error' = error
  BY <1>1, <1>5, EvictSound DEF Evict
<1>6. CASE Reset
  BY <1>1, <1>6, ResetSound DEF Reset
<1>7. CASE UNCHANGED kvVars
  BY <1>1, <1>7 DEF kvVars
<1>. QED
  BY <1>2, <1>3, <1>4, <1>5, <1>6, <1>7 DEF KVNext

\* The inductive invariant: whatever its callers do, the KV cache manager keeps
\* pool, tables and counts sound together and raises nothing.
THEOREM InvHolds == KVSpec => []Inv
<1>1. KVInit => Inv
  BY InitSound DEF Inv, KVInit
<1>2. Inv /\ [KVNext]_kvVars => Inv'
  BY StepSound
<1>. QED
  BY <1>1, <1>2, PTL DEF KVSpec

\* Whatever sequence of allocations, hits, frees, evictions and resets a caller
\* makes: the state of the pool and of the tables is well typed.
THEOREM TypeCorrect == KVSpec => []KVTypeOK
<1>1. Inv => pool \in Pool /\ reqBlocks \in [Request -> Seq(Block)] /\ numCached \in [Request -> Nat]
  BY DEF Inv, Sound, Typed
<1>2. Inv => error \in BOOLEAN
  BY DEF Inv
<1>3. Inv => KVTypeOK
  BY <1>1, <1>2 DEF KVTypeOK
<1>. QED
  BY <1>3, InvHolds, PTL

\* Reference counts are the numbers of holders and the free queue holds exactly
\* the blocks nobody holds: no block leaks, none is handed out twice.
THEOREM RefCountsCorrect == KVSpec => []RefCountsMatchTables
<1>1. \A b : Holders(b) = HoldersIn(reqBlocks, b)
  BY DEF Holders, HoldersIn
<1>2. Inv => RefCountsMatchTables
  BY <1>1 DEF Inv, Sound, Counted, RefCountsMatchTables
<1>. QED
  BY <1>2, InvHolds, PTL

\* The map from hashes to blocks and the hashes the blocks record agree.
THEOREM HashMapCorrect == KVSpec => []HashMapMatchesBlocks
<1>1. Inv => HashMapMatchesBlocks
  BY DEF Inv, Sound, Mapped, HashMapMatchesBlocks
<1>. QED
  BY <1>1, InvHolds, PTL

\* Blocks are shared only by requests with the same tokens up to their end.
THEOREM SharingCorrect == KVSpec => []SharedBlocksAgree
<1>1. Inv => SharedBlocksAgree
  BY DEF Inv, Sound, Agreeing, SharedBlocksAgree
<1>. QED
  BY <1>1, InvHolds, PTL

\* num_cached_block splits every table into cached and private blocks.
THEOREM SplitCorrect == KVSpec => []TablesMatchCache
<1>1. \A b : Holders(b) = HoldersIn(reqBlocks, b)
  BY DEF Holders, HoldersIn
<1>2. Inv => TablesMatchCache
  BY <1>1 DEF Inv, Sound, Split, TablesMatchCache
<1>. QED
  BY <1>2, InvHolds, PTL

\* No assertion of the managers fails and no exception is raised once
\* allocate_slots has admitted a request.
THEOREM NeverRaises == KVSpec => []NoError
<1>1. Inv => NoError
  BY DEF Inv, NoError
<1>. QED
  BY <1>1, InvHolds, PTL

----------------------------------------------------------------------------
(* As long as no caller evicts blocks of its own choice, the chain of      *)
(* hashes is evicted from its end.                                         *)

\* The blocks cached for a request keep their hash while it holds them.
Tagged(p, t, c) ==
  \A r \in Request : \A i \in DOMAIN t[r] : i <= c[r] => p.hash[t[r][i]] = BlockHash(r, i)

\* A block that carries hash h outlives b: it is in use, or behind b in the
\* queue.
Outlived(p, b, h) ==
  \E d \in Block : p.hash[d] = h /\ (d \notin Elements(p.free) \/ Before(p.free, b, d))

\* Of a chain, a free block is outlived by one of its predecessor's hash.
Chained(p) ==
  \A b \in Elements(p.free) : \A r \in Request : \A i \in 2 .. NumHashes(r) :
    p.hash[b] = BlockHash(r, i) => Outlived(p, b, BlockHash(r, i - 1))

Linked(p, t, c) == Tagged(p, t, c) /\ Chained(p)

\* Free blocks that stay in the queue are still outlived when blocks leave it
\* that are in use then or behind them, and no block in use or behind them loses
\* its hash.
LEMMA ChainedKept ==
  ASSUME NEW p, NEW q, Chained(p),
         Elements(q.free) \subseteq Elements(p.free),
         \A b \in Elements(q.free) : q.hash[b] = p.hash[b],
         \A b \in Elements(q.free) : \A d \in Block :
           p.hash[d] # NoHash /\ (d \notin Elements(p.free) \/ Before(p.free, b, d)) =>
             /\ q.hash[d] = p.hash[d]
             /\ d \notin Elements(q.free) \/ Before(q.free, b, d)
  PROVE  Chained(q)
<1>. SUFFICES ASSUME NEW b \in Elements(q.free), NEW r \in Request, NEW i \in 2 .. NumHashes(r),
                     q.hash[b] = BlockHash(r, i)
              PROVE  Outlived(q, b, BlockHash(r, i - 1))
  BY DEF Chained
<1>1. BlockHash(r, i - 1) # NoHash
  <2>1. i - 1 \in 1 .. NumHashes(r)
    BY HashFacts
  <2>. QED
    BY <2>1, HashFacts, NoHashIsNone
<1>2. PICK h : h = BlockHash(r, i - 1)
  OBVIOUS
<1>3. Outlived(p, b, h)
  BY <1>2 DEF Chained
<1>4. Outlived(q, b, h)
  BY <1>1, <1>2, <1>3 DEF Outlived
<1>. QED
  BY <1>2, <1>4

\* touch: the hits leave the queue and are held now.
LEMMA TouchLinked ==
  ASSUME NEW p, NEW t, NEW c, Sound(p, t, c), Linked(p, t, c), NEW r \in Request,
         NEW hits, IsHit(p, r, hits), hits = <<>> \/ t[r] = <<>>
  PROVE  Linked(Touch(p, hits), [t EXCEPT ![r] = t[r] \o hits],
                [c EXCEPT ![r] = c[r] + Len(hits)])
<1>. DEFINE q == Touch(p, hits)
            u == [t EXCEPT ![r] = t[r] \o hits]
            d == [c EXCEPT ![r] = c[r] + Len(hits)]
            S == Evictable(p, hits)
<1>1. /\ t \in [Request -> Seq(Block)] /\ c \in [Request -> Nat]
      /\ p.free \in Seq(Block) /\ hits \in Seq(Block)
  BY DEF Sound, Typed, Pool, IsHit
<1>2. q.hash = p.hash /\ q.free = Without(p.free, S)
  BY DEF Touch
<1>3. S = Elements(hits) \cap Elements(p.free)
  BY HitBlocks
<1>. HIDE DEF q, S
<1>4. Elements(q.free) = Elements(p.free) \ S
  BY <1>1, <1>2, WithoutElements
<1>5. ASSUME NEW b \in Elements(q.free), NEW e \in Block,
             e \notin Elements(p.free) \/ Before(p.free, b, e)
      PROVE  e \notin Elements(q.free) \/ Before(q.free, b, e)
  <2>1. CASE e \in S \/ e \notin Elements(p.free)
    BY <1>4, <2>1
  <2>2. CASE e \notin S /\ Before(p.free, b, e)
    BY <1>1, <1>2, <1>4, <2>2, BeforeWithout
  <2>. QED
    BY <1>5, <2>1, <2>2
<1>6. Chained(q)
  <2>1. Chained(p)
    BY DEF Linked
  <2>. QED
    BY <1>2, <1>4, <1>5, <2>1, ChainedKept
<1>7. Tagged(q, u, d)
  <2>. SUFFICES ASSUME NEW s \in Request, NEW i \in DOMAIN u[s], i <= d[s]
                PROVE  p.hash[u[s][i]] = BlockHash(s, i)
    BY <1>2 DEF Tagged
  <2>1. CASE s # r \/ hits = <<>>
    <3>1. u[s] = t[s] /\ d[s] = c[s]
      <4>1. CASE s # r
        BY <1>1, <4>1
      <4>2. CASE s = r /\ hits = <<>>
        <5>1. t[r] \o hits = t[r] /\ c[r] + Len(hits) = c[r]
          BY <1>1, <4>2
        <5>. QED
          BY <1>1, <4>2, <5>1
      <4>. QED
        BY <2>1, <4>1, <4>2
    <3>. QED
      BY <3>1 DEF Linked, Tagged
  <2>2. CASE s = r /\ hits # <<>>
    <3>1. t[r] = <<>>
      BY <2>2
    <3>2. u[s] = hits
      BY <1>1, <2>2, <3>1
    <3>. QED
      BY <3>2, <2>2 DEF IsHit
  <2>. QED
    BY <2>1, <2>2
<1>. QED
  BY <1>6, <1>7 DEF Linked, q

\* get_new_blocks: the blocks at the front of the queue go and lose their hash;
\* those behind them are outlived as before.
LEMMA GrowLinked ==
  ASSUME NEW p, NEW t, NEW c, Sound(p, t, c), Linked(p, t, c), NEW r \in Request,
         NEW n \in 0 .. Len(p.free)
  PROVE  Linked(GetNewBlocks(p, n), [t EXCEPT ![r] = t[r] \o NewBlocks(p, n)], c)
<1>. DEFINE new == NewBlocks(p, n)
            q == GetNewBlocks(p, n)
            u == [t EXCEPT ![r] = t[r] \o new]
            e == EvictBlocks(p, Elements(new))
<1>1. /\ p \in Pool /\ Mapped(p) /\ t \in [Request -> Seq(Block)] /\ c \in [Request -> Nat]
      /\ p.free \in Seq(Block) /\ Distinct(p.free)
  BY DEF Sound, Typed, Pool, Counted
<1>2. /\ new \in Seq(Block)
      /\ Elements(p.free) = Elements(new) \cup Elements(DropFirst(p.free, n))
      /\ Elements(new) \cap Elements(DropFirst(p.free, n)) = {}
  BY <1>1, SplitElements DEF NewBlocks
<1>3. q.free = DropFirst(p.free, n) /\ q.hash = e.hash
  BY DEF GetNewBlocks
<1>4. Elements(new) \in SUBSET Block
  BY <1>2 DEF Elements
<1>5. \A b \in Block : q.hash[b] = IF b \in Elements(new) THEN NoHash ELSE p.hash[b]
  BY <1>1, <1>3, <1>4, EvictFields
<1>. HIDE DEF q, new
<1>6. Chained(q)
  <2>1. Chained(p)
    BY DEF Linked
  <2>2. ASSUME NEW b \in Elements(q.free), NEW d \in Block,
               d \notin Elements(p.free) \/ Before(p.free, b, d)
        PROVE  /\ q.hash[d] = p.hash[d]
               /\ d \notin Elements(q.free) \/ Before(q.free, b, d)
    <3>1. CASE d \notin Elements(p.free)
      BY <1>2, <1>3, <1>5, <3>1
    <3>2. CASE Before(p.free, b, d)
      <4>1. Before(q.free, b, d)
        BY <1>1, <1>3, <3>2, BeforeDrop
      <4>2. d \in Elements(q.free)
        BY <4>1, BeforeElements
      <4>. QED
        BY <1>2, <1>3, <1>5, <4>1, <4>2
    <3>. QED
      BY <2>2, <3>1, <3>2
  <2>3. \A b \in Elements(q.free) : b \in Elements(p.free) /\ q.hash[b] = p.hash[b]
    <3>1. \A b \in Elements(p.free) : b \in Block
      BY <1>1 DEF Elements
    <3>. QED
      BY <1>2, <1>3, <1>5, <3>1
  <2>. QED
    BY <2>1, <2>2, <2>3, ChainedKept
<1>7. Tagged(q, u, c)
  <2>. SUFFICES ASSUME NEW s \in Request, NEW i \in DOMAIN u[s], i <= c[s]
                PROVE  q.hash[u[s][i]] = BlockHash(s, i)
    BY DEF Tagged
  <2>1. i \in DOMAIN t[s] /\ u[s][i] = t[s][i]
    <3>1. CASE s # r
      BY <1>1, <3>1
    <3>2. CASE s = r
      <4>1. t[s] \in Seq(Block) /\ u[s] = t[s] \o new
        BY <1>1, <3>2
      <4>2. c[s] <= Len(t[s]) /\ c[s] \in Nat /\ Len(t[s]) \in Nat
        BY <1>1, <4>1 DEF Sound, Split
      <4>3. i \in 1 .. Len(t[s])
        BY <1>2, <4>1, <4>2
      <4>. QED
        BY <1>2, <4>1, <4>3
    <3>. QED
      BY <3>1, <3>2
  <2>2. t[s][i] \in Block /\ t[s][i] \in Elements(t[s])
    BY <1>1, <2>1 DEF Elements
  <2>3. t[s][i] \notin Elements(new)
    BY <1>2, <2>2, FreeBlocksUnheld
  <2>. QED
    BY <1>5, <2>1, <2>2, <2>3 DEF Linked, Tagged
<1>. QED
  BY <1>6, <1>7 DEF Linked, q, new

\* The hash of a block tells the hash of the one before it.
LEMMA HashBefore ==
  ASSUME NEW r \in Request, NEW s \in Request, NEW i \in 2 .. NumHashes(r), i <= NumHashes(s),
         BlockHash(r, i) = BlockHash(s, i)
  PROVE  BlockHash(r, i - 1) = BlockHash(s, i - 1)
<1>1. /\ Stream[r] \in Seq(Token) /\ Stream[s] \in Seq(Token) /\ BlockSize \in Nat \ {0}
      /\ NumHashes(r) \in Nat /\ NumHashes(s) \in Nat
  BY StreamAssumption, SizeAssumption, HashFacts
<1>2. PICK m \in Nat, l \in Nat : m = i * BlockSize /\ l = (i - 1) * BlockSize /\ l <= m
  <2>1. i * BlockSize \in Nat /\ (i - 1) * BlockSize \in Nat
    BY <1>1
  <2>2. (i - 1) * BlockSize <= i * BlockSize
    BY <1>1
  <2>. QED
    BY <2>1, <2>2
<1>3. m <= Len(Stream[r]) /\ m <= Len(Stream[s])
  <2>1. Len(Stream[r]) \in Nat /\ Len(Stream[s]) \in Nat
    BY <1>1
  <2>2. /\ NumHashes(r) * BlockSize <= Len(Stream[r])
        /\ NumHashes(s) * BlockSize <= Len(Stream[s])
    BY <1>1, <2>1, DivFacts DEF NumHashes
  <2>3. m <= NumHashes(r) * BlockSize /\ m <= NumHashes(s) * BlockSize
    <3>1. ASSUME NEW a \in Nat, i <= a PROVE i * BlockSize <= a * BlockSize
      BY <1>1, <3>1
    <3>2. i <= NumHashes(r)
      BY <1>1
    <3>. QED
      BY <1>1, <1>2, <3>1, <3>2
  <2>4. NumHashes(r) * BlockSize \in Nat /\ NumHashes(s) * BlockSize \in Nat
    BY <1>1
  <2>. QED
    BY <2>1, <2>2, <2>3, <2>4
<1>4. SubSeq(Stream[r], 1, m) = SubSeq(Stream[s], 1, m)
  BY <1>2 DEF BlockHash
<1>5. \A k \in 1 .. m : Stream[r][k] = Stream[s][k]
  BY <1>1, <1>3, <1>4
<1>6. SubSeq(Stream[r], 1, l) = SubSeq(Stream[s], 1, l)
  BY <1>1, <1>2, <1>3, <1>5
<1>. QED
  BY <1>2, <1>6 DEF BlockHash

\* cache_blocks: only blocks in use gain a hash, and only ones without.
LEMMA CacheLinked ==
  ASSUME NEW p, NEW t, NEW c, Sound(p, t, c), Linked(p, t, c), NEW r \in Request,
         NEW n \in Nat, n \div BlockSize <= Len(t[r]), n \div BlockSize <= NumHashes(r)
  PROVE  Linked(CacheBlocks(p, r, t[r], c[r], n), t,
                [c EXCEPT ![r] = Max2(c[r], n \div BlockSize)])
<1>. DEFINE to == n \div BlockSize
            q == CacheBlocks(p, r, t[r], c[r], n)
            d == [c EXCEPT ![r] = Max2(c[r], to)]
<1>1. /\ t \in [Request -> Seq(Block)] /\ c \in [Request -> Nat] /\ c[r] \in Nat
      /\ t[r] \in Seq(Block) /\ p.free \in Seq(Block)
  BY DEF Sound, Typed, Pool
<1>2. to \in Nat
  BY SizeAssumption, DivFacts
<1>3. CASE ~(to > c[r])
  <2>1. q = p
    BY <1>3 DEF CacheBlocks
  <2>2. Max2(c[r], to) = c[r]
    BY <1>1, <1>2, <1>3 DEF Max2
  <2>3. d = c
    BY <1>1, <2>2
  <2>. QED
    BY <2>1, <2>3
<1>4. CASE to > c[r]
  <2>1. q = CacheFullBlocks(p, t[r], [i \in 1 .. NumHashes(r) |-> BlockHash(r, i)], c[r], to)
    BY <1>4 DEF CacheBlocks
  <2>. HIDE DEF q, to
  <2>2. /\ q.free = p.free
        /\ \A i \in c[r] + 1 .. to : q.hash[t[r][i]] = BlockHash(r, i)
        /\ \A b \in Block : (\A i \in c[r] + 1 .. to : t[r][i] # b) => q.hash[b] = p.hash[b]
    <3>1. to <= Len(t[r]) /\ to <= NumHashes(r)
      BY DEF to
    <3>. QED
      BY <1>2, <1>4, <2>1, <3>1, CacheFields
  <2>3. \A i \in c[r] + 1 .. to : p.hash[t[r][i]] = NoHash /\ t[r][i] \in Elements(t[r])
    <3>. SUFFICES ASSUME NEW i \in c[r] + 1 .. to
                  PROVE  p.hash[t[r][i]] = NoHash /\ t[r][i] \in Elements(t[r])
      OBVIOUS
    <3>1. to <= Len(t[r])
      BY DEF to
    <3>2. i \in DOMAIN t[r] /\ ~(i <= c[r])
      BY <1>1, <1>2, <3>1
    <3>. QED
      BY <3>2 DEF Sound, Split, Elements
  <2>4. \A b \in Block : p.hash[b] # NoHash => q.hash[b] = p.hash[b]
    BY <2>2, <2>3
  <2>5. Chained(q)
    <3>1. Chained(p)
      BY DEF Linked
    <3>2. ASSUME NEW b \in Elements(q.free) PROVE q.hash[b] = p.hash[b]
      <4>1. b \in Block /\ b \notin Elements(t[r])
        BY <2>2, FreeBlocksUnheld
      <4>. QED
        BY <2>2, <2>3, <4>1
    <3>. QED
      BY <2>2, <2>4, <3>1, <3>2, ChainedKept
  <2>6. Tagged(q, t, d)
    <3>. SUFFICES ASSUME NEW s \in Request, NEW i \in DOMAIN t[s], i <= d[s]
                  PROVE  q.hash[t[s][i]] = BlockHash(s, i)
      BY DEF Tagged
    <3>1. CASE i <= c[s]
      <4>1. p.hash[t[s][i]] = BlockHash(s, i) /\ t[s][i] \in Block
        BY <1>1, <3>1 DEF Linked, Tagged
      <4>2. c[s] <= NumHashes(s) /\ c[s] \in Nat /\ i \in Nat \ {0}
        BY <1>1 DEF Sound, Split
      <4>3. i \in 1 .. NumHashes(s)
        BY <3>1, <4>2, HashFacts
      <4>4. BlockHash(s, i) # NoHash
        BY <4>3, HashFacts, NoHashIsNone
      <4>. QED
        BY <2>4, <4>1, <4>4
    <3>2. CASE ~(i <= c[s])
      <4>1. s = r
        BY <1>1, <3>2
      <4>2. i \in Nat /\ d[r] = Max2(c[r], to)
        BY <1>1
      <4>3. i \in c[r] + 1 .. to
        BY <1>1, <1>2, <1>4, <3>2, <4>1, <4>2 DEF Max2
      <4>. QED
        BY <2>2, <4>1, <4>3
    <3>. QED
      BY <3>1, <3>2
  <2>. QED
    BY <2>5, <2>6 DEF Linked, q, to
<1>. QED
  BY <1>3, <1>4

\* A block of a table that carries a hash, not the first, stands right behind
\* one that carries the hash before it.
LEMMA TableChain ==
  ASSUME NEW p, NEW t, NEW c, Sound(p, t, c), Tagged(p, t, c),
         NEW r \in Request, NEW j \in DOMAIN t[r],
         NEW s \in Request, NEW i \in 2 .. NumHashes(s), p.hash[t[r][j]] = BlockHash(s, i)
  PROVE  j = i /\ i - 1 \in DOMAIN t[r] /\ p.hash[t[r][i - 1]] = BlockHash(s, i - 1)
<1>1. t[r] \in Seq(Block) /\ c[r] \in Nat /\ NumHashes(r) \in Nat /\ NumHashes(s) \in Nat
  BY HashFacts DEF Sound, Typed
<1>2. i \in 1 .. NumHashes(s) /\ i - 1 \in Nat
  BY <1>1
<1>3. p.hash[t[r][j]] # NoHash
  BY <1>2, HashFacts, NoHashIsNone
<1>4. j <= c[r] /\ c[r] <= NumHashes(r) /\ c[r] <= Len(t[r])
  BY <1>3 DEF Sound, Split
<1>5. p.hash[t[r][j]] = BlockHash(r, j)
  BY <1>4 DEF Tagged
<1>6. j \in 1 .. NumHashes(r)
  BY <1>1, <1>4
<1>7. j = i
  BY <1>2, <1>5, <1>6, HashPlace
<1>8. i - 1 \in DOMAIN t[r] /\ i - 1 <= c[r]
  BY <1>1, <1>2, <1>4, <1>7
<1>9. p.hash[t[r][i - 1]] = BlockHash(r, i - 1)
  BY <1>8 DEF Tagged
<1>10. i \in 2 .. NumHashes(r) /\ i <= NumHashes(s) /\ BlockHash(r, i) = BlockHash(s, i)
  BY <1>1, <1>2, <1>5, <1>6, <1>7
<1>11. BlockHash(r, i - 1) = BlockHash(s, i - 1)
  BY <1>10, HashBefore
<1>. QED
  BY <1>7, <1>8, <1>9, <1>11

\* In a reversed table a block stands before the one it stood right behind.
LEMMA ReversedBefore ==
  ASSUME NEW T, NEW s \in Seq(T), NEW i \in DOMAIN s, i - 1 \in DOMAIN s
  PROVE  Before(Reversed(s), s[i], s[i - 1])
<1>. DEFINE v == Reversed(s)
            L == Len(s)
<1>1. L \in Nat /\ DOMAIN s = 1 .. L /\ DOMAIN v = 1 .. L /\ \A k \in 1 .. L : v[k] = s[L + 1 - k]
  BY DEF Reversed
<1>. HIDE DEF v, L
<1>2. /\ L + 1 - i \in 1 .. L /\ L + 2 - i \in 1 .. L /\ L + 1 - i < L + 2 - i
      /\ L + 1 - (L + 1 - i) = i /\ L + 1 - (L + 2 - i) = i - 1
  <2>1. i \in 1 .. L /\ i - 1 \in 1 .. L /\ L \in Int
    BY <1>1
  <2>2. i \in Int /\ 2 <= i /\ i <= L
    BY <2>1
  <2>. QED
    BY <2>1, <2>2, SMTT(30)
<1>3. v[L + 1 - i] = s[i] /\ v[L + 2 - i] = s[i - 1]
  BY <1>1, <1>2
<1>4. Before(v, s[i], s[i - 1])
  BY <1>1, <1>2, <1>3 DEF Before
<1>. QED
  BY <1>4 DEF v

\* free: the blocks nobody else holds join the queue from the end of the table,
\* so that each is outlived by the one before it.
LEMMA FreeLinked ==
  ASSUME NEW p, NEW t, NEW c, Sound(p, t, c), Linked(p, t, c), NEW r \in Request
  PROVE  Linked(FreeBlocks(p, Reversed(t[r])),
                [t EXCEPT ![r] = <<>>], [c EXCEPT ![r] = 0])
<1>. DEFINE bs == Reversed(t[r])
            q == FreeBlocks(p, bs)
            u == [t EXCEPT ![r] = <<>>]
            d == [c EXCEPT ![r] = 0]
<1>1. /\ t \in [Request -> Seq(Block)] /\ c \in [Request -> Nat]
      /\ p.free \in Seq(Block) /\ t[r] \in Seq(Block)
  BY DEF Sound, Typed, Pool
<1>2. bs \in Seq(Block) /\ Elements(bs) = Elements(t[r])
  BY <1>1, ReversedElements
<1>3. PICK kept : q.free = p.free \o Without(bs, kept) /\ q.hash = p.hash
  BY DEF FreeBlocks
<1>. DEFINE back == Without(bs, kept)
<1>4. back \in Seq(Block) /\ Elements(back) = Elements(t[r]) \ kept
  BY <1>2, WithoutElements
<1>. HIDE DEF q, bs, back
<1>5. /\ \A a, b : Before(q.free, a, b) <=> \/ Before(p.free, a, b) \/ Before(back, a, b)
                                            \/ a \in Elements(p.free) /\ b \in Elements(back)
      /\ Elements(q.free) = Elements(p.free) \cup Elements(back)
  <2>1. PICK s : s = p.free
    OBVIOUS
  <2>2. s \in Seq(Block) /\ q.free = s \o back
    BY <1>1, <1>3, <2>1 DEF back
  <2>. QED
    BY <1>4, <2>1, <2>2, ConcatBefore, ConcatElements
<1>6. Chained(q)
  <2>. SUFFICES ASSUME NEW b \in Elements(q.free), NEW s \in Request, NEW i \in 2 .. NumHashes(s),
                       p.hash[b] = BlockHash(s, i)
                PROVE  Outlived(q, b, BlockHash(s, i - 1))
    BY <1>3 DEF Chained
  <2>1. PICK h : h = BlockHash(s, i - 1)
    OBVIOUS
  <2>2. CASE b \in Elements(p.free)
    <3>1. Outlived(p, b, h)
      BY <2>1, <2>2 DEF Linked, Chained
    <3>2. PICK e \in Block : p.hash[e] = h /\ (e \notin Elements(p.free) \/ Before(p.free, b, e))
      BY <3>1 DEF Outlived
    <3>3. e \notin Elements(q.free) \/ Before(q.free, b, e)
      BY <1>5, <2>2, <3>2
    <3>. QED
      BY <1>3, <2>1, <3>2, <3>3 DEF Outlived
  <2>3. CASE b \in Elements(back)
    <3>1. b \in Elements(t[r]) /\ b \notin kept
      BY <1>4, <2>3
    <3>2. PICK j \in DOMAIN t[r] : t[r][j] = b
      BY <3>1 DEF Elements
    <3>3. j = i /\ i - 1 \in DOMAIN t[r] /\ p.hash[t[r][i - 1]] = h
      BY <2>1, <3>2, TableChain DEF Linked
    <3>4. PICK e : e = t[r][i - 1]
      OBVIOUS
    <3>5. e \in Block /\ e \in Elements(t[r]) /\ p.hash[e] = h
      BY <1>1, <3>3, <3>4 DEF Elements
    <3>6. e \notin Elements(p.free)
      BY <3>5, FreeBlocksUnheld
    <3>7. CASE e \in kept
      BY <1>3, <1>4, <1>5, <2>1, <3>5, <3>6, <3>7 DEF Outlived
    <3>8. CASE e \notin kept
      <4>1. Before(bs, b, e)
        BY <1>1, <3>2, <3>3, <3>4, ReversedBefore DEF bs
      <4>2. Before(back, b, e)
        BY <1>2, <3>1, <3>8, <4>1, BeforeWithout DEF back
      <4>. QED
        BY <1>3, <1>5, <2>1, <3>5, <4>2 DEF Outlived
    <3>. QED
      BY <3>7, <3>8
  <2>. QED
    BY <1>5, <2>2, <2>3
<1>7. Tagged(q, u, d)
  <2>. SUFFICES ASSUME NEW s \in Request, NEW i \in DOMAIN u[s], i <= d[s]
                PROVE  p.hash[u[s][i]] = BlockHash(s, i)
    BY <1>3 DEF Tagged
  <2>1. s # r /\ u[s] = t[s] /\ d[s] = c[s]
    BY <1>1
  <2>. QED
    BY <2>1 DEF Linked, Tagged
<1>. QED
  BY <1>6, <1>7 DEF Linked, q, bs

\* reset_prefix_cache forgets every hash, and only when no request holds a block.
LEMMA ResetLinked ==
  ASSUME NEW p, NEW t, NEW c, Sound(p, t, c), Linked(p, t, c)
  PROVE  Linked(ResetPrefixCache(p), t, c)
<1>. DEFINE q == ResetPrefixCache(p)
<1>1. CASE ~IsUnused(p)
  BY <1>1 DEF ResetPrefixCache
<1>2. CASE IsUnused(p)
  <2>1. q.free = p.free /\ q.hash = [b \in Block |-> NoHash]
    BY <1>2 DEF ResetPrefixCache
  <2>2. /\ p.free \in Seq(Block) /\ Distinct(p.free) /\ NullBlock \notin Elements(p.free)
        /\ t \in [Request -> Seq(Block)] /\ c \in [Request -> Nat]
        /\ NumBlocks \in Nat \ {0}
    BY SizeAssumption DEF Sound, Typed, Pool, Counted
  <2>3. Chained(q)
    <3>. SUFFICES ASSUME NEW b \in Elements(q.free), NEW r \in Request, NEW i \in 2 .. NumHashes(r),
                         q.hash[b] = BlockHash(r, i)
                  PROVE  FALSE
      BY DEF Chained
    <3>1. b \in Block
      BY <2>1, <2>2 DEF Elements
    <3>2. i \in 1 .. NumHashes(r)
      BY HashFacts
    <3>. QED
      BY <2>1, <3>1, <3>2, HashFacts, NoHashIsNone
  <2>4. Elements(p.free) = Block \ {NullBlock}
    <3>1. Len(p.free) = NumBlocks - 1
      <4>1. Len(p.free) \in Nat
        BY <2>2
      <4>. QED
        BY <1>2, <2>2, <4>1 DEF IsUnused, NumFreeBlocks
    <3>2. Block \ {NullBlock} = 1 .. NumBlocks - 1
      BY <2>2 DEF Block, NullBlock
    <3>3. IsFiniteSet(Block \ {NullBlock}) /\ Cardinality(Block \ {NullBlock}) = NumBlocks - 1
      <4>1. NumBlocks - 1 \in Nat
        BY <2>2
      <4>. QED
        BY <3>2, <4>1, IntervalSize
    <3>4. Elements(p.free) \in SUBSET (Block \ {NullBlock})
      BY <2>2 DEF Elements
    <3>5. Cardinality(Elements(p.free)) = Len(p.free)
      <4>. DEFINE w == Without(p.free, Elements(p.free))
      <4>1. Len(w) = Len(p.free) - Cardinality(Elements(p.free))
        BY <2>2, WithoutLength
      <4>2. w \in Seq(Block) /\ Elements(w) = {}
        BY <2>2, WithoutElements
      <4>3. Len(w) = 0
        <5>. HIDE DEF w
        <5>1. Len(w) \in Nat /\ DOMAIN w = 1 .. Len(w)
          BY <4>2
        <5>2. DOMAIN w = {}
          BY <4>2 DEF Elements
        <5>. QED
          BY <5>1, <5>2
      <4>4. Cardinality(Elements(p.free)) \in Nat
        BY <3>3, <3>4, FS_Subset, FS_CardinalityType
      <4>5. Len(p.free) \in Nat
        BY <2>2
      <4>. HIDE DEF w
      <4>. QED
        BY <4>1, <4>3, <4>4, <4>5
    <3>. QED
      BY <3>1, <3>3, <3>4, <3>5, FS_Subset
  <2>5. ASSUME NEW r \in Request, NEW i \in DOMAIN t[r] PROVE FALSE
    <3>1. t[r][i] \in Elements(t[r]) /\ t[r][i] \in Block
      BY <2>2 DEF Elements
    <3>2. t[r][i] # NullBlock
      BY <3>1 DEF Sound, Split
    <3>3. t[r][i] \in Elements(p.free)
      BY <2>4, <3>1, <3>2
    <3>. QED
      BY <3>1, <3>3, FreeBlocksUnheld
  <2>. QED
    BY <2>3, <2>5 DEF Linked, Tagged
<1>. QED
  BY <1>1, <1>2

\* A caller that keeps the contract and evicts nothing by itself.
KVStep == (\E r \in Request : AllocateFor(r) \/ CacheLater(r) \/ Free(r)) \/ Reset

\* Its steps are steps of a caller that keeps the contract.
LEMMA StepIsNext == [KVStep]_kvVars => [KVNext]_kvVars
BY DEF KVStep, KVNext

\* So they keep the invariant of the manager.
LEMMA CallerSound ==
  ASSUME Inv, [KVStep]_kvVars
  PROVE  Inv'
BY StepIsNext, StepSound

\* The inductive invariant of the order of eviction.
ChainInv == Inv /\ Linked(pool, reqBlocks, numCached)

\* Initially nothing is cached.
LEMMA InitLinked == KVInit => ChainInv
<1>. SUFFICES ASSUME KVInit PROVE ChainInv
  OBVIOUS
<1>1. Inv
  BY InitSound DEF Inv, KVInit
<1>2. /\ pool.hash = [b \in Block |-> NoHash] /\ pool.free \in Seq(Block)
      /\ \A r \in Request : reqBlocks[r] = <<>>
  BY <1>1 DEF KVInit, NewPool, Inv, Sound, Typed, Pool
<1>3. Chained(pool)
  <2>. SUFFICES ASSUME NEW b \in Elements(pool.free), NEW r \in Request,
                       NEW i \in 2 .. NumHashes(r), pool.hash[b] = BlockHash(r, i)
                PROVE  FALSE
    BY DEF Chained
  <2>1. b \in Block
    BY <1>2 DEF Elements
  <2>2. i \in 1 .. NumHashes(r)
    BY HashFacts
  <2>. QED
    BY <1>2, <2>1, <2>2, HashFacts, NoHashIsNone
<1>4. Tagged(pool, reqBlocks, numCached)
  BY <1>2 DEF Tagged
<1>. QED
  BY <1>1, <1>3, <1>4 DEF ChainInv, Linked

\* Every step of such a caller keeps the chains linked.
LEMMA StepLinked ==
  ASSUME ChainInv, [KVStep]_kvVars
  PROVE  ChainInv'
<1>1. Sound(pool, reqBlocks, numCached) /\ Linked(pool, reqBlocks, numCached) /\ Inv
  BY DEF ChainInv, Inv
<1>2. Inv'
  BY <1>1, CallerSound
<1>. SUFFICES Linked(pool', reqBlocks', numCached')
  BY <1>2 DEF ChainInv, Linked, Tagged, Chained, Outlived
<1>3. ASSUME NEW r \in Request, AllocateFor(r) PROVE Linked(pool', reqBlocks', numCached')
  <2>1. PICK hits \in Seq(Block), needSlot \in Nat, commit \in Nat : Called(r, hits, needSlot, commit)
    BY <1>1, <1>3, AllocateCall
  <2>2. PICK n : Grows(r, hits, n, commit)
    BY <1>1, <2>1, AllocateSound DEF Called
  <2>. DEFINE touched == Touch(pool, hits)
              t1 == [reqBlocks EXCEPT ![r] = reqBlocks[r] \o hits]
              c1 == [numCached EXCEPT ![r] = numCached[r] + Len(hits)]
              grown == GetNewBlocks(touched, n)
              t2 == [t1 EXCEPT ![r] = t1[r] \o NewBlocks(touched, n)]
              to == commit \div BlockSize
  <2>3. /\ Sound(touched, t1, c1) /\ n \in 0 .. Len(touched.free)
        /\ Sound(grown, t2, c1) /\ to <= Len(t2[r]) /\ to <= NumHashes(r)
        /\ reqBlocks' = t2
        /\ IF EnableCaching
           THEN /\ pool' = CacheBlocks(grown, r, t2[r], c1[r], commit)
                /\ numCached' = [c1 EXCEPT ![r] = Max2(c1[r], to)]
           ELSE pool' = grown /\ numCached' = c1
    BY <2>2 DEF Grows
  <2>4. Linked(touched, t1, c1)
    BY <1>1, <2>1, TouchLinked DEF Called
  <2>. HIDE DEF touched, t1, c1
  <2>5. Linked(grown, t2, c1)
    BY <2>3, <2>4, GrowLinked
  <2>. HIDE DEF grown, t2
  <2>6. Linked(CacheBlocks(grown, r, t2[r], c1[r], commit), t2, [c1 EXCEPT ![r] = Max2(c1[r], to)])
    BY <2>3, <2>5, CacheLinked
  <2>. HIDE DEF to
  <2>. QED
    BY <2>3, <2>5, <2>6
<1>4. ASSUME NEW r \in Request, CacheLater(r) PROVE Linked(pool', reqBlocks', numCached')
  <2>1. PICK n \in 1 .. Len(Stream[r]) :
          n <= Len(reqBlocks[r]) * BlockSize /\ CacheComputed(r, n, n)
    BY <1>4 DEF CacheLater
  <2>2. /\ n \in Nat /\ Len(Stream[r]) \in Nat /\ BlockSize \in Nat \ {0}
        /\ reqBlocks \in [Request -> Seq(Block)] /\ Len(reqBlocks[r]) \in Nat
        /\ numCached \in [Request -> Nat] /\ n <= Len(Stream[r])
    BY <1>1, StreamAssumption, SizeAssumption DEF Sound, Typed
  <2>3. n \div BlockSize <= NumHashes(r)
    BY <2>2, DivFacts DEF NumHashes
  <2>4. n \div BlockSize <= Len(reqBlocks[r])
    BY <2>1, <2>2, DivBound
  <2>5. Linked(CacheBlocks(pool, r, reqBlocks[r], numCached[r], n), reqBlocks,
               [numCached EXCEPT ![r] = Max2(numCached[r], n \div BlockSize)])
    BY <1>1, <2>2, <2>3, <2>4, CacheLinked
  <2>6. ~CacheRaises(pool, reqBlocks[r], numCached[r], n, n)
    BY <1>1, <2>2, <2>3, <2>4, CacheSound
  <2>7. CASE EnableCaching
    <3>1. /\ pool' = CacheBlocks(pool, r, reqBlocks[r], numCached[r], n)
          /\ numCached' = [numCached EXCEPT ![r] = Max2(numCached[r], n \div BlockSize)]
          /\ reqBlocks' = reqBlocks
      BY <2>1, <2>2, <2>6, <2>7 DEF CacheComputed
    <3>. QED
      BY <2>5, <3>1
  <2>8. CASE ~EnableCaching
    <3>1. pool' = pool /\ reqBlocks' = reqBlocks /\ numCached' = numCached
      BY <2>1, <2>2, <2>8 DEF CacheComputed
    <3>. QED
      BY <1>1, <3>1
  <2>. QED
    BY <2>7, <2>8
<1>5. ASSUME NEW r \in Request, Free(r) PROVE Linked(pool', reqBlocks', numCached')
  BY <1>1, <1>5, FreeLinked DEF Free
<1>6. CASE Reset
  BY <1>1, <1>6, ResetLinked DEF Reset
<1>7. CASE UNCHANGED kvVars
  BY <1>1, <1>7 DEF kvVars
<1>. QED
  BY <1>3, <1>4, <1>5, <1>6, <1>7 DEF KVStep

\* Where the chains are linked, a block is cached only together with the one
\* before it: a held one stands behind it in a table, a free one is outlived.
LEMMA LinkedPrefixes ==
  ASSUME ChainInv, NEW r \in Request, NEW i \in 2 .. NumHashes(r),
         IsCached(pool, BlockHash(r, i))
  PROVE  IsCached(pool, BlockHash(r, i - 1))
<1>1. Sound(pool, reqBlocks, numCached) /\ Linked(pool, reqBlocks, numCached)
  BY DEF ChainInv, Inv
<1>2. /\ i \in 1 .. NumHashes(r) /\ i - 1 \in 1 .. NumHashes(r)
      /\ BlockHash(r, i) \in Hash /\ BlockHash(r, i - 1) \in Hash
  <2>1. i \in 1 .. NumHashes(r) /\ i - 1 \in 1 .. NumHashes(r)
    BY HashFacts
  <2>. QED
    BY <2>1, HashFacts
<1>3. /\ \A h \in Hash : pool.cached[h] \in Seq(Block)
      /\ \A h \in Hash : \A b \in Block : b \in Elements(pool.cached[h]) <=> pool.hash[b] = h
      /\ pool.free \in Seq(Block) /\ reqBlocks \in [Request -> Seq(Block)]
  BY <1>1 DEF Sound, Typed, Pool, Mapped
<1>4. PICK b \in Block : pool.hash[b] = BlockHash(r, i)
  <2>1. PICK q \in Seq(Block) : q = pool.cached[BlockHash(r, i)] /\ q # <<>>
    BY <1>2, <1>3 DEF IsCached
  <2>2. 1 \in DOMAIN q /\ q[1] \in Block
    BY <2>1
  <2>3. q[1] \in Elements(q)
    BY <2>2 DEF Elements
  <2>. QED
    BY <1>2, <1>3, <2>1, <2>2, <2>3
<1>5. \E d \in Block : pool.hash[d] = BlockHash(r, i - 1)
  <2>1. CASE b \in Elements(pool.free)
    BY <1>1, <1>4, <2>1 DEF Linked, Chained, Outlived
  <2>2. CASE b \notin Elements(pool.free)
    <3>1. b # NullBlock
      <4>1. BlockHash(r, i) # NoHash
        BY <1>2, NoHashIsNone
      <4>. QED
        BY <1>1, <1>4, <4>1 DEF Sound, Split
    <3>2. HoldersIn(reqBlocks, b) # {}
      <4>1. pool.refCnt[b] # 0 /\ pool.refCnt[b] = Cardinality(HoldersIn(reqBlocks, b))
        BY <1>1, <2>2, <3>1 DEF Sound, Counted
      <4>. QED
        BY <4>1, FS_EmptySet
    <3>3. PICK s \in Request : b \in Elements(reqBlocks[s])
      BY <3>2 DEF HoldersIn
    <3>4. PICK j \in DOMAIN reqBlocks[s] : reqBlocks[s][j] = b
      BY <3>3 DEF Elements
    <3>5. i - 1 \in DOMAIN reqBlocks[s] /\ pool.hash[reqBlocks[s][i - 1]] = BlockHash(r, i - 1)
      BY <1>1, <1>4, <3>4, TableChain DEF Linked
    <3>6. reqBlocks[s][i - 1] \in Block
      BY <1>3, <3>5
    <3>. QED
      BY <3>5, <3>6
  <2>. QED
    BY <2>1, <2>2
<1>6. PICK d \in Block : pool.hash[d] = BlockHash(r, i - 1)
  BY <1>5
<1>7. d \in Elements(pool.cached[BlockHash(r, i - 1)])
  BY <1>2, <1>3, <1>6
<1>. QED
  BY <1>7 DEF IsCached, Elements
=============================================================================
