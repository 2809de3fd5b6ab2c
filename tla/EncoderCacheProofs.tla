------------------------ MODULE EncoderCacheProofs --------------------------
(***************************************************************************)
(* The encoder cache is sound for every set of requests, inputs and sizes. *)
(*                                                                         *)
(* The manager is one record, so its soundness is a predicate of a record  *)
(* m that each operation preserves.  The loops over the inputs are         *)
(* recursive functions; each is shown to exist and then followed index by  *)
(* index.                                                                  *)
(***************************************************************************)
EXTENDS EncoderCache, QueuesProofs

-----------------------------------------------------------------------------
(* Slots                                                                   *)

SlotSet(H) == {s \in H \X (1 .. CacheSize) : s[2] <= Embeds(s[1])}

\* An entry has at least one embedding and fits into the cache and the budget.
LEMMA EmbedsFits ==
  /\ \A h \in Hash : /\ Embeds(h) \in Nat \ {0}
                     /\ Embeds(h) <= CacheSize /\ Embeds(h) <= ComputeBudget
  /\ \A f \in Inputs : f.hash \in Hash /\ Embeds(f.hash) = f.len
<1>1. ASSUME NEW h \in Hash
      PROVE  LET f == CHOOSE f \in Inputs : f.hash = h IN f \in Inputs /\ f.hash = h
  BY DEF Hash
<1>2. ASSUME NEW h \in Hash
      PROVE  /\ Embeds(h) \in Nat \ {0}
             /\ Embeds(h) <= CacheSize /\ Embeds(h) <= ComputeBudget
  BY <1>1, InputAssumption DEF Embeds
<1>3. ASSUME NEW f \in Inputs PROVE f.hash \in Hash /\ Embeds(f.hash) = f.len
  <2>1. f.hash \in Hash
    BY DEF Hash
  <2>. QED
    BY <1>1, <2>1, InputAssumption DEF Embeds
<1>. QED
  BY <1>2, <1>3

\* The slots of any set of entries can be counted.
LEMMA SlotsFinite ==
  ASSUME NEW H \in SUBSET Hash
  PROVE  /\ IsFiniteSet(SlotSet(H)) /\ Slots(H) = Cardinality(SlotSet(H))
         /\ Slots(H) \in Nat
<1>1. IsFiniteSet(H)
  BY InputAssumption, FS_Subset
<1>2. IsFiniteSet(1 .. CacheSize)
  BY EncoderAssumption, FS_Interval
<1>3. IsFiniteSet(H \X (1 .. CacheSize))
  BY <1>1, <1>2, FS_Product
<1>4. SlotSet(H) \in SUBSET (H \X (1 .. CacheSize))
  BY DEF SlotSet
<1>5. IsFiniteSet(SlotSet(H))
  BY <1>3, <1>4, FS_Subset
<1>6. Slots(H) = Cardinality(SlotSet(H))
  BY DEF Slots, SlotSet
<1>. QED
  BY <1>5, <1>6, FS_CardinalityType

\* Disjoint sets of entries take disjoint slots.
LEMMA SlotsUnion ==
  ASSUME NEW H \in SUBSET Hash, NEW K \in SUBSET Hash, H \cap K = {}
  PROVE  Slots(H \cup K) = Slots(H) + Slots(K)
<1>1. SlotSet(H \cup K) = SlotSet(H) \cup SlotSet(K) /\ SlotSet(H) \cap SlotSet(K) = {}
  BY DEF SlotSet
<1>2. H \cup K \in SUBSET Hash
  OBVIOUS
<1>3. Cardinality(SlotSet(H) \cup SlotSet(K))
        = Cardinality(SlotSet(H)) + Cardinality(SlotSet(K)) - Cardinality(SlotSet(H) \cap SlotSet(K))
  BY SlotsFinite, FS_Union
<1>4. Cardinality({}) = 0
  BY FS_EmptySet
<1>5. /\ Slots(H) = Cardinality(SlotSet(H)) /\ Slots(H) \in Nat
      /\ Slots(K) = Cardinality(SlotSet(K)) /\ Slots(K) \in Nat
      /\ Slots(H \cup K) = Cardinality(SlotSet(H \cup K))
  BY <1>2, SlotsFinite
<1>6. Cardinality(SlotSet(H) \cap SlotSet(K)) = 0
  BY <1>1, <1>4, Zenon
<1>7. Cardinality(SlotSet(H \cup K)) = Cardinality(SlotSet(H) \cup SlotSet(K))
  BY <1>1, Zenon
<1>. QED
  BY <1>3, <1>5, <1>6, <1>7

\* One entry takes as many slots as it has embeddings, none takes none.
LEMMA SlotsOne ==
  /\ Slots({}) = 0
  /\ \A h \in Hash : Slots({h}) = Embeds(h)
<1>1. Slots({}) = 0
  <2>1. SlotSet({}) = {}
    BY DEF SlotSet
  <2>. QED
    BY <2>1, FS_EmptySet, SlotsFinite
<1>2. ASSUME NEW h \in Hash PROVE Slots({h}) = Embeds(h)
  <2>. DEFINE n == Embeds(h)
              f == [k \in 1 .. n |-> <<h, k>>]
  <2>1. n \in Nat /\ n <= CacheSize /\ CacheSize \in Nat
    BY EmbedsFits, EncoderAssumption
  <2>2. IsFiniteSet(1 .. n) /\ Cardinality(1 .. n) = n
    BY <2>1, IntervalSize
  <2>3. SlotSet({h}) = {<<h, k>> : k \in 1 .. n}
    <3>1. ASSUME NEW s \in SlotSet({h}) PROVE s \in {<<h, k>> : k \in 1 .. n}
      <4>1. s \in {h} \X (1 .. CacheSize) /\ s[2] <= Embeds(s[1])
        BY <3>1 DEF SlotSet
      <4>2. PICK k \in 1 .. CacheSize : s = <<h, k>>
        BY <4>1
      <4>3. s[1] = h /\ s[2] = k
        BY <4>2
      <4>4. k \in 1 .. n
        BY <2>1, <4>1, <4>2, <4>3
      <4>. QED
        BY <4>2, <4>4
    <3>2. ASSUME NEW k \in 1 .. n PROVE <<h, k>> \in SlotSet({h})
      <4>1. k \in 1 .. CacheSize /\ k <= Embeds(h)
        BY <2>1
      <4>. QED
        BY <4>1 DEF SlotSet
    <3>. QED
      BY <3>1, <3>2
  <2>. HIDE DEF n
  <2>4. f \in Bijection(1 .. n, SlotSet({h}))
    <3>1. f \in [1 .. n -> SlotSet({h})]
      BY <2>3
    <3>2. \A i, k \in 1 .. n : f[i] = f[k] => i = k
      OBVIOUS
    <3>3. \A s \in SlotSet({h}) : \E k \in 1 .. n : f[k] = s
      BY <2>3
    <3>. HIDE DEF f
    <3>. QED
      BY <3>1, <3>2, <3>3 DEF Bijection, Injection, Surjection, IsInjective
  <2>5. Cardinality(SlotSet({h})) = Cardinality(1 .. n)
    BY <2>2, <2>4, FS_Bijection DEF ExistsBijection
  <2>6. {h} \in SUBSET Hash
    OBVIOUS
  <2>. QED
    BY <2>2, <2>5, <2>6, SlotsFinite DEF n
<1>. QED
  BY <1>1, <1>2

\* Entries that go give back their slots.
LEMMA SlotsMinus ==
  ASSUME NEW H \in SUBSET Hash, NEW K \in SUBSET H
  PROVE  /\ Slots(H \ K) = Slots(H) - Slots(K)
         /\ Slots(K) <= Slots(H) /\ Slots(H \ K) \in Nat /\ Slots(H) \in Nat /\ Slots(K) \in Nat
<1>1. H \ K \in SUBSET Hash /\ K \in SUBSET Hash /\ (H \ K) \cap K = {} /\ (H \ K) \cup K = H
  OBVIOUS
<1>2. Slots((H \ K) \cup K) = Slots(H \ K) + Slots(K)
  BY <1>1, SlotsUnion
<1>3. Slots(H) \in Nat /\ Slots(K) \in Nat /\ Slots(H \ K) \in Nat
  BY <1>1, SlotsFinite
<1>. QED
  BY <1>1, <1>2, <1>3

-----------------------------------------------------------------------------
(* The manager                                                             *)

CachedMap == UNION {[D -> SUBSET Request] : D \in SUBSET Hash}

Manager == [cached : CachedMap, freeable : Seq(Hash), freed : SUBSET Hash,
            free : Int, freeableSlots : Int]

Refd(m) == {h \in DOMAIN m.cached : m.cached[h] # {}}

Hashes(r) == {f.hash : f \in Elements(Features[r])}

Sound(m) ==
  /\ m \in Manager
  /\ m.free = CacheSize - Slots(DOMAIN m.cached) /\ m.free >= 0
  /\ m.freeableSlots = CacheSize - Slots(Refd(m))
  /\ Elements(m.freeable) = DOMAIN m.cached \ Refd(m)
  /\ Distinct(m.freeable)
  /\ \A h \in DOMAIN m.cached : \A r \in m.cached[h] : h \in Hashes(r)

\* What the map of the entries is, without the union over its domains.
LEMMA CachedMapType ==
  /\ \A c \in CachedMap : DOMAIN c \in SUBSET Hash /\ c \in [DOMAIN c -> SUBSET Request]
  /\ \A D \in SUBSET Hash : \A c \in [D -> SUBSET Request] : c \in CachedMap
  BY DEF CachedMap

\* The parts of a sound manager.
LEMMA SoundParts ==
  ASSUME NEW m, Sound(m)
  PROVE  /\ m \in Manager /\ DOMAIN m.cached \in SUBSET Hash
         /\ m.cached \in [DOMAIN m.cached -> SUBSET Request]
         /\ m.freeable \in Seq(Hash) /\ m.freed \in SUBSET Hash
         /\ m.free \in Int /\ m.freeableSlots \in Int
         /\ Refd(m) \in SUBSET DOMAIN m.cached /\ Refd(m) \in SUBSET Hash
         /\ Elements(m.freeable) \in SUBSET Hash
<1>1. m \in Manager
  BY DEF Sound
<1>2. /\ m.cached \in CachedMap /\ m.freeable \in Seq(Hash) /\ m.freed \in SUBSET Hash
      /\ m.free \in Int /\ m.freeableSlots \in Int
  BY <1>1 DEF Manager
<1>3. DOMAIN m.cached \in SUBSET Hash /\ m.cached \in [DOMAIN m.cached -> SUBSET Request]
  BY <1>2, CachedMapType
<1>4. Refd(m) \in SUBSET DOMAIN m.cached
  BY DEF Refd
<1>. QED
  BY <1>1, <1>2, <1>3, <1>4 DEF Sound

\* The hashes of a request are hashes of inputs.
LEMMA HashesType ==
  ASSUME NEW r \in Request
  PROVE  /\ Features[r] \in Seq(Inputs) /\ Len(Features[r]) \in Nat
         /\ DOMAIN Features[r] = 1 .. Len(Features[r])
         /\ \A i \in DOMAIN Features[r] :
              /\ Features[r][i] \in Inputs /\ Features[r][i].hash \in Hashes(r)
              /\ Features[r][i].start \in Nat /\ Features[r][i].len \in Nat \ {0}
              /\ End(Features[r][i]) \in Nat /\ Features[r][i].start < End(Features[r][i])
              /\ End(Features[r][i]) <= PromptLen[r] /\ PromptLen[r] \in Nat
              /\ \A j \in 1 .. i - 1 : End(Features[r][j]) <= Features[r][i].start
         /\ Hashes(r) \in SUBSET Hash
<1>1. Features[r] \in Seq(Inputs)
  BY InputAssumption
<1>2. Len(Features[r]) \in Nat /\ DOMAIN Features[r] = 1 .. Len(Features[r])
  BY <1>1
<1>3. ASSUME NEW i \in DOMAIN Features[r]
      PROVE  /\ Features[r][i] \in Inputs /\ Features[r][i].hash \in Hashes(r)
             /\ Features[r][i].start \in Nat /\ Features[r][i].len \in Nat \ {0}
             /\ End(Features[r][i]) <= PromptLen[r] /\ PromptLen[r] \in Nat
             /\ \A j \in 1 .. i - 1 : End(Features[r][j]) <= Features[r][i].start
  <2>1. Features[r][i] \in Inputs
    BY <1>1, <1>3
  <2>2. Features[r][i].hash \in Hashes(r)
    BY DEF Hashes, Elements
  <2>. QED
    BY <2>1, <2>2, InputAssumption, EncoderAssumption
<1>4. ASSUME NEW i \in DOMAIN Features[r]
      PROVE  End(Features[r][i]) \in Nat /\ Features[r][i].start < End(Features[r][i])
  BY <1>3 DEF End
<1>5. Elements(Features[r]) \subseteq Inputs
  BY <1>3 DEF Elements
<1>6. Hashes(r) \in SUBSET Hash
  BY <1>5 DEF Hashes, Hash
<1>. QED
  BY <1>1, <1>2, <1>3, <1>4, <1>6

\* The empty cache is sound.
LEMMA EmptySound == Sound(EmptyCache) /\ DOMAIN EmptyCache.cached = {}
<1>. DEFINE m == EmptyCache
<1>1. /\ m.cached = <<>> /\ m.freeable = <<>> /\ m.freed = {}
      /\ m.free = CacheSize /\ m.freeableSlots = CacheSize
  BY DEF EmptyCache
<1>2. DOMAIN m.cached = {} /\ m.cached \in [{} -> SUBSET Request]
  BY <1>1
<1>3. m.cached \in CachedMap
  <2>. HIDE DEF m
  <2>. QED
    BY <1>2, {} \in SUBSET Hash, CachedMapType
<1>4. m.freeable \in Seq(Hash) /\ Elements(m.freeable) = {} /\ Distinct(m.freeable)
  BY <1>1 DEF Elements, Distinct
<1>5. CacheSize \in Nat
  BY EncoderAssumption
<1>6. m \in Manager
  BY <1>1, <1>3, <1>4, <1>5 DEF Manager, EmptyCache
<1>7. Refd(m) = {}
  BY <1>2 DEF Refd
<1>. HIDE DEF m
<1>8. Sound(m)
  BY <1>1, <1>2, <1>4, <1>5, <1>6, <1>7, SlotsOne DEF Sound
<1>. QED
  BY <1>2, <1>8 DEF m

\* check_and_update_cache: an entry that is found gets one more reference.
LEMMA TouchSound ==
  ASSUME NEW m, Sound(m), NEW r \in Request, NEW h \in DOMAIN m.cached, h \in Hashes(r)
  PROVE  /\ Sound(Touch(m, r, h))
         /\ Touch(m, r, h).cached = [m.cached EXCEPT ![h] = @ \cup {r}]
         /\ Touch(m, r, h).free = m.free /\ Touch(m, r, h).freed = m.freed
<1>. DEFINE n == Touch(m, r, h)
            D == DOMAIN m.cached
            idle == m.cached[h] = {}
<1>1. /\ m \in Manager /\ D \in SUBSET Hash /\ m.cached \in [D -> SUBSET Request]
      /\ m.freeable \in Seq(Hash) /\ m.free \in Int /\ m.freeableSlots \in Int
      /\ Refd(m) \in SUBSET D /\ Refd(m) \in SUBSET Hash /\ h \in Hash
  BY SoundParts
<1>2. /\ n.cached = [m.cached EXCEPT ![h] = @ \cup {r}]
      /\ n.freeable = IF idle THEN Without(m.freeable, {h}) ELSE m.freeable
      /\ n.freeableSlots = IF idle THEN m.freeableSlots - Embeds(h) ELSE m.freeableSlots
      /\ n.free = m.free /\ n.freed = m.freed
  BY <1>1 DEF Touch, Manager
<1>3. /\ n.cached \in [D -> SUBSET Request] /\ DOMAIN n.cached = D
      /\ n.cached[h] = m.cached[h] \cup {r} /\ \A g \in D \ {h} : n.cached[g] = m.cached[g]
  BY <1>1, <1>2
<1>4. n.cached \in CachedMap
  BY <1>1, <1>3, CachedMapType
<1>5. Refd(n) = Refd(m) \cup {h} /\ (idle <=> h \notin Refd(m))
  BY <1>3 DEF Refd
<1>6. /\ Without(m.freeable, {h}) \in Seq(Hash) /\ Distinct(Without(m.freeable, {h}))
      /\ Elements(Without(m.freeable, {h})) = Elements(m.freeable) \ {h}
  BY <1>1, WithoutElements DEF Sound
<1>7. Embeds(h) \in Nat /\ Slots({h}) = Embeds(h) /\ Slots(Refd(m)) \in Nat
  BY <1>1, EmbedsFits, SlotsOne, SlotsFinite
<1>8. n \in Manager
  <2>1. n.freeable \in Seq(Hash) /\ n.freeableSlots \in Int
    BY <1>1, <1>2, <1>6, <1>7
  <2>2. n = [m EXCEPT !.cached = n.cached, !.freeable = n.freeable,
                      !.freeableSlots = n.freeableSlots]
    BY <1>1 DEF Touch, Manager
  <2>. HIDE DEF n
  <2>. QED
    BY <1>1, <1>4, <2>1, <2>2 DEF Manager
<1>. HIDE DEF n, D
<1>9. n.freeableSlots = CacheSize - Slots(Refd(n))
  <2>1. CASE idle
    <3>1. Slots(Refd(m) \cup {h}) = Slots(Refd(m)) + Slots({h})
      BY <1>1, <1>5, <2>1, {h} \in SUBSET Hash, Refd(m) \cap {h} = {}, SlotsUnion
    <3>2. m.freeableSlots = CacheSize - Slots(Refd(m)) /\ CacheSize \in Nat
      BY EncoderAssumption DEF Sound
    <3>. QED
      BY <1>2, <1>5, <1>7, <2>1, <3>1, <3>2
  <2>2. CASE ~idle
    <3>1. Refd(n) = Refd(m)
      BY <1>5, <2>2
    <3>. QED
      BY <1>2, <2>2, <3>1 DEF Sound
  <2>. QED
    BY <2>1, <2>2
<1>10. Elements(n.freeable) = D \ Refd(n) /\ Distinct(n.freeable)
  <2>1. Elements(m.freeable) = D \ Refd(m) /\ Distinct(m.freeable)
    BY DEF Sound, D
  <2>2. CASE idle
    BY <1>2, <1>5, <1>6, <2>1, <2>2
  <2>3. CASE ~idle
    BY <1>2, <1>5, <2>1, <2>3
  <2>. QED
    BY <2>2, <2>3
<1>11. n.free = CacheSize - Slots(DOMAIN n.cached) /\ n.free >= 0
  BY <1>2, <1>3 DEF Sound, D
<1>12. \A g \in DOMAIN n.cached : \A s \in n.cached[g] : g \in Hashes(s)
  BY <1>3 DEF Sound, D
<1>13. Sound(n)
  BY <1>3, <1>8, <1>9, <1>10, <1>11, <1>12 DEF Sound
<1>. QED
  BY <1>2, <1>13 DEF n

\* A set of numbers has a least one.
LEMMA LeastExists ==
  ASSUME NEW L \in Nat, NEW S, NEW k \in 0 .. L, k \in S
  PROVE  \E n \in 0 .. L : n \in S /\ \A j \in 0 .. n - 1 : j \notin S
<1>. DEFINE T == {i \in 0 .. L : \A j \in 0 .. i : j \notin S}
<1>1. CASE 0 \in S
  BY <1>1
<1>2. CASE 0 \notin S
  <2>1. 0 \in T /\ T \in SUBSET (0 .. L) /\ \A i \in T : \A j \in 0 .. i : j \in T
    BY <1>2
  <2>2. PICK i \in T : \A j \in T : j <= i
    BY <2>1, InitialSegmentMax
  <2>3. i + 1 \in 0 .. L
    BY <2>2
  <2>4. i + 1 \in S
    BY <2>2, <2>3
  <2>. QED
    BY <2>2, <2>3, <2>4
<1>. QED
  BY <1>1, <1>2

\* The eviction of can_allocate takes unreferenced entries only, finds enough of
\* them and counts them as freed.
LEMMA EvictSound ==
  ASSUME NEW m, Sound(m), NEW needed \in Nat, needed <= m.free \/ needed <= m.freeableSlots
  PROVE  /\ Sound(Evict(m, needed)) /\ needed <= Evict(m, needed).free
         /\ \E G \in SUBSET (DOMAIN m.cached \ Refd(m)) :
              /\ Evict(m, needed).cached = [h \in DOMAIN m.cached \ G |-> m.cached[h]]
              /\ Evict(m, needed).freed = m.freed \cup G
<1>. DEFINE e == Evict(m, needed)
            D == DOMAIN m.cached
            q == m.freeable
            Oldest(k) == Elements(TakeFirst(q, k))
            Enough(k) == needed <= m.free + Slots(Oldest(k))
            n == CHOOSE k \in 0 .. Len(q) : Enough(k) /\ \A j \in 0 .. k - 1 : ~Enough(j)
            G == Oldest(n)
<1>1. /\ m \in Manager /\ D \in SUBSET Hash /\ m.cached \in [D -> SUBSET Request]
      /\ q \in Seq(Hash) /\ m.free \in Int /\ m.freeableSlots \in Int /\ m.freed \in SUBSET Hash
      /\ Refd(m) \in SUBSET D /\ Refd(m) \in SUBSET Hash /\ Len(q) \in Nat
      /\ Elements(q) = D \ Refd(m) /\ Distinct(q) /\ CacheSize \in Nat
  BY SoundParts, EncoderAssumption DEF Sound
<1>2. /\ e.freeable = DropFirst(q, n) /\ e.cached = [h \in D \ G |-> m.cached[h]]
      /\ e.freed = m.freed \cup G /\ e.free = m.free + Slots(G)
      /\ e.freeableSlots = m.freeableSlots
  BY <1>1 DEF Evict, Manager
<1>3. e = [m EXCEPT !.freeable = e.freeable, !.cached = e.cached, !.freed = e.freed,
                    !.free = e.free]
  BY <1>1 DEF Evict, Manager
<1>4. \A k \in 0 .. Len(q) :
        /\ Oldest(k) \subseteq Elements(q)
        /\ DropFirst(q, k) \in Seq(Hash) /\ Distinct(DropFirst(q, k))
        /\ Elements(DropFirst(q, k)) = Elements(q) \ Oldest(k)
  BY <1>1, SplitElements
<1>5. \E k \in 0 .. Len(q) : Enough(k)
  <2>1. Oldest(Len(q)) = Elements(q)
    <3>1. /\ Len(DropFirst(q, Len(q))) = 0 /\ DropFirst(q, Len(q)) \in Seq(Hash)
          /\ Elements(q) = Oldest(Len(q)) \cup Elements(DropFirst(q, Len(q)))
      <4>1. Len(q) \in 0 .. Len(q) /\ Len(q) - Len(q) = 0
        BY <1>1
      <4>2. \A k \in 0 .. Len(q) :
              /\ Len(DropFirst(q, k)) = Len(q) - k /\ DropFirst(q, k) \in Seq(Hash)
              /\ Elements(q) = Oldest(k) \cup Elements(DropFirst(q, k))
        <5>. SUFFICES ASSUME NEW k \in 0 .. Len(q)
                      PROVE  /\ Len(DropFirst(q, k)) = Len(q) - k
                             /\ DropFirst(q, k) \in Seq(Hash)
                             /\ Elements(q) = Oldest(k) \cup Elements(DropFirst(q, k))
          OBVIOUS
        <5>1. q \in Seq(Hash)
          BY <1>1
        <5>. HIDE DEF q
        <5>. QED
          BY <5>1, SplitElements, ZenonT(90)
      <4>. HIDE DEF q, Oldest
      <4>. QED
        BY <4>1, <4>2
    <3>2. Elements(DropFirst(q, Len(q))) = {}
      BY <3>1 DEF Elements
    <3>. QED
      BY <3>1, <3>2
  <2>2. /\ Slots(D \ Refd(m)) = Slots(D) - Slots(Refd(m))
        /\ Slots(D) \in Nat /\ Slots(Refd(m)) \in Nat /\ Slots(D \ Refd(m)) \in Nat
    BY <1>1, SlotsMinus
  <2>3. m.free = CacheSize - Slots(D) /\ m.freeableSlots = CacheSize - Slots(Refd(m))
    BY DEF Sound
  <2>. HIDE DEF D, q, Oldest
  <2>4. needed <= m.free + Slots(Oldest(Len(q)))
    BY <1>1, <2>1, <2>2, <2>3
  <2>. QED
    BY <1>1, <2>4
<1>6. n \in 0 .. Len(q) /\ Enough(n)
  <2>. HIDE DEF Enough, q
  <2>1. PICK k \in 0 .. Len(q) : Enough(k)
    BY <1>5
  <2>. DEFINE S == {i \in 0 .. Len(q) : Enough(i)}
  <2>2. \E i \in 0 .. Len(q) : i \in S /\ \A j \in 0 .. i - 1 : j \notin S
    <3>1. k \in S
      BY <2>1
    <3>. HIDE DEF S
    <3>. QED
      BY <1>1, <3>1, LeastExists
  <2>3. \E i \in 0 .. Len(q) : Enough(i) /\ \A j \in 0 .. i - 1 : ~Enough(j)
    BY <1>1, <2>2
  <2>. QED
    BY <2>3
<1>. HIDE DEF n
<1>7. G \in SUBSET (D \ Refd(m)) /\ G \in SUBSET D
  BY <1>1, <1>4, <1>6
<1>8. /\ e.freeable \in Seq(Hash) /\ Distinct(e.freeable)
      /\ Elements(e.freeable) = (D \ Refd(m)) \ G
  BY <1>1, <1>2, <1>4, <1>6
<1>9. needed <= m.free + Slots(G)
  BY <1>6
<1>. HIDE DEF G, e, D, q
<1>10. /\ DOMAIN e.cached = D \ G /\ e.cached \in [D \ G -> SUBSET Request]
       /\ \A h \in D \ G : e.cached[h] = m.cached[h]
  BY <1>1, <1>2
<1>11. Refd(e) = Refd(m)
  BY <1>7, <1>10 DEF Refd, D
<1>12. /\ Slots(D \ G) = Slots(D) - Slots(G) /\ Slots(D) \in Nat /\ Slots(G) \in Nat
       /\ Slots(D \ G) \in Nat
  BY <1>1, <1>7, SlotsMinus
<1>13. e.free = CacheSize - Slots(D \ G) /\ e.free >= 0 /\ e.free \in Int
  <2>1. m.free = CacheSize - Slots(D) /\ m.free >= 0
    BY DEF Sound, D
  <2>. QED
    BY <1>1, <1>2, <1>12, <2>1
<1>14. e \in Manager
  <2>1. e.cached \in CachedMap
    BY <1>1, <1>10, D \ G \in SUBSET Hash, CachedMapType
  <2>2. e.freed \in SUBSET Hash
    BY <1>1, <1>2, <1>7
  <2>. QED
    BY <1>1, <1>3, <1>8, <1>13, <2>1, <2>2 DEF Manager
<1>15. (D \ Refd(m)) \ G = (D \ G) \ Refd(e)
  BY <1>11
<1>16. \A h \in DOMAIN e.cached : \A s \in e.cached[h] : h \in Hashes(s)
  BY <1>10 DEF Sound, D
<1>17. e.freeableSlots = CacheSize - Slots(Refd(e))
  BY <1>2, <1>11 DEF Sound
<1>18. Sound(e)
  BY <1>8, <1>10, <1>13, <1>14, <1>15, <1>16, <1>17 DEF Sound
<1>. QED
  BY <1>2, <1>7, <1>9, <1>18 DEF e, D

\* allocate: the inputs that were decided on get their entries.
LEMMA AllocateSound ==
  ASSUME NEW m, Sound(m), NEW r \in Request, NEW H \in SUBSET Hashes(r),
         H \cap DOMAIN m.cached = {}, Slots(H) <= m.free
  PROVE  /\ Sound(Allocate(m, r, H))
         /\ DOMAIN Allocate(m, r, H).cached = DOMAIN m.cached \cup H
         /\ \A h \in DOMAIN m.cached : Allocate(m, r, H).cached[h] = m.cached[h]
         /\ \A h \in H : Allocate(m, r, H).cached[h] = {r}
         /\ Allocate(m, r, H).freed = m.freed
<1>. DEFINE n == Allocate(m, r, H)
            D == DOMAIN m.cached
<1>1. /\ m \in Manager /\ D \in SUBSET Hash /\ m.cached \in [D -> SUBSET Request]
      /\ m.freeable \in Seq(Hash) /\ m.free \in Int /\ m.freeableSlots \in Int
      /\ Refd(m) \in SUBSET D /\ Refd(m) \in SUBSET Hash /\ H \in SUBSET Hash
      /\ D \cup H \in SUBSET Hash /\ D \cap H = {} /\ Refd(m) \cap H = {} /\ CacheSize \in Nat
  BY SoundParts, HashesType, EncoderAssumption
<1>2. /\ n.cached = [h \in D \cup H |-> (IF h \in D THEN m.cached[h] ELSE {})
                                          \cup (IF h \in H THEN {r} ELSE {})]
      /\ n.free = m.free - Slots(H) /\ n.freeableSlots = m.freeableSlots - Slots(H)
      /\ n.freed = m.freed /\ n.freeable = m.freeable
  BY <1>1 DEF Allocate, Manager
<1>3. n = [m EXCEPT !.cached = n.cached, !.free = n.free, !.freeableSlots = n.freeableSlots]
  BY <1>1 DEF Allocate, Manager
<1>. HIDE DEF n, D
<1>4. /\ DOMAIN n.cached = D \cup H /\ n.cached \in [D \cup H -> SUBSET Request]
      /\ \A h \in D : n.cached[h] = m.cached[h]
      /\ \A h \in H : n.cached[h] = {r}
  BY <1>1, <1>2
<1>5. Refd(n) = Refd(m) \cup H
  BY <1>1, <1>4 DEF Refd, D
<1>6. /\ Slots(H) \in Nat /\ Slots(D) \in Nat /\ Slots(Refd(m)) \in Nat
      /\ Slots(D \cup H) = Slots(D) + Slots(H)
      /\ Slots(Refd(m) \cup H) = Slots(Refd(m)) + Slots(H)
  BY <1>1, SlotsFinite, SlotsUnion
<1>7. /\ m.free = CacheSize - Slots(D) /\ m.freeableSlots = CacheSize - Slots(Refd(m))
      /\ Elements(m.freeable) = D \ Refd(m) /\ Distinct(m.freeable)
  BY DEF Sound, D
<1>8. /\ n.free = CacheSize - Slots(D \cup H) /\ n.free >= 0 /\ n.free \in Int
      /\ n.freeableSlots = CacheSize - Slots(Refd(n)) /\ n.freeableSlots \in Int
  <2>1. m.free \in Int /\ m.freeableSlots \in Int /\ CacheSize \in Nat /\ Slots(H) <= m.free
    BY <1>1
  <2>2. n.free = m.free - Slots(H) /\ n.freeableSlots = m.freeableSlots - Slots(H)
    BY <1>2
  <2>. QED
    BY <1>5, <1>6, <1>7, <2>1, <2>2
<1>9. n \in Manager
  <2>1. n.cached \in CachedMap
    BY <1>1, <1>4, CachedMapType
  <2>. QED
    BY <1>1, <1>3, <1>8, <2>1 DEF Manager
<1>10. Elements(n.freeable) = DOMAIN n.cached \ Refd(n)
  BY <1>1, <1>2, <1>4, <1>5, <1>7
<1>11. \A h \in DOMAIN n.cached : \A s \in n.cached[h] : h \in Hashes(s)
  BY <1>4 DEF Sound, D
<1>12. Sound(n)
  BY <1>2, <1>4, <1>7, <1>8, <1>9, <1>10, <1>11 DEF Sound
<1>. QED
  BY <1>2, <1>4, <1>12 DEF n, D

\* n is m without the references in D.
Drops(m, n, D) ==
  /\ DOMAIN n.cached = DOMAIN m.cached
  /\ \A h \in DOMAIN m.cached : n.cached[h] = {q \in m.cached[h] : <<q, h>> \notin D}
  /\ n.freed = m.freed /\ n.free = m.free

\* References may be dropped one after the other.
LEMMA DropsAgain ==
  ASSUME NEW m, NEW n, NEW o, NEW D, NEW E, Drops(m, n, D), Drops(n, o, E)
  PROVE  Drops(m, o, D \cup E)
  BY DEF Drops

\* Dropping no reference.
LEMMA DropsNone ==
  ASSUME NEW m, Sound(m), NEW D, \A h \in DOMAIN m.cached : \A q \in m.cached[h] : <<q, h>> \notin D
  PROVE  Drops(m, m, D)
  BY DEF Drops

\* free_encoder_input: the reference is gone, and the last one leaves the entry at
\* the end of the eviction order.
LEMMA FreeInputSound ==
  ASSUME NEW m, Sound(m), NEW r \in Request, NEW h \in Hash
  PROVE  /\ Sound(FreeEncoderInput(m, r, h))
         /\ Drops(m, FreeEncoderInput(m, r, h), {<<r, h>>})
<1>. DEFINE n == FreeEncoderInput(m, r, h)
            D == DOMAIN m.cached
            last == m.cached[h] \ {r} = {}
<1>1. /\ m \in Manager /\ D \in SUBSET Hash /\ m.cached \in [D -> SUBSET Request]
      /\ m.freeable \in Seq(Hash) /\ m.free \in Int /\ m.freeableSlots \in Int
      /\ Refd(m) \in SUBSET D /\ Refd(m) \in SUBSET Hash /\ CacheSize \in Nat
  BY SoundParts, EncoderAssumption
<1>2. CASE h \notin D \/ m.cached[h] = {}
  <2>1. n = m
    BY <1>2 DEF FreeEncoderInput
  <2>2. Drops(m, m, {<<r, h>>})
    BY <1>2, DropsNone
  <2>. QED
    BY <2>1, <2>2
<1>3. CASE h \in D /\ m.cached[h] # {}
  <2>1. /\ n.cached = [m.cached EXCEPT ![h] = @ \ {r}]
        /\ n.freeable = IF last THEN Append(m.freeable, h) ELSE m.freeable
        /\ n.freeableSlots = IF last THEN m.freeableSlots + Embeds(h) ELSE m.freeableSlots
        /\ n.free = m.free /\ n.freed = m.freed
    BY <1>1, <1>3 DEF FreeEncoderInput, Manager
  <2>2. n = [m EXCEPT !.cached = n.cached, !.freeable = n.freeable,
                      !.freeableSlots = n.freeableSlots]
    BY <1>1, <1>3 DEF FreeEncoderInput, Manager
  <2>. HIDE DEF n, D
  <2>3. /\ DOMAIN n.cached = D /\ n.cached \in [D -> SUBSET Request]
        /\ n.cached[h] = m.cached[h] \ {r} /\ \A g \in D \ {h} : n.cached[g] = m.cached[g]
    BY <1>1, <1>3, <2>1
  <2>4. Drops(m, n, {<<r, h>>})
    BY <2>1, <2>3 DEF Drops, D
  <2>5. h \in Refd(m) /\ Refd(n) = IF last THEN Refd(m) \ {h} ELSE Refd(m)
    BY <1>3, <2>3 DEF Refd, D
  <2>6. Embeds(h) \in Nat /\ Slots({h}) = Embeds(h)
    BY EmbedsFits, SlotsOne
  <2>7. /\ Slots(Refd(m) \ {h}) = Slots(Refd(m)) - Slots({h}) /\ Slots(Refd(m)) \in Nat
    BY <1>1, <2>5, {h} \in SUBSET Refd(m), SlotsMinus
  <2>8. /\ m.free = CacheSize - Slots(D) /\ m.free >= 0
        /\ m.freeableSlots = CacheSize - Slots(Refd(m))
        /\ Elements(m.freeable) = D \ Refd(m) /\ Distinct(m.freeable)
    BY DEF Sound, D
  <2>9. n.freeableSlots = CacheSize - Slots(Refd(n)) /\ n.freeableSlots \in Int
    BY <1>1, <2>1, <2>5, <2>6, <2>7, <2>8
  <2>10. /\ n.freeable \in Seq(Hash) /\ Distinct(n.freeable)
         /\ Elements(n.freeable) = D \ Refd(n)
    <3>1. CASE last
      <4>1. h \notin Elements(m.freeable)
        BY <2>5, <2>8
      <4>2. /\ Append(m.freeable, h) \in Seq(Hash) /\ Distinct(Append(m.freeable, h))
            /\ Elements(Append(m.freeable, h)) = Elements(m.freeable) \cup {h}
        BY <1>1, <2>8, <4>1, AppendElements
      <4>3. (D \ Refd(m)) \cup {h} = D \ (Refd(m) \ {h})
        BY <1>3
      <4>. QED
        BY <2>1, <2>5, <2>8, <3>1, <4>2, <4>3
    <3>2. CASE ~last
      BY <1>1, <2>1, <2>5, <2>8, <3>2
    <3>. QED
      BY <3>1, <3>2
  <2>11. n \in Manager
    <3>1. n.cached \in CachedMap
      BY <1>1, <2>3, CachedMapType
    <3>. QED
      BY <1>1, <2>2, <2>9, <2>10, <3>1 DEF Manager
  <2>12. \A g \in DOMAIN n.cached : \A s \in n.cached[g] : g \in Hashes(s)
    BY <2>3 DEF Sound, D
  <2>13. Sound(n)
    BY <2>1, <2>3, <2>8, <2>9, <2>10, <2>11, <2>12 DEF Sound
  <2>. QED
    BY <2>4, <2>13 DEF n
<1>. QED
  BY <1>2, <1>3

-----------------------------------------------------------------------------
(* Loops over the inputs                                                   *)

\* The loop of free and of _free_encoder_inputs is well defined, and drops the
\* references of the request to the inputs it was given.
LEMMA FreeInputsSound ==
  ASSUME NEW m, Sound(m), NEW r \in Request, NEW I \in SUBSET DOMAIN Features[r]
  PROVE  /\ Sound(FreeInputs(m, r, I))
         /\ Drops(m, FreeInputs(m, r, I), {<<r, Features[r][i].hash>> : i \in I})
<1>. DEFINE N == Len(Features[r])
            F(x, i) == IF i \in I THEN FreeEncoderInput(x, r, Features[r][i].hash) ELSE x
            Loop(a, k) == a = [i \in 0 .. k |-> IF i = 0 THEN m ELSE F(a[i - 1], i)]
            after == CHOOSE a : Loop(a, N)
            D(k) == {<<r, Features[r][i].hash>> : i \in {j \in I : j <= k}}
<1>1. /\ N \in Nat /\ DOMAIN Features[r] = 1 .. N
      /\ \A i \in 1 .. N : Features[r][i].hash \in Hash
  BY HashesType
<1>2. FreeInputs(m, r, I) = after[N]
  BY Zenon DEF FreeInputs
<1>3. ASSUME NEW x, Sound(x), NEW i \in 1 .. N
      PROVE  /\ Sound(F(x, i))
             /\ Drops(x, F(x, i), IF i \in I THEN {<<r, Features[r][i].hash>>} ELSE {})
  <2>1. CASE i \in I
    BY <1>1, <1>3, <2>1, FreeInputSound
  <2>2. CASE i \notin I
    BY <1>3, <2>2, DropsNone
  <2>. QED
    BY <2>1, <2>2
<1>. HIDE DEF F, N
<1>4. \E a : Loop(a, N)
  <2>. DEFINE S == {k \in Nat : \E a : Loop(a, k)}
  <2>1. 0 \in S
    <3>1. Loop([i \in 0 .. 0 |-> m], 0)
      OBVIOUS
    <3>. QED
      BY <3>1
  <2>2. ASSUME NEW k \in 0 .. N - 1, k \in S PROVE k + 1 \in S
    <3>1. PICK a : Loop(a, k)
      BY <2>2
    <3>. DEFINE b == [i \in 0 .. k + 1 |-> IF i = k + 1 THEN F(a[k], k + 1) ELSE a[i]]
    <3>2. \A i \in 0 .. k + 1 : b[i] = IF i = 0 THEN m ELSE F(b[i - 1], i)
      <4>. SUFFICES ASSUME NEW i \in 0 .. k + 1
                    PROVE  b[i] = IF i = 0 THEN m ELSE F(b[i - 1], i)
        OBVIOUS
      <4>1. CASE i = k + 1
        <5>1. b[i] = F(a[k], k + 1) /\ i # 0 /\ i - 1 = k /\ b[k] = a[k]
          BY <1>1, <4>1
        <5>. QED
          BY <4>1, <5>1
      <4>2. CASE i # k + 1
        <5>1. i \in 0 .. k /\ b[i] = a[i]
          BY <1>1, <4>2
        <5>2. a[i] = IF i = 0 THEN m ELSE F(a[i - 1], i)
          BY <3>1, <5>1
        <5>3. i # 0 => b[i - 1] = a[i - 1]
          BY <1>1, <5>1
        <5>. QED
          BY <5>1, <5>2, <5>3
      <4>. QED
        BY <4>1, <4>2
    <3>3. b = [i \in 0 .. k + 1 |-> b[i]]
      OBVIOUS
    <3>. HIDE DEF b
    <3>4. Loop(b, k + 1)
      BY <3>2, <3>3
    <3>. QED
      BY <1>1, <3>4
  <2>. HIDE DEF S
  <2>3. \A k \in 0 .. N : k \in S
    BY <1>1, <2>1, <2>2, SetInduction
  <2>4. N \in S
    BY <1>1, <2>3
  <2>. QED
    BY <2>4 DEF S
<1>5. Loop(after, N)
  BY <1>4
<1>6. /\ after[0] = m
      /\ \A i \in 1 .. N : after[i] = F(after[i - 1], i)
  <2>. HIDE DEF after
  <2>1. \A i \in 0 .. N : after[i] = IF i = 0 THEN m ELSE F(after[i - 1], i)
    BY <1>5
  <2>2. 0 \in 0 .. N /\ \A i \in 1 .. N : i \in 0 .. N /\ i # 0
    BY <1>1
  <2>. QED
    BY <2>1, <2>2
<1>. HIDE DEF after
<1>7. \A k \in 0 .. N : Sound(after[k]) /\ Drops(m, after[k], D(k))
  <2>. DEFINE S == {k \in Nat : Sound(after[k]) /\ Drops(m, after[k], D(k))}
  <2>1. 0 \in S
    <3>1. D(0) = {}
      BY <1>1
    <3>2. Drops(m, m, {})
      BY DropsNone
    <3>. QED
      BY <1>6, <3>1, <3>2
  <2>2. ASSUME NEW k \in 0 .. N - 1, k \in S PROVE k + 1 \in S
    <3>1. k + 1 \in 1 .. N /\ k + 1 - 1 = k /\ k + 1 \in Nat
      BY <1>1
    <3>2. after[k + 1] = F(after[k], k + 1)
      BY <1>6, <3>1
    <3>. DEFINE E == IF k + 1 \in I THEN {<<r, Features[r][k + 1].hash>>} ELSE {}
    <3>3. Sound(after[k + 1]) /\ Drops(after[k], after[k + 1], E)
      BY <1>3, <2>2, <3>1, <3>2
    <3>4. Drops(m, after[k + 1], D(k) \cup E)
      BY <2>2, <3>3, DropsAgain
    <3>5. {j \in I : j <= k + 1} = {j \in I : j <= k} \cup (IF k + 1 \in I THEN {k + 1} ELSE {})
      BY <1>1
    <3>6. D(k) \cup E = D(k + 1)
      BY <3>5
    <3>. QED
      BY <3>1, <3>3, <3>4, <3>6
  <2>. HIDE DEF S
  <2>3. \A k \in 0 .. N : k \in S
    BY <1>1, <2>1, <2>2, SetInduction
  <2>. QED
    BY <2>3 DEF S
<1>8. {j \in I : j <= N} = I
  BY <1>1
<1>9. N \in 0 .. N
  BY <1>1
<1>. QED
  BY <1>2, <1>7, <1>8, <1>9

\* n is m after some of its unreferenced entries were evicted and r has got
\* references to others.
Evolves(m, n, r) ==
  /\ DOMAIN n.cached \subseteq DOMAIN m.cached
  /\ Refd(m) \subseteq DOMAIN n.cached
  /\ \A h \in DOMAIN n.cached :
       m.cached[h] \subseteq n.cached[h] /\ n.cached[h] \subseteq m.cached[h] \cup {r}
  /\ n.freed = m.freed \cup (DOMAIN m.cached \ DOMAIN n.cached)

\* A manager has evolved from itself.
LEMMA EvolvesSelf ==
  ASSUME NEW m, Sound(m), NEW r
  PROVE  Evolves(m, m, r)
  BY DEF Evolves, Refd

\* A manager may evolve several times.
LEMMA EvolvesAgain ==
  ASSUME NEW m, NEW n, NEW o, NEW r, Evolves(m, n, r), Evolves(n, o, r)
  PROVE  Evolves(m, o, r)
<1>1. Refd(m) \subseteq Refd(n)
  BY DEF Evolves, Refd
<1>2. /\ DOMAIN o.cached \subseteq DOMAIN m.cached
      /\ Refd(m) \subseteq DOMAIN o.cached
  BY <1>1 DEF Evolves
<1>3. o.freed = m.freed \cup (DOMAIN m.cached \ DOMAIN o.cached)
  BY DEF Evolves
<1>4. ASSUME NEW h \in DOMAIN o.cached
      PROVE  m.cached[h] \subseteq o.cached[h] /\ o.cached[h] \subseteq m.cached[h] \cup {r}
  BY DEF Evolves
<1>. QED
  BY <1>2, <1>3, <1>4 DEF Evolves

\* A touched entry.
LEMMA TouchEvolves ==
  ASSUME NEW m, Sound(m), NEW r \in Request, NEW h \in DOMAIN m.cached, h \in Hashes(r)
  PROVE  /\ Sound(Touch(m, r, h)) /\ Touch(m, r, h).free = m.free
         /\ Evolves(m, Touch(m, r, h), r) /\ DOMAIN Touch(m, r, h).cached = DOMAIN m.cached
         /\ Touch(m, r, h).cached[h] = m.cached[h] \cup {r}
         /\ \A g \in DOMAIN m.cached \ {h} : Touch(m, r, h).cached[g] = m.cached[g]
<1>. DEFINE n == Touch(m, r, h)
<1>1. /\ n.cached = [m.cached EXCEPT ![h] = @ \cup {r}] /\ n.freed = m.freed
      /\ n.free = m.free /\ Sound(n)
  BY TouchSound
<1>2. m.cached \in [DOMAIN m.cached -> SUBSET Request]
  BY SoundParts
<1>. HIDE DEF n
<1>3. /\ DOMAIN n.cached = DOMAIN m.cached
      /\ n.cached[h] = m.cached[h] \cup {r}
      /\ \A g \in DOMAIN m.cached \ {h} : n.cached[g] = m.cached[g]
  BY <1>1, <1>2
<1>4. Evolves(m, n, r)
  BY <1>1, <1>3 DEF Evolves, Refd
<1>. QED
  BY <1>1, <1>3, <1>4 DEF n

\* An eviction.
LEMMA EvictEvolves ==
  ASSUME NEW m, Sound(m), NEW needed \in Nat, needed <= m.free \/ needed <= m.freeableSlots,
         NEW r
  PROVE  /\ Evolves(m, Evict(m, needed), r)
         /\ \A h \in DOMAIN Evict(m, needed).cached : Evict(m, needed).cached[h] = m.cached[h]
<1>. DEFINE n == Evict(m, needed)
<1>1. PICK G \in SUBSET (DOMAIN m.cached \ Refd(m)) :
        /\ n.cached = [h \in DOMAIN m.cached \ G |-> m.cached[h]]
        /\ n.freed = m.freed \cup G
  BY EvictSound
<1>. HIDE DEF n
<1>2. /\ DOMAIN n.cached = DOMAIN m.cached \ G
      /\ \A h \in DOMAIN n.cached : n.cached[h] = m.cached[h]
  BY <1>1
<1>3. DOMAIN m.cached \ DOMAIN n.cached = G
  BY <1>1, <1>2
<1>4. Refd(m) \subseteq DOMAIN n.cached
  BY <1>1, <1>2 DEF Refd
<1>5. Evolves(m, n, r)
  BY <1>1, <1>2, <1>3, <1>4 DEF Evolves
<1>. QED
  BY <1>2, <1>5 DEF n

Accum == [m : Manager, num : Nat, budget : Int, embeds : Int, hashes : SUBSET Hash,
          stop : BOOLEAN]

\* What has been decided for some inputs of r, starting from manager m.
Decided(m, r, a) ==
  /\ a \in Accum
  /\ Sound(a.m) /\ Evolves(m, a.m, r)
  /\ a.hashes \subseteq Hashes(r) /\ a.hashes \cap DOMAIN a.m.cached = {}
  /\ a.embeds = Slots(a.hashes) /\ a.embeds <= a.m.free

\* Input j of r is used by some of the tokens base .. base + num - 1.
Overlaps(r, j, base, num) ==
  num > 0 /\ Features[r][j].start < base + num /\ End(Features[r][j]) > base

\* Of the first i inputs, the ones the tokens use are referenced or will be
\* allocated, and no other got a reference or will be allocated.
Covered(m, r, base, a, i) ==
  /\ a.num = 0 => a.stop
  /\ \A h \in DOMAIN a.m.cached :
       r \in a.m.cached[h] =>
         r \in m.cached[h] \/ \E j \in 1 .. i : Features[r][j].hash = h /\ Overlaps(r, j, base, a.num)
  /\ \A h \in a.hashes : \E j \in 1 .. i : Features[r][j].hash = h /\ Overlaps(r, j, base, a.num)
  /\ \A j \in 1 .. i : Overlaps(r, j, base, a.num) =>
       \/ Features[r][j].hash \in a.hashes
       \/ Features[r][j].hash \in DOMAIN a.m.cached /\ r \in a.m.cached[Features[r][j].hash]
  /\ a.stop /\ a.num > 0 =>
       \A j \in i + 1 .. Len(Features[r]) : Features[r][j].start >= base + a.num

\* n is what TryInput makes of a, by cases.
TryCase(a, n, r, base, f) ==
  LET before == IF f.start > base + Shift THEN f.start - (base + Shift) ELSE 0
      e == Evict(a.m, f.len + a.embeds)
  IN  \/ /\ a.stop \/ f.start >= base + a.num + Shift
         /\ n = [a EXCEPT !.stop = TRUE]
      \/ /\ ~a.stop /\ f.start < base + a.num + Shift
         /\ \/ /\ End(f) <= base \/ f.hash \in a.hashes
               /\ n = a
            \/ /\ End(f) > base /\ f.hash \notin a.hashes /\ f.hash \in DOMAIN a.m.cached
               /\ n = [a EXCEPT !.m = Touch(a.m, r, f.hash)]
            \/ /\ End(f) > base /\ f.hash \notin a.hashes /\ f.hash \notin DOMAIN a.m.cached
               /\ \/ n = [a EXCEPT !.num = before, !.stop = TRUE]
                  \/ /\ f.len + a.embeds <= a.m.free \/ f.len + a.embeds <= a.m.freeableSlots
                     /\ \/ base + a.num = f.start /\ n = [a EXCEPT !.m = e]
                        \/ /\ base + a.num # f.start
                           /\ n = [a EXCEPT !.m = e, !.embeds = a.embeds + f.len,
                                            !.budget = a.budget - f.len,
                                            !.hashes = a.hashes \cup {f.hash}]

\* The cases of TryInput.
LEMMA TryInputCases ==
  ASSUME NEW m, NEW r \in Request, NEW base \in Nat, NEW a, Decided(m, r, a),
         NEW f \in Inputs
  PROVE  TryCase(a, TryInput(a, r, base, f), r, base, f)
<1>1. a \in Accum /\ a.num \in Nat /\ a.embeds \in Int
  BY DEF Decided, Accum
<1>2. /\ f.start \in Nat /\ f.len \in Nat /\ Embeds(f.hash) = f.len
      /\ End(f) \in Nat /\ Shift \in Nat
  BY InputAssumption, EmbedsFits DEF End, Shift
<1>3. f.start >= base + a.num + Shift \/ f.start < base + a.num + Shift
  BY <1>1, <1>2
<1>4. End(f) <= base \/ End(f) > base
  BY <1>2
<1>5. ASSUME CanAllocate(a.m, f.hash, a.budget, a.embeds)
      PROVE  f.len + a.embeds <= a.m.free \/ f.len + a.embeds <= a.m.freeableSlots
  BY <1>2, <1>5 DEF CanAllocate
<1>. QED
  BY <1>1, <1>3, <1>4, <1>5 DEF TryInput, TryCase

\* One input of _try_schedule_encoder_inputs keeps the books straight.
LEMMA TryInputDecided ==
  ASSUME NEW m, NEW r \in Request, NEW base \in Nat, NEW a, Decided(m, r, a),
         NEW f \in Inputs, f.hash \in Hashes(r)
  PROVE  Decided(m, r, TryInput(a, r, base, f))
<1>. DEFINE n == TryInput(a, r, base, f)
            before == IF f.start > base + Shift THEN f.start - (base + Shift) ELSE 0
            needed == f.len + a.embeds
            e == Evict(a.m, needed)
<1>1. /\ a \in Accum /\ a.m \in Manager /\ a.num \in Nat /\ a.embeds \in Int /\ a.budget \in Int
      /\ a.hashes \in SUBSET Hash /\ a.embeds = Slots(a.hashes) /\ a.embeds <= a.m.free
      /\ Sound(a.m) /\ Evolves(m, a.m, r)
      /\ a.hashes \subseteq Hashes(r) /\ a.hashes \cap DOMAIN a.m.cached = {}
  BY DEF Decided, Accum
<1>2. /\ f.start \in Nat /\ f.len \in Nat /\ Embeds(f.hash) = f.len /\ f.hash \in Hash
      /\ End(f) \in Nat /\ Shift \in Nat /\ a.embeds \in Nat /\ needed \in Nat
  BY <1>1, InputAssumption, EmbedsFits, SlotsFinite DEF End, Shift
<1>3. CASE n = [a EXCEPT !.stop = TRUE] \/ n = a
  <2>1. /\ n \in Accum /\ n.m = a.m /\ n.hashes = a.hashes /\ n.embeds = a.embeds
    BY <1>1, <1>3 DEF Accum
  <2>. HIDE DEF n
  <2>. QED
    BY <1>1, <2>1 DEF Decided, n
<1>4. CASE /\ f.hash \in DOMAIN a.m.cached /\ n = [a EXCEPT !.m = Touch(a.m, r, f.hash)]
  <2>1. /\ Sound(Touch(a.m, r, f.hash)) /\ Touch(a.m, r, f.hash).free = a.m.free
        /\ Evolves(a.m, Touch(a.m, r, f.hash), r)
        /\ DOMAIN Touch(a.m, r, f.hash).cached = DOMAIN a.m.cached
    BY <1>1, <1>4, TouchEvolves
  <2>2. Touch(a.m, r, f.hash) \in Manager /\ Evolves(m, Touch(a.m, r, f.hash), r)
    BY <1>1, <2>1, EvolvesAgain DEF Sound
  <2>3. /\ n \in Accum /\ n.m = Touch(a.m, r, f.hash) /\ n.hashes = a.hashes /\ n.embeds = a.embeds
    BY <1>1, <1>4, <2>2 DEF Accum
  <2>. HIDE DEF n
  <2>. QED
    BY <1>1, <2>1, <2>2, <2>3 DEF Decided, n
<1>5. CASE n = [a EXCEPT !.num = before, !.stop = TRUE]
  <2>1. before \in Nat
    BY <1>2
  <2>. HIDE DEF before
  <2>2. /\ n \in Accum /\ n.m = a.m /\ n.hashes = a.hashes /\ n.embeds = a.embeds
    BY <1>1, <1>5, <2>1 DEF Accum
  <2>. HIDE DEF n
  <2>. QED
    BY <1>1, <2>2 DEF Decided, n
<1>6. ASSUME needed <= a.m.free \/ needed <= a.m.freeableSlots
      PROVE  /\ Sound(e) /\ e \in Manager /\ e.free \in Int /\ needed <= e.free
             /\ Evolves(m, e, r) /\ DOMAIN e.cached \subseteq DOMAIN a.m.cached
  <2>1. Sound(e) /\ needed <= e.free /\ Evolves(a.m, e, r)
    BY <1>1, <1>2, <1>6, EvictSound, EvictEvolves
  <2>2. e \in Manager /\ e.free \in Int
    BY <2>1, SoundParts
  <2>3. Evolves(m, e, r)
    BY <1>1, <2>1, EvolvesAgain
  <2>4. DOMAIN e.cached \subseteq DOMAIN a.m.cached
    BY <2>1 DEF Evolves
  <2>. QED
    BY <2>1, <2>2, <2>3, <2>4
<1>7. CASE /\ needed <= a.m.free \/ needed <= a.m.freeableSlots
           /\ n = [a EXCEPT !.m = e]
  <2>1. a.embeds <= e.free
    BY <1>2, <1>6, <1>7
  <2>. HIDE DEF e, needed
  <2>2. /\ n \in Accum /\ n.m = e /\ n.hashes = a.hashes /\ n.embeds = a.embeds
    BY <1>1, <1>6, <1>7 DEF Accum
  <2>. HIDE DEF n
  <2>. QED
    BY <1>1, <1>6, <1>7, <2>1, <2>2 DEF Decided, n
<1>8. CASE /\ f.hash \notin a.hashes /\ f.hash \notin DOMAIN a.m.cached
           /\ needed <= a.m.free \/ needed <= a.m.freeableSlots
           /\ n = [a EXCEPT !.m = e, !.embeds = a.embeds + f.len,
                            !.budget = a.budget - f.len, !.hashes = a.hashes \cup {f.hash}]
  <2>1. Slots(a.hashes \cup {f.hash}) = Slots(a.hashes) + Slots({f.hash})
    BY <1>1, <1>2, <1>8, {f.hash} \in SUBSET Hash, a.hashes \cap {f.hash} = {}, SlotsUnion
  <2>2. Slots({f.hash}) = f.len
    BY <1>2, SlotsOne
  <2>3. /\ a.embeds + f.len = Slots(a.hashes \cup {f.hash}) /\ a.embeds + f.len <= e.free
        /\ a.embeds + f.len \in Int /\ a.budget - f.len \in Int
    BY <1>1, <1>2, <1>6, <1>8, <2>1, <2>2
  <2>4. a.hashes \cup {f.hash} \in SUBSET Hash
    BY <1>1, <1>2
  <2>. HIDE DEF e, needed
  <2>5. /\ n \in Accum /\ n.m = e /\ n.hashes = a.hashes \cup {f.hash}
        /\ n.embeds = a.embeds + f.len
    BY <1>1, <1>6, <1>8, <2>3, <2>4 DEF Accum
  <2>. HIDE DEF n
  <2>6. n.hashes \cap DOMAIN e.cached = {} /\ n.hashes \subseteq Hashes(r)
    BY <1>1, <1>6, <1>8, <2>5
  <2>. QED
    BY <1>6, <1>8, <2>3, <2>5, <2>6 DEF Decided, n
<1>9. \/ n = [a EXCEPT !.stop = TRUE] \/ n = a
      \/ f.hash \in DOMAIN a.m.cached /\ n = [a EXCEPT !.m = Touch(a.m, r, f.hash)]
      \/ n = [a EXCEPT !.num = before, !.stop = TRUE]
      \/ /\ needed <= a.m.free \/ needed <= a.m.freeableSlots
         /\ n = [a EXCEPT !.m = e]
      \/ /\ f.hash \notin a.hashes /\ f.hash \notin DOMAIN a.m.cached
         /\ needed <= a.m.free \/ needed <= a.m.freeableSlots
         /\ n = [a EXCEPT !.m = e, !.embeds = a.embeds + f.len,
                          !.budget = a.budget - f.len, !.hashes = a.hashes \cup {f.hash}]
  <2>1. TryCase(a, n, r, base, f)
    BY TryInputCases
  <2>. HIDE DEF n
  <2>. QED
    BY <2>1 DEF TryCase
<1>. HIDE DEF n, before, needed, e
<1>10. Decided(m, r, n)
  BY <1>3, <1>4, <1>5, <1>7, <1>8, <1>9, Zenon DEF n
<1>. QED
  BY <1>10 DEF n

\* One input of _try_schedule_encoder_inputs, without a drafter: what the tokens
\* use of the inputs seen so far will be there.
LEMMA TryInputCovered ==
  ASSUME ~Eagle, NEW m, NEW r \in Request, NEW base \in Nat, NEW a, Decided(m, r, a),
         NEW i \in 0 .. Len(Features[r]) - 1, Covered(m, r, base, a, i)
  PROVE  Covered(m, r, base, TryInput(a, r, base, Features[r][i + 1]), i + 1)
<1>. DEFINE f == Features[r][i + 1]
            N == Len(Features[r])
            n == TryInput(a, r, base, f)
            before == IF f.start > base + Shift THEN f.start - (base + Shift) ELSE 0
            needed == f.len + a.embeds
            e == Evict(a.m, needed)
<1>1. /\ a \in Accum /\ a.m \in Manager /\ a.num \in Nat /\ a.embeds \in Int /\ a.budget \in Int
      /\ a.embeds = Slots(a.hashes) /\ a.hashes \in SUBSET Hash
      /\ Sound(a.m) /\ a.hashes \cap DOMAIN a.m.cached = {}
  BY DEF Decided, Accum
<1>2. /\ N \in Nat /\ i \in Nat /\ i + 1 \in 1 .. N /\ Shift = 0
      /\ \A j \in 1 .. N : /\ Features[r][j].start \in Nat /\ End(Features[r][j]) \in Nat
                           /\ Features[r][j].start < End(Features[r][j])
      /\ \A j \in 1 .. i : End(Features[r][j]) <= f.start
      /\ \A j \in i + 2 .. N : End(f) <= Features[r][j].start
  <2>1. N \in Nat /\ DOMAIN Features[r] = 1 .. N /\ Shift = 0
    BY HashesType DEF Shift
  <2>2. i \in Nat /\ i + 1 \in 1 .. N /\ i + 1 - 1 = i
    BY <2>1
  <2>3. \A j \in 1 .. i : End(Features[r][j]) <= f.start
    BY <2>1, <2>2, HashesType
  <2>4. ASSUME NEW j \in i + 2 .. N PROVE End(f) <= Features[r][j].start
    <3>1. j \in 1 .. N /\ i + 1 \in 1 .. j - 1
      BY <2>1, <2>2
    <3>. QED
      BY <2>1, <3>1, HashesType
  <2>. QED
    BY <2>1, <2>2, <2>3, <2>4, HashesType
<1>3. /\ f \in Inputs /\ f.hash \in Hashes(r) /\ f.start \in Nat /\ f.len \in Nat
      /\ End(f) \in Nat /\ f.start < End(f)
  BY <1>2, HashesType
<1>4. /\ a.embeds \in Nat /\ needed \in Nat /\ a.num \in Nat
      /\ f.start \in Nat /\ End(f) \in Nat /\ f.start < End(f)
  <2>1. a.embeds \in Nat /\ a.num \in Nat
    BY <1>1, SlotsFinite
  <2>2. f.start \in Nat /\ f.len \in Nat /\ End(f) \in Nat /\ f.start < End(f)
    BY <1>3
  <2>. HIDE DEF f
  <2>. QED
    BY <2>1, <2>2
<1>5. /\ a.num = 0 => a.stop
      /\ \A h \in DOMAIN a.m.cached :
           r \in a.m.cached[h] =>
             r \in m.cached[h] \/ \E j \in 1 .. i : Features[r][j].hash = h /\ Overlaps(r, j, base, a.num)
      /\ \A h \in a.hashes : \E j \in 1 .. i : Features[r][j].hash = h /\ Overlaps(r, j, base, a.num)
      /\ \A j \in 1 .. i : Overlaps(r, j, base, a.num) =>
           \/ Features[r][j].hash \in a.hashes
           \/ Features[r][j].hash \in DOMAIN a.m.cached /\ r \in a.m.cached[Features[r][j].hash]
      /\ a.stop /\ a.num > 0 => \A j \in i + 1 .. N : Features[r][j].start >= base + a.num
  BY DEF Covered
<1>6. /\ \A j \in 1 .. i : j \in 1 .. i + 1
      /\ \A j \in 1 .. i + 1 : j \in 1 .. i \/ j = i + 1
      /\ \A j \in i + 2 .. N : j \in i + 1 .. N /\ j \in 1 .. N
      /\ i + 1 \in i + 1 .. N /\ i + 1 \in 1 .. i + 1 /\ i + 1 + 1 = i + 2
  BY <1>2
<1>. HIDE DEF N
<1>7. CASE /\ a.stop \/ f.start >= base + a.num + Shift
           /\ n = [a EXCEPT !.stop = TRUE]
  <2>1. n.m = a.m /\ n.num = a.num /\ n.hashes = a.hashes /\ n.stop = TRUE
    BY <1>1, <1>7 DEF Accum
  <2>2. a.num > 0 => f.start >= base + a.num
    <3>1. a.stop /\ a.num > 0 => f.start >= base + a.num
      BY <1>5, <1>6
    <3>2. f.start >= base + a.num + Shift => f.start >= base + a.num
      <4>1. Shift = 0
        BY <1>2
      <4>. HIDE DEF f
      <4>. QED
        BY <1>4, <4>1
    <3>. QED
      BY <1>7, <3>1, <3>2
  <2>3. ~Overlaps(r, i + 1, base, a.num)
    BY <1>1, <1>3, <2>2 DEF Overlaps
  <2>4. ASSUME a.num > 0, NEW j \in i + 2 .. N PROVE Features[r][j].start >= base + a.num
    <3>1. Features[r][j].start \in Nat /\ End(f) <= Features[r][j].start
      BY <1>2, <1>6
    <3>2. f.start >= base + a.num
      BY <2>2, <2>4
    <3>. HIDE DEF f
    <3>. QED
      BY <1>4, <3>1, <3>2, SMTT(40)
  <2>. HIDE DEF n, f
  <2>5. Covered(m, r, base, n, i + 1)
    BY <1>5, <1>6, <2>1, <2>3, <2>4 DEF Covered, N
  <2>. QED
    BY <2>5 DEF n, f
<1>8. CASE ~a.stop /\ (End(f) <= base \/ f.hash \in a.hashes) /\ n = a
  <2>1. Overlaps(r, i + 1, base, a.num) => f.hash \in a.hashes
    BY <1>3, <1>8 DEF Overlaps
  <2>. HIDE DEF n
  <2>2. Covered(m, r, base, n, i + 1)
    BY <1>5, <1>6, <1>8, <2>1 DEF Covered, N
  <2>. QED
    BY <2>2 DEF n
<1>9. CASE /\ ~a.stop /\ f.start < base + a.num + Shift /\ End(f) > base
           /\ f.hash \in DOMAIN a.m.cached /\ n = [a EXCEPT !.m = Touch(a.m, r, f.hash)]
  <2>. DEFINE t == Touch(a.m, r, f.hash)
  <2>1. n.m = t /\ n.num = a.num /\ n.hashes = a.hashes /\ n.stop = a.stop
    BY <1>1, <1>9 DEF Accum
  <2>2. /\ DOMAIN t.cached = DOMAIN a.m.cached /\ t.cached[f.hash] = a.m.cached[f.hash] \cup {r}
        /\ \A g \in DOMAIN a.m.cached \ {f.hash} : t.cached[g] = a.m.cached[g]
    BY <1>1, <1>3, <1>9, TouchEvolves
  <2>3. Overlaps(r, i + 1, base, a.num)
    BY <1>1, <1>2, <1>3, <1>5, <1>9 DEF Overlaps
  <2>. HIDE DEF n, f, t
  <2>4. ASSUME NEW h \in DOMAIN t.cached, r \in t.cached[h]
        PROVE  r \in m.cached[h] \/ \E j \in 1 .. i + 1 :
                 Features[r][j].hash = h /\ Overlaps(r, j, base, a.num)
    <3>1. CASE h = f.hash
      BY <1>6, <2>3, <3>1 DEF f
    <3>2. CASE h # f.hash
      BY <1>5, <1>6, <2>2, <2>4, <3>2
    <3>. QED
      BY <3>1, <3>2
  <2>5. ASSUME NEW j \in 1 .. i + 1, Overlaps(r, j, base, a.num)
        PROVE  \/ Features[r][j].hash \in a.hashes
               \/ Features[r][j].hash \in DOMAIN t.cached /\ r \in t.cached[Features[r][j].hash]
    <3>1. CASE Features[r][j].hash = f.hash
      BY <1>9, <2>2, <3>1
    <3>2. CASE Features[r][j].hash # f.hash
      <4>1. j \in 1 .. i
        BY <1>6, <3>2 DEF f
      <4>. QED
        BY <1>5, <2>2, <2>5, <3>2, <4>1
    <3>. QED
      BY <3>1, <3>2
  <2>6. \A h \in a.hashes : \E j \in 1 .. i + 1 :
          Features[r][j].hash = h /\ Overlaps(r, j, base, a.num)
    BY <1>5, <1>6
  <2>7. Covered(m, r, base, n, i + 1)
    BY <1>5, <1>9, <2>1, <2>4, <2>5, <2>6 DEF Covered
  <2>. QED
    BY <2>7 DEF n, f
<1>10. CASE ~a.stop /\ End(f) > base /\ n = [a EXCEPT !.num = before, !.stop = TRUE]
  <2>1. before \in Nat /\ (before > 0 => base + before = f.start) /\ (before = 0 => f.start <= base)
    <3>1. base + Shift = base /\ f.start \in Nat
      BY <1>2, <1>3
    <3>. HIDE DEF f
    <3>. QED
      BY <3>1
  <2>. HIDE DEF before
  <2>2. n.m = a.m /\ n.num = before /\ n.hashes = a.hashes /\ n.stop = TRUE
    BY <1>1, <1>10, <2>1 DEF Accum
  <2>3. ASSUME NEW j \in 1 .. i, Overlaps(r, j, base, a.num) PROVE Overlaps(r, j, base, before)
    <3>1. /\ Features[r][j].start \in Nat /\ End(Features[r][j]) \in Nat
          /\ Features[r][j].start < End(Features[r][j]) /\ End(Features[r][j]) <= f.start
          /\ End(Features[r][j]) > base
      BY <1>2, <2>3 DEF Overlaps
    <3>2. before > 0 /\ base + before = f.start
      BY <1>3, <2>1, <3>1
    <3>. QED
      BY <1>3, <3>1, <3>2 DEF Overlaps
  <2>4. ASSUME NEW j \in 1 .. i + 1, Overlaps(r, j, base, before)
        PROVE  j \in 1 .. i /\ Overlaps(r, j, base, a.num)
    <3>1. before > 0 /\ base + before = f.start /\ Features[r][j].start < f.start
      BY <2>1, <2>4 DEF Overlaps
    <3>2. j \in 1 .. i
      BY <1>3, <1>6, <3>1
    <3>3. a.num > 0
      BY <1>1, <1>5, <1>10
    <3>4. CASE f.start < base + a.num
      <4>1. Features[r][j].start \in Nat /\ End(Features[r][j]) > base
        BY <1>2, <1>6, <2>4, <3>2 DEF Overlaps
      <4>2. Features[r][j].start < base + a.num
        <5>. HIDE DEF f
        <5>. QED
          BY <1>4, <3>1, <3>4, <4>1, SMTT(40)
      <4>. QED
        BY <3>2, <3>3, <4>1, <4>2 DEF Overlaps
    <3>5. CASE ~(f.start < base + a.num)
      <4>1. f.start >= base + a.num + Shift
        BY <1>2, <1>4, <3>5, SMTT(40)
      <4>2. n = [a EXCEPT !.stop = TRUE]
        BY <4>1 DEF TryInput
      <4>3. n.num = a.num
        BY <1>1, <4>2 DEF Accum
      <4>. QED
        BY <2>2, <2>4, <3>2, <4>3
    <3>. QED
      BY <3>4, <3>5
  <2>5. ASSUME before > 0, NEW j \in i + 2 .. N PROVE Features[r][j].start >= base + before
    <3>1. Features[r][j].start \in Nat /\ End(f) <= Features[r][j].start
      BY <1>2, <1>6
    <3>2. base + before = f.start
      BY <2>1, <2>5
    <3>. HIDE DEF f
    <3>. QED
      BY <1>4, <3>1, <3>2, SMTT(40)
  <2>. HIDE DEF n, f
  <2>6. ASSUME NEW h \in DOMAIN a.m.cached, r \in a.m.cached[h]
        PROVE  r \in m.cached[h] \/ \E j \in 1 .. i + 1 :
                 Features[r][j].hash = h /\ Overlaps(r, j, base, before)
    BY <1>5, <1>6, <2>3, <2>6
  <2>7. \A h \in a.hashes : \E j \in 1 .. i + 1 :
          Features[r][j].hash = h /\ Overlaps(r, j, base, before)
    BY <1>5, <1>6, <2>3
  <2>8. \A j \in 1 .. i + 1 : Overlaps(r, j, base, before) =>
           \/ Features[r][j].hash \in a.hashes
           \/ Features[r][j].hash \in DOMAIN a.m.cached /\ r \in a.m.cached[Features[r][j].hash]
    BY <1>5, <2>4
  <2>9. Covered(m, r, base, n, i + 1)
    BY <1>6, <2>2, <2>5, <2>6, <2>7, <2>8 DEF Covered, N
  <2>. QED
    BY <2>9 DEF n, f
<1>11. CASE /\ ~a.stop /\ f.start < base + a.num + Shift /\ End(f) > base
            /\ needed <= a.m.free \/ needed <= a.m.freeableSlots
            /\ n = [a EXCEPT !.m = e, !.embeds = a.embeds + f.len,
                             !.budget = a.budget - f.len, !.hashes = a.hashes \cup {f.hash}]
  <2>1. n.m = e /\ n.num = a.num /\ n.hashes = a.hashes \cup {f.hash} /\ n.stop = a.stop
    BY <1>1, <1>11 DEF Accum
  <2>2. /\ DOMAIN e.cached \subseteq DOMAIN a.m.cached /\ Refd(a.m) \subseteq DOMAIN e.cached
        /\ \A h \in DOMAIN e.cached : e.cached[h] = a.m.cached[h]
    BY <1>1, <1>4, <1>11, EvictEvolves DEF Evolves
  <2>3. Overlaps(r, i + 1, base, a.num)
    BY <1>1, <1>2, <1>3, <1>5, <1>11 DEF Overlaps
  <2>. HIDE DEF n, f, e
  <2>4. ASSUME NEW h \in DOMAIN e.cached, r \in e.cached[h]
        PROVE  r \in m.cached[h] \/ \E j \in 1 .. i + 1 :
                 Features[r][j].hash = h /\ Overlaps(r, j, base, a.num)
    BY <1>5, <1>6, <2>2, <2>4
  <2>5. \A h \in a.hashes \cup {f.hash} : \E j \in 1 .. i + 1 :
          Features[r][j].hash = h /\ Overlaps(r, j, base, a.num)
    BY <1>5, <1>6, <2>3 DEF f
  <2>6. ASSUME NEW j \in 1 .. i + 1, Overlaps(r, j, base, a.num)
        PROVE  \/ Features[r][j].hash \in a.hashes \cup {f.hash}
               \/ Features[r][j].hash \in DOMAIN e.cached /\ r \in e.cached[Features[r][j].hash]
    <3>1. CASE j = i + 1
      BY <3>1 DEF f
    <3>2. CASE j # i + 1
      <4>1. j \in 1 .. i
        BY <1>6, <3>2
      <4>2. ASSUME Features[r][j].hash \in DOMAIN a.m.cached, r \in a.m.cached[Features[r][j].hash]
            PROVE  Features[r][j].hash \in Refd(a.m)
        BY <4>2 DEF Refd
      <4>. QED
        BY <1>5, <2>2, <2>6, <4>1, <4>2
    <3>. QED
      BY <3>1, <3>2
  <2>7. Covered(m, r, base, n, i + 1)
    BY <1>5, <1>11, <2>1, <2>4, <2>5, <2>6 DEF Covered
  <2>. QED
    BY <2>7 DEF n, f
<1>12. ASSUME f.start < base + a.num + Shift PROVE base + a.num # f.start
  BY <1>1, <1>2, <1>3, <1>12
<1>13. \/ (a.stop \/ f.start >= base + a.num + Shift) /\ n = [a EXCEPT !.stop = TRUE]
       \/ /\ ~a.stop /\ f.start < base + a.num + Shift
          /\ \/ (End(f) <= base \/ f.hash \in a.hashes) /\ n = a
             \/ /\ End(f) > base /\ f.hash \in DOMAIN a.m.cached
                /\ n = [a EXCEPT !.m = Touch(a.m, r, f.hash)]
             \/ End(f) > base /\ n = [a EXCEPT !.num = before, !.stop = TRUE]
             \/ /\ End(f) > base /\ (needed <= a.m.free \/ needed <= a.m.freeableSlots)
                /\ \/ base + a.num = f.start
                   \/ n = [a EXCEPT !.m = e, !.embeds = a.embeds + f.len,
                                    !.budget = a.budget - f.len,
                                    !.hashes = a.hashes \cup {f.hash}]
  <2>1. TryCase(a, n, r, base, f)
    BY <1>3, TryInputCases
  <2>. HIDE DEF n, f
  <2>. QED
    BY <2>1 DEF TryCase
<1>. HIDE DEF n, before, needed, e, f
<1>14. Covered(m, r, base, n, i + 1)
  BY <1>7, <1>8, <1>9, <1>10, <1>11, <1>12, <1>13, Zenon DEF n, f
<1>. QED
  BY <1>14 DEF n, f

\* after[i] is what has been decided for the first i inputs.
Traces(after, r, base, num, compute) ==
  /\ after[0] = [m |-> ecm, num |-> num, budget |-> compute, embeds |-> 0,
                 hashes |-> {}, stop |-> FALSE]
  /\ \A i \in 1 .. Len(Features[r]) :
       after[i] = TryInput(after[i - 1], r, base, Features[r][i])

\* The loop of _try_schedule_encoder_inputs is well defined.
LEMMA TryLoop ==
  ASSUME NEW r \in Request, NEW base, NEW num, NEW compute
  PROVE  \E after : /\ Traces(after, r, base, num, compute)
                    /\ TryScheduleEncoderInputs(r, base, num, compute) = after[Len(Features[r])]
<1>. DEFINE N == Len(Features[r])
            x == [m |-> ecm, num |-> num, budget |-> compute, embeds |-> 0,
                  hashes |-> {}, stop |-> FALSE]
            F(a, i) == TryInput(a, r, base, Features[r][i])
            Loop(a, k) == a = [i \in 0 .. k |-> IF i = 0 THEN x ELSE F(a[i - 1], i)]
            after == CHOOSE a : Loop(a, N)
<1>1. N \in Nat
  BY HashesType
<1>2. TryScheduleEncoderInputs(r, base, num, compute) = after[N]
  BY Zenon DEF TryScheduleEncoderInputs
<1>3. \A a, i : F(a, i) = TryInput(a, r, base, Features[r][i])
  OBVIOUS
<1>. HIDE DEF F, N, x
<1>4. \E a : Loop(a, N)
  <2>. DEFINE S == {k \in Nat : \E a : Loop(a, k)}
  <2>1. 0 \in S
    <3>1. Loop([i \in 0 .. 0 |-> x], 0)
      OBVIOUS
    <3>. QED
      BY <3>1
  <2>2. ASSUME NEW k \in 0 .. N - 1, k \in S PROVE k + 1 \in S
    <3>1. PICK a : Loop(a, k)
      BY <2>2
    <3>. DEFINE b == [i \in 0 .. k + 1 |-> IF i = k + 1 THEN F(a[k], k + 1) ELSE a[i]]
    <3>2. \A i \in 0 .. k + 1 : b[i] = IF i = 0 THEN x ELSE F(b[i - 1], i)
      <4>. SUFFICES ASSUME NEW i \in 0 .. k + 1
                    PROVE  b[i] = IF i = 0 THEN x ELSE F(b[i - 1], i)
        OBVIOUS
      <4>1. CASE i = k + 1
        <5>1. b[i] = F(a[k], k + 1) /\ i # 0 /\ i - 1 = k /\ b[k] = a[k]
          BY <1>1, <4>1
        <5>. QED
          BY <4>1, <5>1
      <4>2. CASE i # k + 1
        <5>1. i \in 0 .. k /\ b[i] = a[i]
          BY <1>1, <4>2
        <5>2. a[i] = IF i = 0 THEN x ELSE F(a[i - 1], i)
          BY <3>1, <5>1
        <5>3. i # 0 => b[i - 1] = a[i - 1]
          BY <1>1, <5>1
        <5>. QED
          BY <5>1, <5>2, <5>3
      <4>. QED
        BY <4>1, <4>2
    <3>3. b = [i \in 0 .. k + 1 |-> b[i]]
      OBVIOUS
    <3>. HIDE DEF b
    <3>4. Loop(b, k + 1)
      BY <3>2, <3>3
    <3>. QED
      BY <1>1, <3>4
  <2>. HIDE DEF S
  <2>3. \A k \in 0 .. N : k \in S
    BY <1>1, <2>1, <2>2, SetInduction
  <2>4. N \in S
    BY <1>1, <2>3
  <2>. QED
    BY <2>4 DEF S
<1>5. Loop(after, N)
  BY <1>4
<1>6. /\ after[0] = x
      /\ \A i \in 1 .. N : after[i] = F(after[i - 1], i)
  <2>. HIDE DEF after
  <2>1. \A i \in 0 .. N : after[i] = IF i = 0 THEN x ELSE F(after[i - 1], i)
    BY <1>5
  <2>2. 0 \in 0 .. N /\ \A i \in 1 .. N : i \in 0 .. N /\ i # 0
    BY <1>1
  <2>. QED
    BY <2>1, <2>2
<1>. HIDE DEF after
<1>. QED
  BY <1>2, <1>3, <1>6 DEF N, x, Traces

\* What _try_schedule_encoder_inputs decides for a request.
LEMMA TrySound ==
  ASSUME Sound(ecm), NEW r \in Request, NEW base \in Nat, NEW num \in Nat \ {0},
         NEW compute \in Int
  PROVE  LET t == TryScheduleEncoderInputs(r, base, num, compute)
         IN  /\ Decided(ecm, r, t)
             /\ ~Eagle => Covered(ecm, r, base, t, Len(Features[r]))
<1>. DEFINE N == Len(Features[r])
            t == TryScheduleEncoderInputs(r, base, num, compute)
            x == [m |-> ecm, num |-> num, budget |-> compute, embeds |-> 0,
                  hashes |-> {}, stop |-> FALSE]
<1>1. /\ N \in Nat /\ \A i \in 1 .. N : Features[r][i] \in Inputs /\ Features[r][i].hash \in Hashes(r)
  BY HashesType
<1>2. PICK after :
        /\ after[0] = x
        /\ \A i \in 1 .. N : after[i] = TryInput(after[i - 1], r, base, Features[r][i])
        /\ t = after[N]
  <2>1. PICK after : Traces(after, r, base, num, compute) /\ t = after[N]
    BY TryLoop
  <2>. HIDE DEF t
  <2>2. /\ after[0] = x
        /\ \A i \in 1 .. N : after[i] = TryInput(after[i - 1], r, base, Features[r][i])
    BY <2>1 DEF Traces
  <2>. QED
    BY <2>1, <2>2
<1>3. Decided(ecm, r, x)
  <2>1. ecm \in Manager /\ ecm.free >= 0 /\ Evolves(ecm, ecm, r)
    BY EvolvesSelf DEF Sound
  <2>2. x \in Accum
    BY <2>1 DEF Accum
  <2>3. x.m = ecm /\ x.hashes = {} /\ x.embeds = 0
    OBVIOUS
  <2>. HIDE DEF x
  <2>. QED
    BY <2>1, <2>2, <2>3, SlotsOne DEF Decided
<1>4. Covered(ecm, r, base, x, 0)
  <2>1. x.m = ecm /\ x.hashes = {} /\ x.num = num /\ x.stop = FALSE
    OBVIOUS
  <2>. HIDE DEF x
  <2>. QED
    BY <2>1 DEF Covered
<1>. DEFINE S == {k \in Nat : Decided(ecm, r, after[k])
                              /\ (~Eagle => Covered(ecm, r, base, after[k], k))}
<1>5. 0 \in S
  BY <1>2, <1>3, <1>4
<1>6. ASSUME NEW k \in 0 .. N - 1, k \in S PROVE k + 1 \in S
  <2>1. k + 1 \in 1 .. N /\ k + 1 - 1 = k /\ k + 1 \in Nat
    BY <1>1
  <2>2. after[k + 1] = TryInput(after[k], r, base, Features[r][k + 1])
    BY <1>2, <2>1
  <2>3. Features[r][k + 1] \in Inputs /\ Features[r][k + 1].hash \in Hashes(r)
    BY <1>1, <2>1
  <2>4. Decided(ecm, r, after[k + 1])
    BY <1>6, <2>2, <2>3, TryInputDecided
  <2>5. ~Eagle => Covered(ecm, r, base, after[k + 1], k + 1)
    BY <1>6, <2>2, TryInputCovered
  <2>. QED
    BY <2>1, <2>4, <2>5
<1>7. \A k \in 0 .. N : k \in S
  <2>. HIDE DEF S, N
  <2>. QED
    BY <1>1, <1>5, <1>6, SetInduction
<1>8. N \in S
  BY <1>1, <1>7
<1>. QED
  BY <1>2, <1>8

Trial == [req : Request, base : Nat, num : Nat \ {0}, hashes : SUBSET Hash, budget : Int]

\* The references that _free_encoder_inputs drops for a scheduled request.
Released(t) ==
  {<<t.req, Features[t.req][i].hash>> :
     i \in {j \in DOMAIN Features[t.req] : End(Features[t.req][j]) <= Upto(t)}}

\* _update_after_schedule is well defined and drops what the scheduled requests
\* have in the KV cache by now.
LEMMA FreeScheduledSound ==
  ASSUME NEW m, Sound(m), scheduled \in Seq(Trial)
  PROVE  /\ Sound(FreeScheduled(m))
         /\ Drops(m, FreeScheduled(m), UNION {Released(t) : t \in Elements(scheduled)})
<1>. DEFINE N == Len(scheduled)
            F(x, k) == FreeComputed(x, scheduled[k].req, Upto(scheduled[k]))
            Loop(a, n) == a = [k \in 0 .. n |-> IF k = 0 THEN m ELSE F(a[k - 1], k)]
            after == CHOOSE a : Loop(a, N)
            R(k) == Released(scheduled[k])
            D(n) == UNION {R(k) : k \in 1 .. n}
<1>1. N \in Nat /\ DOMAIN scheduled = 1 .. N /\ \A k \in 1 .. N : scheduled[k].req \in Request
  <2>1. N \in Nat /\ DOMAIN scheduled = 1 .. N /\ \A k \in 1 .. N : scheduled[k] \in Trial
    OBVIOUS
  <2>. QED
    BY <2>1 DEF Trial
<1>2. FreeScheduled(m) = after[N]
  BY Zenon DEF FreeScheduled
<1>3. ASSUME NEW x, Sound(x), NEW k \in 1 .. N
      PROVE  Sound(F(x, k)) /\ Drops(x, F(x, k), R(k))
  <2>. DEFINE r == scheduled[k].req
              I == {j \in DOMAIN Features[r] : End(Features[r][j]) <= Upto(scheduled[k])}
  <2>1. F(x, k) = FreeInputs(x, r, I) /\ R(k) = {<<r, Features[r][i].hash>> : i \in I}
    BY DEF FreeComputed, Released
  <2>2. r \in Request /\ I \in SUBSET DOMAIN Features[r]
    BY <1>1
  <2>. HIDE DEF I, F, R, r
  <2>. QED
    BY <1>3, <2>1, <2>2, FreeInputsSound
<1>4. UNION {Released(t) : t \in Elements(scheduled)} = D(N)
  BY <1>1 DEF Elements
<1>. HIDE DEF F, N, R
<1>5. \E a : Loop(a, N)
  <2>. DEFINE S == {k \in Nat : \E a : Loop(a, k)}
  <2>1. 0 \in S
    <3>1. Loop([i \in 0 .. 0 |-> m], 0)
      OBVIOUS
    <3>. QED
      BY <3>1
  <2>2. ASSUME NEW k \in 0 .. N - 1, k \in S PROVE k + 1 \in S
    <3>1. PICK a : Loop(a, k)
      BY <2>2
    <3>. DEFINE b == [i \in 0 .. k + 1 |-> IF i = k + 1 THEN F(a[k], k + 1) ELSE a[i]]
    <3>2. \A i \in 0 .. k + 1 : b[i] = IF i = 0 THEN m ELSE F(b[i - 1], i)
      <4>. SUFFICES ASSUME NEW i \in 0 .. k + 1
                    PROVE  b[i] = IF i = 0 THEN m ELSE F(b[i - 1], i)
        OBVIOUS
      <4>1. CASE i = k + 1
        <5>1. b[i] = F(a[k], k + 1) /\ i # 0 /\ i - 1 = k /\ b[k] = a[k]
          BY <1>1, <4>1
        <5>. QED
          BY <4>1, <5>1
      <4>2. CASE i # k + 1
        <5>1. i \in 0 .. k /\ b[i] = a[i]
          BY <1>1, <4>2
        <5>2. a[i] = IF i = 0 THEN m ELSE F(a[i - 1], i)
          BY <3>1, <5>1
        <5>3. i # 0 => b[i - 1] = a[i - 1]
          BY <1>1, <5>1
        <5>. QED
          BY <5>1, <5>2, <5>3
      <4>. QED
        BY <4>1, <4>2
    <3>3. b = [i \in 0 .. k + 1 |-> b[i]]
      OBVIOUS
    <3>. HIDE DEF b
    <3>4. Loop(b, k + 1)
      BY <3>2, <3>3
    <3>. QED
      BY <1>1, <3>4
  <2>. HIDE DEF S
  <2>3. \A k \in 0 .. N : k \in S
    BY <1>1, <2>1, <2>2, SetInduction
  <2>4. N \in S
    BY <1>1, <2>3
  <2>. QED
    BY <2>4 DEF S
<1>6. Loop(after, N)
  BY <1>5
<1>7. /\ after[0] = m
      /\ \A i \in 1 .. N : after[i] = F(after[i - 1], i)
  <2>. HIDE DEF after
  <2>1. \A i \in 0 .. N : after[i] = IF i = 0 THEN m ELSE F(after[i - 1], i)
    BY <1>6
  <2>2. 0 \in 0 .. N /\ \A i \in 1 .. N : i \in 0 .. N /\ i # 0
    BY <1>1
  <2>. QED
    BY <2>1, <2>2
<1>. HIDE DEF after
<1>8. \A k \in 0 .. N : Sound(after[k]) /\ Drops(m, after[k], D(k))
  <2>. DEFINE S == {k \in Nat : Sound(after[k]) /\ Drops(m, after[k], D(k))}
  <2>1. 0 \in S
    <3>1. D(0) = {}
      OBVIOUS
    <3>2. Drops(m, m, {})
      BY DropsNone
    <3>. QED
      BY <1>7, <3>1, <3>2
  <2>2. ASSUME NEW k \in 0 .. N - 1, k \in S PROVE k + 1 \in S
    <3>1. k + 1 \in 1 .. N /\ k + 1 - 1 = k /\ k + 1 \in Nat
      BY <1>1
    <3>2. after[k + 1] = F(after[k], k + 1)
      BY <1>7, <3>1
    <3>3. Sound(after[k + 1]) /\ Drops(after[k], after[k + 1], R(k + 1))
      BY <1>3, <2>2, <3>1, <3>2
    <3>4. Drops(m, after[k + 1], D(k) \cup R(k + 1))
      BY <2>2, <3>3, DropsAgain
    <3>5. \A j : j \in 1 .. k + 1 <=> j \in 1 .. k \/ j = k + 1
      BY <1>1
    <3>6. D(k) \cup R(k + 1) = D(k + 1)
      BY <3>5
    <3>. QED
      BY <3>1, <3>3, <3>4, <3>6
  <2>. HIDE DEF S
  <2>3. \A k \in 0 .. N : k \in S
    BY <1>1, <2>1, <2>2, SetInduction
  <2>. QED
    BY <2>3 DEF S
<1>9. N \in 0 .. N
  BY <1>1
<1>. QED
  BY <1>2, <1>4, <1>8, <1>9

\* free: a request that gives up its inputs refers to no entry.
LEMMA FreeRequestSound ==
  ASSUME NEW m, Sound(m), NEW r \in Request
  PROVE  /\ Sound(FreeRequest(m, r))
         /\ DOMAIN FreeRequest(m, r).cached = DOMAIN m.cached
         /\ \A h \in DOMAIN m.cached : FreeRequest(m, r).cached[h] = m.cached[h] \ {r}
         /\ FreeRequest(m, r).freed = m.freed /\ FreeRequest(m, r).free = m.free
<1>. DEFINE n == FreeRequest(m, r)
            D == {<<r, Features[r][i].hash>> : i \in DOMAIN Features[r]}
<1>1. Sound(n) /\ Drops(m, n, D)
  BY FreeInputsSound DEF FreeRequest
<1>2. ASSUME NEW h \in DOMAIN m.cached, NEW q \in m.cached[h]
      PROVE  <<q, h>> \in D <=> q = r
  <2>1. h \in Hashes(q)
    BY <1>2 DEF Sound
  <2>2. PICK i \in DOMAIN Features[q] : h = Features[q][i].hash
    BY <2>1 DEF Hashes, Elements
  <2>. QED
    BY <2>2
<1>. HIDE DEF n, D
<1>3. ASSUME NEW h \in DOMAIN m.cached PROVE n.cached[h] = m.cached[h] \ {r}
  BY <1>1, <1>2 DEF Drops
<1>. QED
  BY <1>1, <1>3 DEF Drops, n

-----------------------------------------------------------------------------
(* The counters of the manager                                             *)

\* What the scheduler wants to schedule for one request.
TryingFits ==
  /\ trying \in Trial /\ trying.req \in waiting \cup Elements(running)
  /\ trying.hashes \subseteq Hashes(trying.req)
  /\ trying.hashes \cap DOMAIN ecm.cached = {} /\ Slots(trying.hashes) <= ecm.free

\* While the running requests are taken, the scheduler is past those it scheduled.
Placed ==
  pc = "running" \/ (pc = "allocate" /\ trying.req \notin waiting) => idx >= Len(scheduled) + 1

Proper ==
  /\ Sound(ecm)
  /\ running \in Seq(Request) /\ Distinct(running) /\ waiting \in SUBSET Request
  /\ Elements(running) \cap waiting = {}
  /\ computed \in [Request -> Nat]
  /\ pc \in {"idle", "running", "waiting", "allocate", "finish"}
  /\ idx \in Int /\ budget \in Int /\ scheduled \in Seq(Trial)
  /\ pc = "allocate" => TryingFits
  /\ Placed

\* Only a request that is running, or about to, refers to an entry.
RunningHold ==
  \A h \in DOMAIN ecm.cached : \A r \in ecm.cached[h] : r \in Elements(running) \/ Pending(r)

Books == Proper /\ (~Eagle => RunningHold)

\* The types of the lists.
LEMMA ProperParts ==
  ASSUME Proper
  PROVE  /\ Sound(ecm) /\ running \in Seq(Request) /\ Len(running) \in Nat
         /\ DOMAIN running = 1 .. Len(running) /\ Elements(running) \subseteq Request
         /\ \A i \in 1 .. Len(running) : running[i] \in Request /\ running[i] \in Elements(running)
         /\ scheduled \in Seq(Trial) /\ Len(scheduled) \in Nat
         /\ DOMAIN scheduled = 1 .. Len(scheduled)
         /\ \A i \in 1 .. Len(scheduled) : scheduled[i] \in Trial
         /\ \A t \in Elements(scheduled) :
              /\ t \in Trial /\ t.req \in Request /\ t.base \in Nat /\ t.num \in Nat \ {0}
              /\ t.hashes \in SUBSET Hash /\ Upto(t) \in Nat
<1>1. /\ Sound(ecm) /\ running \in Seq(Request) /\ scheduled \in Seq(Trial)
  BY DEF Proper
<1>2. /\ Len(running) \in Nat /\ DOMAIN running = 1 .. Len(running)
      /\ \A i \in 1 .. Len(running) : running[i] \in Request
  BY <1>1
<1>3. /\ Len(scheduled) \in Nat /\ DOMAIN scheduled = 1 .. Len(scheduled)
      /\ \A i \in 1 .. Len(scheduled) : scheduled[i] \in Trial
  BY <1>1
<1>4. /\ Elements(running) \subseteq Request /\ Elements(scheduled) \subseteq Trial
      /\ \A i \in 1 .. Len(running) : running[i] \in Elements(running)
  BY <1>2, <1>3 DEF Elements
<1>5. ASSUME NEW t \in Elements(scheduled)
      PROVE  /\ t \in Trial /\ t.req \in Request /\ t.base \in Nat /\ t.num \in Nat \ {0}
             /\ t.hashes \in SUBSET Hash
  BY <1>4 DEF Trial
<1>6. ASSUME NEW t \in Elements(scheduled) PROVE Upto(t) \in Nat
  BY <1>5, EncoderAssumption DEF Upto
<1>. QED
  BY <1>1, <1>2, <1>3, <1>4, <1>5, <1>6

\* The books are straight at first.
LEMMA InitBooks == Init => Books
<1>. SUFFICES ASSUME Init PROVE Books
  OBVIOUS
<1>1. Sound(ecm) /\ DOMAIN ecm.cached = {}
  BY EmptySound DEF Init
<1>2. /\ running = <<>> /\ scheduled = <<>> /\ waiting = {} /\ pc = "idle" /\ idx = 1
      /\ budget = ComputeBudget /\ computed = [r \in Request |-> 0]
  BY DEF Init
<1>3. <<>> \in Seq(Request) /\ <<>> \in Seq(Trial) /\ Distinct(<<>>)
  BY DEF Distinct
<1>4. RunningHold
  BY <1>1 DEF RunningHold
<1>5. Proper
  BY <1>1, <1>2, <1>3, EncoderAssumption DEF Proper, Placed
<1>. QED
  BY <1>4, <1>5 DEF Books

\* Request r uses entry h for the tokens base .. base + num - 1.
Uses(r, h, base, num) ==
  \E j \in DOMAIN Features[r] : Features[r][j].hash = h /\ Overlaps(r, j, base, num)

\* Trying a request: the manager may evict and add references of the request.
LEMMA TryStep ==
  ASSUME Proper, NEW r \in waiting \cup Elements(running), NEW base \in Nat,
         NEW num \in Nat \ {0}, NEW next \in {"running", "finish"}, Try(r, base, num, next),
         UNCHANGED <<running, waiting>>
  PROVE  /\ Sound(ecm') /\ Evolves(ecm, ecm', r)
         /\ \/ /\ pc' = next /\ trying' = trying
               /\ ~Eagle => \A h \in DOMAIN ecm'.cached : r \in ecm'.cached[h] => r \in ecm.cached[h]
            \/ /\ pc' = "allocate" /\ TryingFits' /\ trying'.req = r /\ trying'.base = base
               /\ ~Eagle =>
                    /\ \A h \in DOMAIN ecm'.cached : r \in ecm'.cached[h] =>
                         r \in ecm.cached[h] \/ Uses(r, h, base, trying'.num)
                    /\ \A h \in trying'.hashes : Uses(r, h, base, trying'.num)
                    /\ \A h : Uses(r, h, base, trying'.num) =>
                         h \in trying'.hashes \/ (h \in DOMAIN ecm'.cached /\ r \in ecm'.cached[h])
<1>. DEFINE t == TryScheduleEncoderInputs(r, base, num, budget)
<1>1. /\ ecm' = t.m /\ pc' = IF t.num = 0 THEN next ELSE "allocate"
      /\ trying' = IF t.num = 0 THEN trying
                   ELSE [req |-> r, base |-> base, num |-> t.num,
                         hashes |-> t.hashes, budget |-> t.budget]
  BY DEF Try
<1>2. r \in Request /\ Sound(ecm) /\ budget \in Int
  BY ProperParts DEF Proper
<1>3. Decided(ecm, r, t) /\ (~Eagle => Covered(ecm, r, base, t, Len(Features[r])))
  BY <1>2, TrySound
<1>. HIDE DEF t
<1>4. /\ Sound(t.m) /\ Evolves(ecm, t.m, r) /\ t.num \in Nat /\ t.budget \in Int
      /\ t.hashes \in SUBSET Hash /\ t.hashes \subseteq Hashes(r)
      /\ t.hashes \cap DOMAIN t.m.cached = {} /\ Slots(t.hashes) <= t.m.free
  BY <1>3 DEF Decided, Accum
<1>5. CASE t.num = 0
  <2>1. ASSUME ~Eagle, NEW h \in DOMAIN t.m.cached, r \in t.m.cached[h]
        PROVE  r \in ecm.cached[h]
    BY <1>3, <1>5, <2>1 DEF Covered, Overlaps
  <2>. QED
    BY <1>1, <1>4, <1>5, <2>1
<1>6. CASE t.num # 0
  <2>1. /\ pc' = "allocate" /\ trying' = [req |-> r, base |-> base, num |-> t.num,
                                         hashes |-> t.hashes, budget |-> t.budget]
    BY <1>1, <1>6
  <2>2. /\ trying' \in Trial /\ trying'.req = r /\ trying'.base = base /\ trying'.num = t.num
        /\ trying'.hashes = t.hashes
    BY <1>2, <1>4, <1>6, <2>1 DEF Trial
  <2>3. TryingFits'
    BY <1>1, <1>4, <2>2 DEF TryingFits
  <2>4. DOMAIN Features[r] = 1 .. Len(Features[r])
    BY <1>2, HashesType
  <2>5. ASSUME ~Eagle
        PROVE  /\ \A h \in DOMAIN t.m.cached : r \in t.m.cached[h] =>
                    r \in ecm.cached[h] \/ Uses(r, h, base, t.num)
               /\ \A h \in t.hashes : Uses(r, h, base, t.num)
               /\ \A h : Uses(r, h, base, t.num) =>
                    h \in t.hashes \/ (h \in DOMAIN t.m.cached /\ r \in t.m.cached[h])
    BY <1>3, <2>4, <2>5 DEF Covered, Uses
  <2>. QED
    BY <1>1, <1>4, <2>1, <2>2, <2>3, <2>5
<1>. QED
  BY <1>5, <1>6

\* The running request that is preempted.
Victim == IF Policy = "FCFS" THEN running[Len(running)]
          ELSE CHOOSE s \in Elements(running) :
                 \A t \in Elements(running) : Precedence[s] <= Precedence[t]

\* There is one: the request that is tried runs itself.
LEMMA VictimRuns ==
  ASSUME Proper, Elements(running) # {}
  PROVE  Victim \in Elements(running) /\ Victim \in Request
<1>1. /\ Len(running) \in Nat /\ DOMAIN running = 1 .. Len(running)
      /\ Elements(running) \subseteq Request
  BY ProperParts
<1>2. Len(running) \in DOMAIN running
  BY <1>1 DEF Elements
<1>3. CASE Policy = "FCFS"
  <2>1. running[Len(running)] \in Elements(running)
    BY <1>2 DEF Elements
  <2>. QED
    BY <1>1, <1>3, <2>1 DEF Victim
<1>4. CASE Policy # "FCFS"
  <2>. DEFINE S == {Precedence[s] : s \in Elements(running)}
  <2>1. PICK s \in Elements(running) : TRUE
    OBVIOUS
  <2>2. \A u \in Elements(running) : Precedence[u] \in Nat
    BY <1>1, EncoderAssumption
  <2>3. Precedence[s] \in Nat /\ Precedence[s] \in 0 .. Precedence[s] /\ Precedence[s] \in S
    BY <2>2
  <2>4. PICK n \in 0 .. Precedence[s] : n \in S /\ \A j \in 0 .. n - 1 : j \notin S
    <3>. HIDE DEF S
    <3>. QED
      BY <2>3, LeastExists
  <2>5. PICK v \in Elements(running) : n = Precedence[v]
    BY <2>4
  <2>6. ASSUME NEW t \in Elements(running) PROVE Precedence[v] <= Precedence[t]
    <3>1. Precedence[t] \in S /\ Precedence[t] \in Nat /\ n \in Nat
      BY <2>2, <2>4
    <3>2. ~(Precedence[t] \in 0 .. n - 1)
      BY <2>4, <3>1
    <3>. HIDE DEF S
    <3>. QED
      BY <2>5, <3>1, <3>2
  <2>7. Victim \in Elements(running)
    BY <1>4, <2>5, <2>6 DEF Victim
  <2>. QED
    BY <1>1, <2>7
<1>. QED
  BY <1>3, <1>4

\* The running list without a request.
LEMMA LeaveRunning ==
  ASSUME Proper, NEW v
  PROVE  /\ Without(running, {v}) \in Seq(Request) /\ Distinct(Without(running, {v}))
         /\ Elements(Without(running, {v})) = Elements(running) \ {v}
  BY WithoutElements DEF Proper

\* The running list with one more request.
LEMMA JoinRunning ==
  ASSUME Proper, NEW r \in Request, r \notin Elements(running)
  PROVE  /\ Append(running, r) \in Seq(Request) /\ Distinct(Append(running, r))
         /\ Elements(Append(running, r)) = Elements(running) \cup {r}
  BY AppendElements DEF Proper

\* A list without some of its elements is shorter.
LEMMA WithoutShorter ==
  ASSUME NEW T, NEW s \in Seq(T), NEW S
  PROVE  /\ Len(Without(s, S)) \in Nat /\ Len(Without(s, S)) <= Len(s)
         /\ Elements(s) \cap S # {} => Len(Without(s, S)) < Len(s)
<1>1. /\ Len(Without(s, S)) = Cardinality(Kept(s, S)) /\ Len(s) \in Nat
      /\ Kept(s, S) \subseteq 1 .. Len(s) /\ Cardinality(Kept(s, S)) \in Nat
  BY WithoutElements, KeptFinite
<1>2. IsFiniteSet(1 .. Len(s)) /\ Cardinality(1 .. Len(s)) = Len(s)
  BY <1>1, IntervalSize
<1>3. Cardinality(Kept(s, S)) <= Len(s)
  BY <1>1, <1>2, FS_Subset
<1>4. ASSUME Elements(s) \cap S # {} PROVE Cardinality(Kept(s, S)) < Len(s)
  <2>1. PICK i \in DOMAIN s : s[i] \in S
    BY <1>4 DEF Elements
  <2>2. i \in 1 .. Len(s) /\ i \notin Kept(s, S)
    BY <2>1 DEF Kept
  <2>3. Kept(s, S) # 1 .. Len(s)
    BY <2>2
  <2>. QED
    BY <1>1, <1>2, <2>3, FS_Subset
<1>. QED
  BY <1>1, <1>3, <1>4

\* What a preemption does.
LEMMA PreemptParts ==
  ASSUME Proper, PreemptVictim
  PROVE  LET v == Victim
             mine == {t \in Elements(scheduled) : t.req = v}
         IN  /\ v \in Elements(running) /\ v \in Request
             /\ pc = "allocate" /\ trying.req \in Elements(running) /\ trying.req \notin waiting
             /\ running' = Without(running, {v}) /\ waiting' = waiting \cup {v}
             /\ scheduled' = Without(scheduled, mine)
             /\ budget' = budget + Slots(UNION {t.hashes : t \in mine})
             /\ idx' = IF mine = {} THEN idx ELSE idx - 1
             /\ ecm' = FreeRequest(ecm, v)
             /\ computed' = [computed EXCEPT ![v] = 0]
             /\ pc' = IF v = trying.req THEN "finish" ELSE pc
             /\ trying' = IF v = trying.req THEN <<>> ELSE trying
             /\ preempted' = TRUE /\ UNCHANGED <<batches, store>>
<1>1. pc = "allocate" /\ trying.req \notin waiting /\ TryingFits
  BY DEF PreemptVictim, Proper
<1>2. trying.req \in Elements(running)
  BY <1>1 DEF TryingFits
<1>3. Victim \in Elements(running) /\ Victim \in Request
  BY <1>2, VictimRuns
<1>. QED
  BY <1>1, <1>2, <1>3, Zenon DEF PreemptVictim, Victim

\* get_freed_mm_hashes only clears the list of evicted entries.
LEMMA ClearFreed ==
  ASSUME NEW m, Sound(m)
  PROVE  /\ Sound([m EXCEPT !.freed = {}]) /\ [m EXCEPT !.freed = {}].cached = m.cached
         /\ [m EXCEPT !.freed = {}].freed = {}
<1>. DEFINE n == [m EXCEPT !.freed = {}]
<1>1. m \in Manager
  BY DEF Sound
<1>2. /\ n.cached = m.cached /\ n.freed = {} /\ n.freeable = m.freeable /\ n.free = m.free
      /\ n.freeableSlots = m.freeableSlots /\ n \in Manager
  BY <1>1 DEF Manager
<1>. HIDE DEF n
<1>3. Refd(n) = Refd(m)
  BY <1>2 DEF Refd
<1>4. Sound(n)
  BY <1>2, <1>3 DEF Sound
<1>. QED
  BY <1>2, <1>4 DEF n

\* What the end of a step does to the manager.
LEMMA FinishStepParts ==
  ASSUME Proper, FinishStep
  PROVE  /\ Sound(ecm') /\ DOMAIN ecm'.cached = DOMAIN ecm.cached /\ ecm'.freed = {}
         /\ \A h \in DOMAIN ecm.cached :
              ecm'.cached[h] = {q \in ecm.cached[h] :
                \A t \in Elements(scheduled) : <<q, h>> \notin Released(t)}
<1>. DEFINE m == [ecm EXCEPT !.freed = {}]
            D == UNION {Released(t) : t \in Elements(scheduled)}
<1>1. Sound(m) /\ m.cached = ecm.cached /\ m.freed = {}
  BY ProperParts, ClearFreed
<1>2. ecm' = FreeScheduled(m) /\ scheduled \in Seq(Trial)
  BY ProperParts DEF FinishStep
<1>. HIDE DEF m
<1>3. Sound(ecm') /\ Drops(m, ecm', D)
  BY <1>1, <1>2, FreeScheduledSound
<1>4. \A p : p \notin D <=> \A t \in Elements(scheduled) : p \notin Released(t)
  OBVIOUS
<1>. HIDE DEF D
<1>5. /\ DOMAIN ecm'.cached = DOMAIN ecm.cached /\ ecm'.freed = {}
      /\ \A h \in DOMAIN ecm.cached : ecm'.cached[h] = {q \in ecm.cached[h] : <<q, h>> \notin D}
  BY <1>1, <1>3 DEF Drops
<1>. QED
  BY <1>3, <1>4, <1>5

\* What scheduling the request that was tried does.
LEMMA ScheduleParts ==
  ASSUME Proper, Schedule
  PROVE  LET r == trying.req
         IN  /\ TryingFits /\ r \in Request /\ trying \in Trial /\ pc = "allocate" /\ pc' # "allocate"
             /\ Sound(ecm') /\ DOMAIN ecm'.cached = DOMAIN ecm.cached \cup trying.hashes
             /\ \A h \in DOMAIN ecm.cached : ecm'.cached[h] = ecm.cached[h]
             /\ \A h \in trying.hashes : ecm'.cached[h] = {r}
             /\ ecm'.freed = ecm.freed
             /\ Elements(running') = Elements(running) \cup {r}
             /\ running' \in Seq(Request) /\ Distinct(running') /\ waiting' = waiting \ {r}
             /\ scheduled' = Append(scheduled, trying)
             /\ computed' = [computed EXCEPT ![r] = trying.base]
             /\ UNCHANGED <<preempted, batches, store>>
             /\ \/ r \in waiting /\ pc' = "waiting" /\ running' = Append(running, r) /\ idx' = idx
                \/ r \in Elements(running) /\ r \notin waiting /\ pc' = "running" /\ idx' = idx + 1
                   /\ running' = running
<1>. DEFINE r == trying.req
<1>1. /\ TryingFits /\ pc = "allocate" /\ Sound(ecm) /\ Elements(running) \subseteq Request
      /\ waiting \in SUBSET Request /\ Elements(running) \cap waiting = {}
      /\ running \in Seq(Request) /\ Distinct(running)
  BY ProperParts DEF Proper, Schedule
<1>2. /\ trying \in Trial /\ r \in Request /\ r \in waiting \cup Elements(running)
      /\ trying.hashes \in SUBSET Hashes(r) /\ trying.hashes \cap DOMAIN ecm.cached = {}
      /\ Slots(trying.hashes) <= ecm.free
  BY <1>1 DEF TryingFits
<1>3. /\ ecm' = Allocate(ecm, r, trying.hashes) /\ scheduled' = Append(scheduled, trying)
      /\ computed' = [computed EXCEPT ![r] = trying.base] /\ waiting' = waiting \ {r}
      /\ UNCHANGED <<preempted, batches, store>>
      /\ IF r \in waiting
         THEN pc' = "waiting" /\ running' = Append(running, r) /\ idx' = idx
         ELSE pc' = "running" /\ idx' = idx + 1 /\ running' = running
  BY DEF Schedule
<1>4. /\ Sound(ecm') /\ DOMAIN ecm'.cached = DOMAIN ecm.cached \cup trying.hashes
      /\ \A h \in DOMAIN ecm.cached : ecm'.cached[h] = ecm.cached[h]
      /\ \A h \in trying.hashes : ecm'.cached[h] = {r}
      /\ ecm'.freed = ecm.freed
  BY <1>1, <1>2, <1>3, AllocateSound
<1>5. /\ Elements(running') = Elements(running) \cup {r}
      /\ running' \in Seq(Request) /\ Distinct(running')
  <2>1. CASE r \in waiting
    BY <1>1, <1>2, <1>3, <2>1, JoinRunning
  <2>2. CASE r \notin waiting
    BY <1>1, <1>2, <1>3, <2>2
  <2>. QED
    BY <2>1, <2>2
<1>. QED
  BY <1>1, <1>2, <1>3, <1>4, <1>5

\* Every step keeps the books of the manager straight.
LEMMA StepBooks == Books /\ [Next]_vars => Books'
<1>. SUFFICES ASSUME Books, [Next]_vars PROVE Books'
  OBVIOUS
<1>1. /\ Proper /\ (~Eagle => RunningHold) /\ Sound(ecm)
      /\ running \in Seq(Request) /\ Distinct(running) /\ Elements(running) \subseteq Request
      /\ waiting \in SUBSET Request /\ Elements(running) \cap waiting = {}
      /\ computed \in [Request -> Nat]
      /\ pc \in {"idle", "running", "waiting", "allocate", "finish"}
      /\ idx \in Int /\ budget \in Int /\ scheduled \in Seq(Trial)
      /\ pc = "allocate" => TryingFits
  BY ProperParts DEF Books, Proper
<1>2. ASSUME UNCHANGED <<ecm, running>>, waiting' \in SUBSET Request,
             Elements(running) \cap waiting' = {}, computed' = computed,
             pc' \in {"idle", "running", "waiting", "finish"}, pc # "allocate",
             idx' \in Int, budget' \in Int, scheduled' \in Seq(Trial),
             pc' = "running" => idx' >= Len(scheduled') + 1
      PROVE  Books'
  <2>1. Proper'
    BY <1>1, <1>2 DEF Proper, Placed
  <2>2. RunningHold => RunningHold'
    BY <1>2 DEF RunningHold, Pending
  <2>. QED
    BY <1>1, <2>1, <2>2 DEF Books
<1>3. CASE UNCHANGED vars
  <2>1. UNCHANGED <<ecm, running, waiting, computed, pc, idx, trying, budget, scheduled>>
    BY <1>3 DEF vars, stepVars
  <2>2. Proper' /\ (RunningHold => RunningHold')
    BY <1>1, <2>1 DEF Proper, Placed, TryingFits, RunningHold, Pending
  <2>. QED
    BY <1>1, <2>2 DEF Books
<1>4. ASSUME NEW r \in Request, AddRequest(r) PROVE Books'
  <2>1. /\ pc = "idle" /\ r \notin Elements(running) /\ waiting' = waiting \cup {r}
        /\ UNCHANGED <<ecm, running, computed, pc, idx, trying, budget, scheduled>>
    BY <1>4 DEF AddRequest, Live, stepVars
  <2>. QED
    BY <1>1, <1>2, <2>1
<1>5. CASE StartStep
  <2>1. /\ pc = "idle" /\ pc' = "running" /\ idx' = 1 /\ budget' = ComputeBudget
        /\ scheduled' = <<>> /\ UNCHANGED <<ecm, running, waiting, computed>>
    BY <1>5 DEF StartStep
  <2>2. scheduled' \in Seq(Trial) /\ budget' \in Int /\ idx' >= Len(scheduled') + 1
    BY <2>1, EncoderAssumption
  <2>. QED
    BY <1>1, <1>2, <2>1, <2>2
<1>6. CASE EndRunning
  <2>1. /\ pc = "running" /\ pc' \in {"finish", "waiting"}
        /\ UNCHANGED <<ecm, running, waiting, computed, idx, budget, scheduled>>
    BY <1>6 DEF EndRunning
  <2>. QED
    BY <1>1, <1>2, <2>1
<1>7. CASE Execute
  <2>1. UNCHANGED <<ecm, running, waiting, computed, pc, idx, trying, budget, scheduled>>
    BY <1>7 DEF Execute, stepVars
  <2>2. Proper' /\ (RunningHold => RunningHold')
    BY <1>1, <2>1 DEF Proper, Placed, TryingFits, RunningHold, Pending
  <2>. QED
    BY <1>1, <2>2 DEF Books
<1>8. ASSUME pc # "allocate", UNCHANGED <<running, waiting, computed, budget, scheduled>>, idx' \in Int,
             NEW r \in waiting \cup Elements(running), NEW base \in Nat,
             NEW num \in Nat \ {0}, NEW next \in {"running", "finish"}, Try(r, base, num, next),
             ~(r \in Elements(running)) => next = "finish",
             r \in Elements(running) => idx' >= Len(scheduled) + 1
      PROVE  Books'
  <2>1. /\ Sound(ecm') /\ Evolves(ecm, ecm', r)
        /\ \/ /\ pc' = next
              /\ ~Eagle => \A h \in DOMAIN ecm'.cached : r \in ecm'.cached[h] => r \in ecm.cached[h]
           \/ pc' = "allocate" /\ TryingFits' /\ trying'.req = r
    BY <1>1, <1>8, TryStep
  <2>2. Proper'
    <3>1. Placed'
      BY <1>1, <1>8, <2>1 DEF Placed
    <3>. QED
      BY <1>1, <1>8, <2>1, <3>1 DEF Proper
  <2>3. ASSUME ~Eagle, NEW h \in DOMAIN ecm'.cached, NEW q \in ecm'.cached[h]
        PROVE  q \in Elements(running') \/ Pending(q)'
    <3>1. h \in DOMAIN ecm.cached /\ (q \in ecm.cached[h] \/ q = r)
      BY <2>1, <2>3 DEF Evolves
    <3>2. q \in ecm.cached[h] => q \in Elements(running)
      BY <1>1, <1>8, <2>3, <3>1 DEF RunningHold, Pending
    <3>3. q = r => q \in ecm.cached[h] \/ Pending(q)'
      BY <2>1, <2>3 DEF Pending
    <3>. QED
      BY <1>8, <3>1, <3>2, <3>3
  <2>. QED
    BY <2>2, <2>3 DEF Books, RunningHold
<1>9. ASSUME NEW r \in Request, NEW num \in 1 .. PromptLen[r], TryRunning(r, num) PROVE Books'
  <2>1. /\ pc = "running" /\ idx <= Len(running) /\ r = running[idx]
        /\ Try(r, computed[r], num, "running")
        /\ idx' = IF pc' = "running" THEN idx + 1 ELSE idx
        /\ UNCHANGED <<running, waiting, computed, budget, scheduled>>
    BY <1>9 DEF TryRunning
  <2>2. computed[r] \in Nat /\ num \in Nat \ {0} /\ idx' \in Int
    BY <1>1, <2>1, EncoderAssumption
  <2>3. /\ Len(running) \in Nat /\ Len(scheduled) \in Nat /\ idx >= Len(scheduled) + 1
        /\ \A i \in 1 .. Len(running) : running[i] \in Elements(running)
    BY <1>1, <2>1, ProperParts DEF Proper, Placed
  <2>4. idx \in 1 .. Len(running) /\ idx' >= Len(scheduled) + 1
    BY <1>1, <2>1, <2>3
  <2>5. r \in Elements(running)
    BY <2>1, <2>3, <2>4
  <2>. QED
    BY <1>8, <2>1, <2>2, <2>4, <2>5
<1>10. ASSUME NEW r \in Request, NEW base \in 0 .. PromptLen[r], NEW num \in 0 .. PromptLen[r],
              TryWaiting(r, base, num)
       PROVE  Books'
  <2>1. /\ pc = "waiting" /\ r \in waiting /\ num > 0 /\ Try(r, base, num, "finish")
        /\ UNCHANGED <<running, waiting, computed, idx, budget, scheduled>>
    BY <1>10 DEF TryWaiting
  <2>2. base \in Nat /\ num \in Nat \ {0}
    BY <2>1, EncoderAssumption
  <2>. QED
    BY <1>1, <1>8, <2>1, <2>2
<1>11. CASE Schedule
  <2>. DEFINE r == trying.req
  <2>1. /\ r \in Request /\ trying \in Trial /\ pc = "allocate"
        /\ pc' \in {"running", "waiting"} /\ idx' \in Int
        /\ Sound(ecm') /\ DOMAIN ecm'.cached = DOMAIN ecm.cached \cup trying.hashes
        /\ \A h \in DOMAIN ecm.cached : ecm'.cached[h] = ecm.cached[h]
        /\ \A h \in trying.hashes : ecm'.cached[h] = {r}
        /\ Elements(running') = Elements(running) \cup {r}
        /\ running' \in Seq(Request) /\ Distinct(running') /\ waiting' = waiting \ {r}
        /\ scheduled' = Append(scheduled, trying)
        /\ computed' = [computed EXCEPT ![r] = trying.base]
    BY <1>1, <1>11, ScheduleParts
  <2>2. trying.base \in Nat /\ trying.budget \in Int
    BY <2>1 DEF Trial
  <2>3. budget' \in Int
    BY <1>1, <1>11, <2>2 DEF Schedule
  <2>4. Proper'
    <3>1. computed' \in [Request -> Nat] /\ scheduled' \in Seq(Trial)
      BY <1>1, <2>1, <2>2
    <3>2. Elements(running') \cap waiting' = {} /\ waiting' \in SUBSET Request
      BY <1>1, <2>1
    <3>3. Placed'
      <4>1. /\ Len(scheduled) \in Nat /\ Len(scheduled') = Len(scheduled) + 1
            /\ trying.req \notin waiting => idx >= Len(scheduled) + 1
        BY <1>1, <2>1, AppendProperties DEF Proper, Placed
      <4>2. pc' = "running" => trying.req \notin waiting /\ idx' = idx + 1
        BY <1>11 DEF Schedule
      <4>. QED
        BY <1>1, <2>1, <4>1, <4>2 DEF Placed
    <3>. QED
      BY <2>1, <2>3, <3>1, <3>2, <3>3 DEF Proper
  <2>5. ASSUME ~Eagle, NEW h \in DOMAIN ecm'.cached, NEW q \in ecm'.cached[h]
        PROVE  q \in Elements(running')
    <3>1. CASE h \in DOMAIN ecm.cached
      <4>1. q \in Elements(running) \/ q = r
        BY <1>1, <2>1, <2>5, <3>1 DEF RunningHold, Pending
      <4>. QED
        BY <2>1, <4>1
    <3>2. CASE h \in trying.hashes
      BY <2>1, <2>5, <3>2
    <3>. QED
      BY <2>1, <3>1, <3>2
  <2>. QED
    BY <2>4, <2>5 DEF Books, RunningHold
<1>12. CASE PreemptVictim
  <2>. DEFINE v == Victim
              mine == {t \in Elements(scheduled) : t.req = v}
  <2>1. /\ v \in Elements(running) /\ v \in Request
        /\ pc = "allocate" /\ trying.req \in Elements(running) /\ trying.req \notin waiting
        /\ running' = Without(running, {v}) /\ waiting' = waiting \cup {v}
        /\ scheduled' = Without(scheduled, mine)
        /\ budget' = budget + Slots(UNION {t.hashes : t \in mine})
        /\ idx' = IF mine = {} THEN idx ELSE idx - 1
        /\ ecm' = FreeRequest(ecm, v)
        /\ computed' = [computed EXCEPT ![v] = 0]
        /\ pc' = IF v = trying.req THEN "finish" ELSE pc
        /\ trying' = IF v = trying.req THEN <<>> ELSE trying
    BY <1>1, <1>12, PreemptParts
  <2>. HIDE DEF v
  <2>2. /\ Sound(ecm') /\ DOMAIN ecm'.cached = DOMAIN ecm.cached /\ ecm'.free = ecm.free
        /\ \A h \in DOMAIN ecm.cached : ecm'.cached[h] = ecm.cached[h] \ {v}
    BY <1>1, <2>1, FreeRequestSound
  <2>3. /\ running' \in Seq(Request) /\ Distinct(running')
        /\ Elements(running') = Elements(running) \ {v}
    BY <1>1, <2>1, LeaveRunning
  <2>4. scheduled' \in Seq(Trial)
    <3>. HIDE DEF mine
    <3>. QED
      BY <1>1, <2>1, WithoutElements
  <2>5. budget' \in Int /\ idx' \in Int
    <3>1. UNION {t.hashes : t \in mine} \in SUBSET Hash
      BY <1>1, ProperParts
    <3>2. Slots(UNION {t.hashes : t \in mine}) \in Nat
      BY <3>1, SlotsFinite
    <3>. HIDE DEF mine
    <3>. QED
      BY <1>1, <2>1, <3>2
  <2>6. computed' \in [Request -> Nat]
    BY <1>1, <2>1
  <2>7. pc' = "allocate" => TryingFits'
    <3>. SUFFICES ASSUME pc' = "allocate" PROVE TryingFits'
      OBVIOUS
    <3>1. v # trying.req /\ trying' = trying
      BY <2>1
    <3>. QED
      BY <1>1, <2>1, <2>2, <2>3, <3>1 DEF TryingFits
  <2>8. Proper'
    <3>1. Elements(running') \cap waiting' = {} /\ waiting' \in SUBSET Request
      BY <1>1, <2>1, <2>3
    <3>2. pc' \in {"finish", "allocate"}
      BY <2>1
    <3>3. /\ Len(scheduled') \in Nat /\ Len(scheduled') <= Len(scheduled)
          /\ mine # {} => Len(scheduled') < Len(scheduled)
      <4>1. Elements(scheduled) \cap mine = mine
        OBVIOUS
      <4>. HIDE DEF mine
      <4>. QED
        BY <1>1, <2>1, <4>1, WithoutShorter
    <3>4. Len(scheduled) \in Nat /\ idx >= Len(scheduled) + 1
      BY <1>1, <2>1, ProperParts DEF Proper, Placed
    <3>5. Placed'
      <4>. HIDE DEF mine
      <4>. QED
        BY <1>1, <2>1, <3>3, <3>4 DEF Placed
    <3>. QED
      BY <2>2, <2>3, <2>4, <2>5, <2>6, <2>7, <3>1, <3>2, <3>5 DEF Proper
  <2>9. ASSUME ~Eagle, NEW h \in DOMAIN ecm'.cached, NEW q \in ecm'.cached[h]
        PROVE  q \in Elements(running')
    <3>1. q \in ecm.cached[h] /\ q # v /\ h \in DOMAIN ecm.cached
      BY <2>2, <2>9
    <3>2. q \in Elements(running)
      BY <1>1, <2>1, <2>9, <3>1 DEF RunningHold, Pending
    <3>. QED
      BY <2>3, <3>1, <3>2
  <2>. QED
    BY <2>8, <2>9 DEF Books, RunningHold
<1>13. CASE RefuseWaiting
  <2>. DEFINE r == trying.req
  <2>1. /\ pc = "allocate" /\ r \in waiting /\ ecm' = FreeRequest(ecm, r) /\ pc' = "finish"
        /\ UNCHANGED <<running, waiting, computed, idx, budget, scheduled>>
    BY <1>13 DEF RefuseWaiting
  <2>2. /\ Sound(ecm') /\ DOMAIN ecm'.cached = DOMAIN ecm.cached
        /\ \A h \in DOMAIN ecm.cached : ecm'.cached[h] = ecm.cached[h] \ {r}
    BY <1>1, <2>1, r \in Request, FreeRequestSound
  <2>3. Proper'
    BY <1>1, <2>1, <2>2 DEF Proper, Placed
  <2>4. ASSUME ~Eagle, NEW h \in DOMAIN ecm'.cached, NEW q \in ecm'.cached[h]
        PROVE  q \in Elements(running')
    BY <1>1, <2>1, <2>2, <2>4 DEF RunningHold, Pending
  <2>. QED
    BY <2>3, <2>4 DEF Books, RunningHold
<1>14. CASE FinishStep
  <2>1. /\ pc \in {"waiting", "finish"} /\ pc' = "idle" /\ scheduled' = <<>> /\ idx' = 1
        /\ budget' = ComputeBudget /\ UNCHANGED <<running, waiting>>
        /\ computed' = [r \in Request |->
             IF \E t \in Elements(scheduled) : t.req = r
             THEN Upto(CHOOSE t \in Elements(scheduled) : t.req = r) ELSE computed[r]]
    BY <1>14 DEF FinishStep
  <2>2. /\ Sound(ecm') /\ DOMAIN ecm'.cached = DOMAIN ecm.cached
        /\ \A h \in DOMAIN ecm.cached : ecm'.cached[h] \subseteq ecm.cached[h]
    BY <1>1, <1>14, FinishStepParts
  <2>3. computed' \in [Request -> Nat]
    <3>1. ASSUME NEW r \in Request PROVE computed'[r] \in Nat
      <4>1. CASE \E t \in Elements(scheduled) : t.req = r
        <5>1. computed'[r] = Upto(CHOOSE t \in Elements(scheduled) : t.req = r)
          BY <2>1, <4>1
        <5>2. (CHOOSE t \in Elements(scheduled) : t.req = r) \in Elements(scheduled)
          BY <4>1
        <5>. QED
          BY <1>1, <5>1, <5>2, ProperParts
      <4>2. CASE ~\E t \in Elements(scheduled) : t.req = r
        BY <1>1, <2>1, <4>2
      <4>. QED
        BY <4>1, <4>2
    <3>2. DOMAIN computed' = Request /\ computed' = [r \in Request |-> computed'[r]]
      BY <2>1
    <3>. QED
      BY <3>1, <3>2
  <2>4. scheduled' \in Seq(Trial) /\ budget' \in Int /\ idx' \in Int
    BY <2>1, EncoderAssumption
  <2>5. Proper'
    BY <1>1, <2>1, <2>2, <2>3, <2>4 DEF Proper, Placed
  <2>6. RunningHold => RunningHold'
    BY <2>1, <2>2 DEF RunningHold, Pending
  <2>. QED
    BY <1>1, <2>5, <2>6 DEF Books
<1>15. ASSUME NEW r \in Request, FinishRequest(r) PROVE Books'
  <2>1. /\ pc = "idle" /\ running' = Without(running, {r}) /\ waiting' = waiting \ {r}
        /\ computed' = [computed EXCEPT ![r] = 0] /\ ecm' = FreeRequest(ecm, r)
        /\ UNCHANGED <<pc, idx, budget, scheduled>>
    BY <1>15 DEF FinishRequest, stepVars
  <2>2. /\ Sound(ecm') /\ DOMAIN ecm'.cached = DOMAIN ecm.cached
        /\ \A h \in DOMAIN ecm.cached : ecm'.cached[h] = ecm.cached[h] \ {r}
    BY <1>1, <2>1, FreeRequestSound
  <2>3. /\ running' \in Seq(Request) /\ Distinct(running')
        /\ Elements(running') = Elements(running) \ {r}
    BY <1>1, <2>1, LeaveRunning
  <2>4. computed' \in [Request -> Nat]
    BY <1>1, <2>1
  <2>5. Proper'
    BY <1>1, <2>1, <2>2, <2>3, <2>4 DEF Proper, Placed
  <2>6. ASSUME ~Eagle, NEW h \in DOMAIN ecm'.cached, NEW q \in ecm'.cached[h]
        PROVE  q \in Elements(running')
    BY <1>1, <2>1, <2>2, <2>3, <2>6 DEF RunningHold, Pending
  <2>. QED
    BY <2>5, <2>6 DEF Books, RunningHold
<1>16. CASE ResetEncoderCache
  <2>1. pc = "idle" /\ ecm' = EmptyCache /\ UNCHANGED <<running, waiting, computed, pc, idx, budget, scheduled>>
    BY <1>16 DEF ResetEncoderCache, stepVars
  <2>2. Sound(ecm') /\ DOMAIN ecm'.cached = {}
    BY <2>1, EmptySound
  <2>3. Proper'
    BY <1>1, <2>1, <2>2 DEF Proper, Placed
  <2>4. RunningHold'
    BY <2>2 DEF RunningHold
  <2>. QED
    BY <2>3, <2>4 DEF Books
<1>. QED
  BY <1>3, <1>4, <1>5, <1>6, <1>7, <1>9, <1>10, <1>11, <1>12, <1>13, <1>14, <1>15, <1>16
     DEF Next

-----------------------------------------------------------------------------
\* The books are straight in every state.
LEMMA AlwaysBooks == Spec => []Books
<1>1. Init => Books
  BY InitBooks
<1>2. Books /\ [Next]_vars => Books'
  BY StepBooks
<1>. QED
  BY <1>1, <1>2, PTL DEF Spec

\* The counters of EncoderCacheManager are those of its entries, and never negative,
\* whatever is tried, refused, preempted and evicted, under every configuration.
THEOREM CountersCorrect == Spec => []CountersMatch
<1>1. Books => CountersMatch
  BY DEF Books, Proper, Sound, Refd, CountersMatch, Referenced
<1>. QED
  BY <1>1, AlwaysBooks, PTL

\* Without a drafter an entry is held by requests that run, or are about to, only:
\* a waiting request that is refused leaves no reference behind.
THEOREM SlotsCorrect == ASSUME ~Eagle PROVE Spec => []SlotsMatchEntries
<1>1. Books => SlotsMatchEntries
  BY DEF Books, Proper, Sound, Refd, CountersMatch, Referenced, RunningHold, SlotsMatchEntries
<1>2. Spec => []Books
  BY AlwaysBooks
<1>. QED
  BY <1>1, <1>2, PTL

-----------------------------------------------------------------------------
(* What is scheduled in a step                                             *)

\* A list with one more element.
LEMMA AppendAdds ==
  ASSUME NEW T, NEW s \in Seq(T), NEW e \in T
  PROVE  Elements(Append(s, e)) = Elements(s) \cup {e}
<1>1. /\ Len(s) \in Nat /\ DOMAIN s = 1 .. Len(s) /\ DOMAIN Append(s, e) = 1 .. Len(s) + 1
      /\ Append(s, e)[Len(s) + 1] = e /\ \A i \in 1 .. Len(s) : Append(s, e)[i] = s[i]
  BY AppendProperties
<1>2. ASSUME NEW x \in Elements(s) PROVE x \in Elements(Append(s, e))
  BY <1>1 DEF Elements
<1>3. e \in Elements(Append(s, e))
  BY <1>1, Len(s) + 1 \in DOMAIN Append(s, e) DEF Elements
<1>4. ASSUME NEW x \in Elements(Append(s, e)) PROVE x \in Elements(s) \cup {e}
  <2>1. PICK i \in 1 .. Len(s) + 1 : x = Append(s, e)[i]
    BY <1>1 DEF Elements
  <2>2. CASE i = Len(s) + 1
    BY <1>1, <2>1, <2>2
  <2>3. CASE i # Len(s) + 1
    <3>1. i \in DOMAIN s /\ x = s[i]
      BY <1>1, <2>1, <2>3
    <3>. QED
      BY <3>1 DEF Elements
  <2>. QED
    BY <2>2, <2>3
<1>. QED
  BY <1>2, <1>3, <1>4

\* The scheduler is taking the running requests.
AtRunning == pc = "running" \/ (pc = "allocate" /\ trying.req \notin waiting)

\* A request is scheduled once, and stays in the running list.  Those that are
\* scheduled come before the index, the one that is tried does not come after it:
\* under the priority policy a victim may leave the list before the index.
Listed ==
  /\ \A t, u \in Elements(scheduled) : t.req = u.req => t = u
  /\ \A t \in Elements(scheduled) : t.req \in Elements(running)
  /\ pc = "idle" => scheduled = <<>> /\ ecm.freed = {}
  /\ AtRunning => \A t \in Elements(scheduled) :
                    \E p \in 1 .. Len(running) : p < idx /\ running[p] = t.req
  /\ pc = "allocate" /\ trying.req \notin waiting =>
       /\ \A t \in Elements(scheduled) : t.req # trying.req
       /\ \E p \in 1 .. Len(running) :
            p <= idx /\ running[p] = trying.req /\ (Policy = "FCFS" => p = idx)

\* The request that is tried is not scheduled yet.
LEMMA TryingUnscheduled ==
  ASSUME Proper, Listed, pc = "allocate", NEW t \in Elements(scheduled)
  PROVE  t.req # trying.req
<1>1. t.req \in Elements(running) /\ Elements(running) \cap waiting = {}
  BY DEF Proper, Listed
<1>. QED
  BY <1>1 DEF Listed

\* First come first served, the victim is not scheduled.
LEMMA VictimUnscheduled ==
  ASSUME Policy = "FCFS", Proper, Listed, PreemptVictim
  PROVE  /\ {t \in Elements(scheduled) : t.req = Victim} = {}
         /\ scheduled' \in Seq(Trial) /\ Elements(scheduled') = Elements(scheduled) /\ idx' = idx
         /\ Len(running) \in Nat \ {0} /\ Victim = running[Len(running)]
         /\ idx \in 1 .. Len(running) /\ running[idx] = trying.req
<1>1. /\ pc = "allocate" /\ trying.req \in Elements(running) /\ trying.req \notin waiting
      /\ scheduled' = Without(scheduled, {t \in Elements(scheduled) : t.req = Victim})
      /\ idx' = IF {t \in Elements(scheduled) : t.req = Victim} = {} THEN idx ELSE idx - 1
  BY PreemptParts
<1>2. /\ idx \in 1 .. Len(running) /\ running[idx] = trying.req
      /\ \A t \in Elements(scheduled) :
           \E p \in 1 .. Len(running) : p < idx /\ running[p] = t.req
  <2>1. PICK p \in 1 .. Len(running) : running[p] = trying.req /\ p = idx
    BY <1>1 DEF Listed
  <2>. QED
    BY <1>1, <2>1 DEF Listed, AtRunning
<1>3. /\ Distinct(running) /\ DOMAIN running = 1 .. Len(running) /\ Len(running) \in Nat
      /\ idx \in Int /\ scheduled \in Seq(Trial)
  BY ProperParts DEF Proper
<1>4. Victim = running[Len(running)] /\ Len(running) \in 1 .. Len(running)
  BY <1>2, <1>3 DEF Victim
<1>5. ASSUME NEW t \in Elements(scheduled) PROVE t.req # Victim
  <2>1. PICK p \in 1 .. Len(running) : p < idx /\ running[p] = t.req
    BY <1>2
  <2>2. p \in DOMAIN running /\ p < Len(running)
    <3>1. p < idx /\ idx \in 1 .. Len(running) /\ p \in 1 .. Len(running)
      BY <1>2, <2>1
    <3>. QED
      BY <1>3, <3>1
  <2>. QED
    BY <1>3, <1>4, <2>1, <2>2 DEF Distinct
<1>6. {t \in Elements(scheduled) : t.req = Victim} = {}
  BY <1>5
<1>7. scheduled' \in Seq(Trial) /\ Elements(scheduled') = Elements(scheduled)
  <2>1. scheduled' = Without(scheduled, {})
    BY <1>1, <1>6
  <2>2. Without(scheduled, {}) \in Seq(Trial) /\ Elements(Without(scheduled, {})) = Elements(scheduled) \ {}
    <3>1. scheduled \in Seq(Trial)
      BY <1>3
    <3>. QED
      BY <3>1, WithoutElements
  <2>. QED
    BY <2>1, <2>2
<1>. QED
  BY <1>1, <1>2, <1>3, <1>4, <1>6, <1>7

\* What is scheduled for a victim is taken back.
LEMMA TakenBack ==
  ASSUME Proper, PreemptVictim
  PROVE  /\ scheduled' \in Seq(Trial)
         /\ Elements(scheduled') = {t \in Elements(scheduled) : t.req # Victim}
<1>. DEFINE mine == {t \in Elements(scheduled) : t.req = Victim}
<1>1. scheduled' = Without(scheduled, mine)
  BY PreemptParts
<1>2. scheduled \in Seq(Trial)
  BY DEF Proper
<1>3. Without(scheduled, mine) \in Seq(Trial) /\ Elements(Without(scheduled, mine)) = Elements(scheduled) \ mine
  BY <1>2, WithoutElements
<1>. QED
  BY <1>1, <1>3

\* A preemption keeps the order: a victim that was scheduled stood before the index,
\* which moves back with the others.
LEMMA PreemptListed ==
  ASSUME Proper, Listed, PreemptVictim
  PROVE  Listed'
<1>. DEFINE L == Len(running)
            mine == {t \in Elements(scheduled) : t.req = Victim}
<1>1. /\ Victim \in Elements(running) /\ pc = "allocate" /\ trying.req \notin waiting
      /\ running' = Without(running, {Victim}) /\ waiting' = waiting \cup {Victim}
      /\ idx' = IF mine = {} THEN idx ELSE idx - 1
      /\ pc' = IF Victim = trying.req THEN "finish" ELSE pc
      /\ trying' = IF Victim = trying.req THEN <<>> ELSE trying
  BY PreemptParts
<1>2. /\ running \in Seq(Request) /\ Distinct(running) /\ idx \in Int
      /\ L \in Nat /\ DOMAIN running = 1 .. L
  BY ProperParts DEF Proper
<1>3. Elements(scheduled') = {t \in Elements(scheduled) : t.req # Victim}
  BY TakenBack
<1>4. Elements(running') = Elements(running) \ {Victim}
  BY <1>1, LeaveRunning
<1>5. /\ \A t, u \in Elements(scheduled') : t.req = u.req => t = u
      /\ \A t \in Elements(scheduled') : t.req \in Elements(running')
  BY <1>3, <1>4 DEF Listed
<1>6. PICK v \in 1 .. L : running[v] = Victim
  BY <1>1, <1>2 DEF Elements
<1>7. /\ Len(running') = L - 1
      /\ \A k \in 1 .. L - 1 : running'[k] = IF k < v THEN running[k] ELSE running[k + 1]
  <2>1. /\ Len(Without(running, {running[v]})) = L - 1
        /\ \A k \in 1 .. L - 1 :
             Without(running, {running[v]})[k] = IF k < v THEN running[k] ELSE running[k + 1]
    BY <1>2, WithoutOne
  <2>. QED
    BY <1>1, <1>6, <2>1
<1>8. mine # {} => v < idx
  <2>1. ASSUME NEW t \in Elements(scheduled), t.req = Victim PROVE v < idx
    <3>1. PICK p \in 1 .. L : p < idx /\ running[p] = t.req
      BY <1>1 DEF Listed, AtRunning
    <3>2. p = v
      BY <1>2, <1>6, <2>1, <3>1 DEF Distinct
    <3>. QED
      BY <3>1, <3>2
  <2>. QED
    BY <2>1
<1>9. ASSUME NEW p \in 1 .. L, running[p] # Victim
      PROVE  \E q \in 1 .. Len(running') :
               /\ running'[q] = running[p]
               /\ p < idx => q < idx'
               /\ p <= idx => q <= idx'
               /\ v = L => q = p
  <2>1. p # v
    BY <1>6, <1>9
  <2>. DEFINE q == IF p < v THEN p ELSE p - 1
  <2>2. q \in 1 .. L - 1 /\ running'[q] = running[p]
    BY <1>2, <1>7, <2>1
  <2>3. (p < idx => q < idx') /\ (p <= idx => q <= idx') /\ (v = L => q = p)
    <3>1. idx' = idx \/ (idx' = idx - 1 /\ v < idx)
      BY <1>1, <1>8
    <3>2. L \in Nat /\ p \in Nat /\ v \in Nat /\ p <= L /\ v <= L /\ idx \in Int
      BY <1>2
    <3>3. CASE p < v
      <4>1. q = p /\ (p <= idx => p <= idx') /\ (p < idx => p < idx')
        BY <3>1, <3>2, <3>3
      <4>. QED
        BY <4>1
    <3>4. CASE p > v
      <4>1. q = p - 1 /\ v # L /\ (p <= idx => p - 1 <= idx') /\ (p < idx => p - 1 < idx')
        BY <3>1, <3>2, <3>4
      <4>. QED
        BY <4>1
    <3>. QED
      BY <2>1, <3>2, <3>3, <3>4
  <2>4. q \in 1 .. Len(running')
    BY <1>7, <2>2
  <2>. HIDE DEF q
  <2>. WITNESS q \in 1 .. Len(running')
  <2>. QED
    BY <2>2, <2>3
<1>10. CASE Victim = trying.req
  BY <1>1, <1>5, <1>10 DEF Listed, AtRunning
<1>11. CASE Victim # trying.req
  <2>1. pc' = "allocate" /\ trying' = trying
    BY <1>1, <1>11
  <2>2. ASSUME NEW t \in Elements(scheduled')
        PROVE  /\ t.req # trying.req
               /\ \E q \in 1 .. Len(running') : q < idx' /\ running'[q] = t.req
    <3>1. t \in Elements(scheduled) /\ t.req # Victim
      BY <1>3
    <3>2. PICK p \in 1 .. L : p < idx /\ running[p] = t.req
      BY <1>1, <3>1 DEF Listed, AtRunning
    <3>3. \E q \in 1 .. Len(running') : running'[q] = running[p] /\ q < idx'
      BY <1>9, <3>1, <3>2
    <3>4. t.req # trying.req
      BY <1>1, <3>1 DEF Listed
    <3>. QED
      BY <3>2, <3>3, <3>4
  <2>3. \E q \in 1 .. Len(running') :
          q <= idx' /\ running'[q] = trying.req /\ (Policy = "FCFS" => q = idx')
    <3>1. PICK p \in 1 .. L : p <= idx /\ running[p] = trying.req /\ (Policy = "FCFS" => p = idx)
      BY <1>1 DEF Listed
    <3>2. PICK q \in 1 .. Len(running') :
            running'[q] = running[p] /\ (p <= idx => q <= idx') /\ (v = L => q = p)
      BY <1>9, <1>11, <3>1
    <3>3. CASE Policy # "FCFS"
      BY <3>1, <3>2, <3>3
    <3>4. CASE Policy = "FCFS"
      <4>1. idx' = idx /\ Victim = running[L] /\ L \in 1 .. L
        BY <3>4, VictimUnscheduled
      <4>2. v = L
        BY <1>2, <1>6, <4>1 DEF Distinct
      <4>. QED
        BY <3>1, <3>2, <3>4, <4>1, <4>2
    <3>. QED
      BY <3>3, <3>4
  <2>. QED
    BY <1>5, <2>1, <2>2, <2>3 DEF Listed, AtRunning
<1>. QED
  BY <1>10, <1>11

\* Nothing is scheduled at first.
LEMMA InitListed == Init => Listed
  BY DEF Init, Listed, AtRunning, Elements, EmptyCache

\* Every step keeps it.
LEMMA StepListed ==
  ASSUME Proper, Listed, [Next]_vars
  PROVE  Listed'
<1>1. /\ running \in Seq(Request) /\ Distinct(running) /\ Elements(running) \subseteq Request
      /\ Len(running) \in Nat /\ DOMAIN running = 1 .. Len(running)
      /\ \A i \in 1 .. Len(running) : running[i] \in Elements(running)
      /\ Elements(running) \cap waiting = {} /\ idx \in Int /\ scheduled \in Seq(Trial)
      /\ computed \in [Request -> Nat] /\ Sound(ecm)
  BY ProperParts DEF Proper
<1>2. Elements(<<>>) = {}
  BY DEF Elements
<1>3. ASSUME UNCHANGED <<ecm, running, waiting, pc, idx, trying, scheduled>> PROVE Listed'
  BY <1>3 DEF Listed, AtRunning
<1>4. ASSUME UNCHANGED <<running, scheduled>>, pc' \in {"waiting", "finish"} PROVE Listed'
  BY <1>4 DEF Listed, AtRunning
<1>5. ASSUME scheduled' = <<>>, pc' = "idle" /\ ecm'.freed = {} PROVE Listed'
  BY <1>2, <1>5 DEF Listed, AtRunning
<1>6. CASE UNCHANGED vars
  BY <1>3, <1>6 DEF vars, stepVars
<1>7. CASE Execute
  BY <1>3, <1>7 DEF Execute, stepVars
<1>8. ASSUME NEW r \in Request, AddRequest(r) PROVE Listed'
  <2>1. pc = "idle" /\ UNCHANGED <<ecm, pc, scheduled>>
    BY <1>8 DEF AddRequest, stepVars
  <2>. QED
    BY <1>5, <2>1 DEF Listed
<1>9. CASE StartStep
  <2>1. scheduled' = <<>> /\ pc' = "running" /\ running' = running
    BY <1>9 DEF StartStep
  <2>. QED
    BY <1>2, <2>1 DEF Listed, AtRunning
<1>10. CASE EndRunning
  <2>1. UNCHANGED <<running, scheduled>> /\ pc' \in {"waiting", "finish"}
    BY <1>10 DEF EndRunning
  <2>. QED
    BY <1>4, <2>1
<1>11. ASSUME NEW r \in Request, NEW num \in 1 .. PromptLen[r], TryRunning(r, num) PROVE Listed'
  <2>1. /\ pc = "running" /\ idx <= Len(running) /\ r = running[idx]
        /\ Try(r, computed[r], num, "running")
        /\ idx' = IF pc' = "running" THEN idx + 1 ELSE idx
        /\ UNCHANGED <<running, waiting, computed, scheduled>>
    BY <1>11 DEF TryRunning
  <2>2. Len(scheduled) \in Nat /\ idx >= Len(scheduled) + 1
    BY <1>1, <2>1 DEF Proper, Placed
  <2>3. idx \in 1 .. Len(running) /\ r \in Elements(running)
    BY <1>1, <2>1, <2>2
  <2>4. pc' = "running" \/ (pc' = "allocate" /\ trying'.req = r)
    BY <2>1 DEF Try
  <2>5. \A t \in Elements(scheduled) :
          \E p \in 1 .. Len(running) : p < idx /\ running[p] = t.req
    BY <2>1 DEF Listed, AtRunning
  <2>6. \A t \in Elements(scheduled) :
          \E p \in 1 .. Len(running) : p < idx' /\ running[p] = t.req
    <3>1. \A p \in 1 .. Len(running) : p < idx => p < idx'
      BY <1>1, <2>1
    <3>. QED
      BY <2>5, <3>1
  <2>7. pc' = "allocate" => idx' = idx
    BY <2>1
  <2>8. ASSUME NEW t \in Elements(scheduled) PROVE t.req # r
    <3>1. PICK p \in 1 .. Len(running) : p < idx /\ running[p] = t.req
      BY <2>5
    <3>2. p # idx
      BY <1>1, <3>1
    <3>. QED
      BY <1>1, <2>1, <2>3, <3>1, <3>2 DEF Distinct
  <2>9. \E p \in 1 .. Len(running) : p <= idx /\ running[p] = r /\ (Policy = "FCFS" => p = idx)
    BY <1>1, <2>1, <2>3
  <2>. QED
    BY <2>1, <2>3, <2>4, <2>6, <2>7, <2>8, <2>9 DEF Listed, AtRunning
<1>12. ASSUME NEW r \in Request, NEW base \in 0 .. PromptLen[r], NEW num \in 0 .. PromptLen[r],
              TryWaiting(r, base, num)
       PROVE  Listed'
  <2>1. /\ r \in waiting /\ Try(r, base, num, "finish") /\ UNCHANGED <<running, waiting, scheduled>>
    BY <1>12 DEF TryWaiting
  <2>2. pc' = "finish" \/ (pc' = "allocate" /\ trying'.req = r)
    BY <2>1 DEF Try
  <2>. QED
    BY <2>1, <2>2 DEF Listed, AtRunning
<1>13. CASE Schedule
  <2>. DEFINE r == trying.req
  <2>1. /\ r \in Request /\ trying \in Trial /\ pc = "allocate"
        /\ Elements(running') = Elements(running) \cup {r}
        /\ scheduled' = Append(scheduled, trying)
        /\ \/ r \in waiting /\ pc' = "waiting"
           \/ r \notin waiting /\ pc' = "running" /\ idx' = idx + 1 /\ running' = running
    BY <1>13, ScheduleParts
  <2>2. Elements(scheduled') = Elements(scheduled) \cup {trying}
    BY <1>1, <2>1, AppendAdds
  <2>3. \A t \in Elements(scheduled) : t.req # r
    BY <2>1, TryingUnscheduled
  <2>4. /\ \A t, u \in Elements(scheduled') : t.req = u.req => t = u
        /\ \A t \in Elements(scheduled') : t.req \in Elements(running')
    BY <2>1, <2>2, <2>3 DEF Listed
  <2>5. CASE pc' = "waiting"
    BY <2>4, <2>5 DEF Listed, AtRunning
  <2>6. CASE pc' = "running"
    <3>1. r \notin waiting /\ idx' = idx + 1 /\ running' = running
      BY <2>1, <2>6
    <3>2. PICK k \in 1 .. Len(running) : k <= idx /\ running[k] = r
      BY <2>1, <3>1 DEF Listed
    <3>3. \A t \in Elements(scheduled) :
            \E p \in 1 .. Len(running) : p < idx /\ running[p] = t.req
      BY <2>1, <3>1 DEF Listed, AtRunning
    <3>4. ASSUME NEW t \in Elements(scheduled')
          PROVE  \E p \in 1 .. Len(running) : p < idx + 1 /\ running[p] = t.req
      <4>1. CASE t \in Elements(scheduled)
        <5>1. PICK p \in 1 .. Len(running) : p < idx /\ running[p] = t.req
          BY <3>3, <4>1
        <5>. QED
          BY <1>1, <5>1
      <4>2. CASE t = trying
        BY <1>1, <3>2, <4>2
      <4>. QED
        BY <2>2, <4>1, <4>2
    <3>. QED
      BY <2>4, <2>6, <3>1, <3>4 DEF Listed, AtRunning
  <2>. QED
    BY <2>1, <2>5, <2>6
<1>14. CASE PreemptVictim
  <2>1. Listed'
    BY <1>14, PreemptListed
  <2>. QED
    BY <2>1
<1>15. CASE RefuseWaiting
  <2>1. UNCHANGED <<running, scheduled>> /\ pc' = "finish"
    BY <1>15 DEF RefuseWaiting
  <2>. QED
    BY <1>4, <2>1
<1>16. CASE FinishStep
  <2>1. scheduled' = <<>> /\ pc' = "idle"
    BY <1>16 DEF FinishStep
  <2>. QED
    BY <1>5, <1>16, <2>1, FinishStepParts
<1>17. ASSUME NEW r \in Request, FinishRequest(r) PROVE Listed'
  <2>1. pc = "idle" /\ ecm' = FreeRequest(ecm, r) /\ UNCHANGED <<pc, scheduled>>
    BY <1>17 DEF FinishRequest, stepVars
  <2>2. ecm'.freed = ecm.freed
    BY <1>1, <2>1, FreeRequestSound
  <2>. QED
    BY <1>5, <2>1, <2>2 DEF Listed
<1>18. CASE ResetEncoderCache
  <2>1. pc = "idle" /\ ecm' = EmptyCache /\ UNCHANGED <<pc, scheduled>>
    BY <1>18 DEF ResetEncoderCache, stepVars
  <2>. QED
    BY <1>5, <2>1 DEF Listed, EmptyCache
<1>. QED
  BY <1>6, <1>7, <1>8, <1>9, <1>10, <1>11, <1>12, <1>13, <1>14, <1>15, <1>16, <1>17, <1>18 DEF Next

-----------------------------------------------------------------------------
(* The worker follows the manager                                          *)

Batch == [freed : SUBSET Hash, compute : SUBSET Hash, need : SUBSET Hash]

\* Entry h is in the store (j = 0), or computed by the j-th output on its way.
Source(j, h) == IF j = 0 THEN h \in store ELSE h \in batches[j].compute

\* One more output on its way is served after the others.
LEMMA ServedAppend ==
  ASSUME batches \in Seq(Batch), NEW b \in Batch, batches' = Append(batches, b), store' = store
  PROVE  /\ batches' \in Seq(Batch) /\ Len(batches) \in Nat /\ Len(batches') = Len(batches) + 1
         /\ batches'[Len(batches) + 1] = b
         /\ \A n \in 1 .. Len(batches) : batches'[n] = batches[n]
         /\ \A n \in 0 .. Len(batches) : Served(n)' = Served(n)
         /\ Served(Len(batches))' = After(Served(Len(batches)), b)
<1>0. Len(batches) \in Nat
  OBVIOUS
<1>. PICK L \in Nat : L = Len(batches)
  BY <1>0
<1>1. /\ L \in Nat /\ Len(batches') = L + 1 /\ batches'[L + 1] = b /\ batches' \in Seq(Batch)
      /\ \A n \in 1 .. L : batches'[n] = batches[n]
  BY AppendProperties
<1>2. \A j \in 0 .. L : \A h : Source(j, h)' <=> Source(j, h)
  BY <1>1 DEF Source
<1>3. \A h : Source(L + 1, h)' <=> h \in b.compute
  BY <1>1 DEF Source
<1>4. ASSUME NEW n \in 0 .. L PROVE Served(n)' = Served(n)
  <2>1. \A k \in 1 .. n : batches'[k] = batches[k]
    BY <1>1
  <2>2. ASSUME NEW h \in Hash, NEW j \in 0 .. n
        PROVE  /\ Source(j, h)' <=> Source(j, h)
               /\ (\A k \in j + 1 .. n : h \notin batches'[k].freed)
                    <=> \A k \in j + 1 .. n : h \notin batches[k].freed
    BY <1>1, <1>2, <2>1
  <2>. QED
    BY <2>2 DEF Served, Source
<1>5. ASSUME NEW h \in Hash
      PROVE  h \in Served(L + 1)' <=> h \in After(Served(L), b)
  <2>1. h \in Served(L + 1)' <=> \E j \in 0 .. L + 1 :
          Source(j, h)' /\ \A k \in j + 1 .. L + 1 : h \notin batches'[k].freed
    BY DEF Served, Source
  <2>2. h \in Served(L) <=> \E j \in 0 .. L :
          Source(j, h) /\ \A k \in j + 1 .. L : h \notin batches[k].freed
    BY DEF Served, Source
  <2>3. ASSUME NEW j \in 0 .. L
        PROVE  (\A k \in j + 1 .. L + 1 : h \notin batches'[k].freed)
                 <=> (\A k \in j + 1 .. L : h \notin batches[k].freed) /\ h \notin b.freed
    <3>1. \A k \in j + 1 .. L : k \in 1 .. L /\ k \in j + 1 .. L + 1
      BY <1>1
    <3>2. L + 1 \in j + 1 .. L + 1 /\ \A k \in j + 1 .. L + 1 : k = L + 1 \/ k \in j + 1 .. L
      BY <1>1
    <3>. QED
      BY <1>1, <3>1, <3>2
  <2>4. (\E j \in 0 .. L :
           Source(j, h)' /\ \A k \in j + 1 .. L + 1 : h \notin batches'[k].freed)
          <=> h \in Served(L) /\ h \notin b.freed
    BY <1>2, <2>2, <2>3
  <2>5. \A k \in L + 1 + 1 .. L + 1 : FALSE
    BY <1>1
  <2>6. L + 1 \in 0 .. L + 1 /\ \A j \in 0 .. L + 1 : j = L + 1 \/ j \in 0 .. L
    BY <1>1
  <2>7. \A j \in 0 .. L : j \in 0 .. L + 1
    BY <1>1
  <2>. QED
    BY <1>3, <2>1, <2>4, <2>5, <2>6, <2>7 DEF After
<1>6. Served(L + 1)' \subseteq Hash /\ After(Served(L), b) \subseteq Hash
  BY DEF Served, After, Batch
<1>7. Served(L + 1)' = After(Served(L), b)
  BY <1>5, <1>6
<1>8. Served(Len(batches))' = Served(L + 1)'
  BY <1>1 DEF Served
<1>. QED
  BY <1>1, <1>4, <1>7, <1>8

\* The worker serves the first output.
LEMMA ServedExecute ==
  ASSUME batches \in Seq(Batch), Execute
  PROVE  /\ batches' \in Seq(Batch) /\ Len(batches) \in Nat \ {0} /\ Len(batches') = Len(batches) - 1
         /\ \A n \in 1 .. Len(batches) - 1 : batches'[n] = batches[n + 1]
         /\ \A n \in 0 .. Len(batches) - 1 : Served(n)' = Served(n + 1)
<1>. DEFINE L == Len(batches)
<1>1. batches # <<>> /\ store' = After(store, Head(batches)) /\ batches' = Tail(batches)
  BY DEF Execute
<1>2. /\ L \in Nat \ {0} /\ Len(batches') = L - 1 /\ Head(batches) = batches[1]
      /\ batches' \in Seq(Batch)
      /\ \A n \in 1 .. L - 1 : batches'[n] = batches[n + 1]
  BY <1>1, HeadTailProperties
<1>3. ASSUME NEW n \in 0 .. L - 1 PROVE Served(n)' = Served(n + 1)
  <2>1. ASSUME NEW h \in Hash PROVE h \in Served(n)' <=> h \in Served(n + 1)
    <3>1. h \in Served(n)' <=> \E j \in 0 .. n :
            Source(j, h)' /\ \A k \in j + 1 .. n : h \notin batches'[k].freed
      BY DEF Served, Source
    <3>2. h \in Served(n + 1) <=> \E j \in 0 .. n + 1 :
            Source(j, h) /\ \A k \in j + 1 .. n + 1 : h \notin batches[k].freed
      BY DEF Served, Source
    <3>3. Source(0, h)' <=> (Source(0, h) /\ h \notin batches[1].freed) \/ Source(1, h)
      BY <1>1, <1>2 DEF Source, After
    <3>4. ASSUME NEW j \in 1 .. n PROVE Source(j, h)' <=> Source(j + 1, h)
      BY <1>2 DEF Source
    <3>5. ASSUME NEW j \in 0 .. n
          PROVE  (\A k \in j + 1 .. n : h \notin batches'[k].freed)
                   <=> \A k \in j + 1 + 1 .. n + 1 : h \notin batches[k].freed
      <4>1. ASSUME NEW k \in j + 1 .. n
            PROVE  k + 1 \in j + 1 + 1 .. n + 1 /\ batches'[k] = batches[k + 1]
        BY <1>2
      <4>2. ASSUME NEW k \in j + 1 + 1 .. n + 1
            PROVE  k - 1 \in j + 1 .. n /\ batches'[k - 1] = batches[k]
        BY <1>2
      <4>. QED
        BY <4>1, <4>2
    <3>6. (\A k \in 0 + 1 .. n + 1 : h \notin batches[k].freed)
            <=> h \notin batches[1].freed /\ \A k \in 0 + 1 + 1 .. n + 1 : h \notin batches[k].freed
      <4>1. /\ 1 \in 0 + 1 .. n + 1 /\ \A k \in 0 + 1 .. n + 1 : k = 1 \/ k \in 0 + 1 + 1 .. n + 1
            /\ \A k \in 0 + 1 + 1 .. n + 1 : k \in 0 + 1 .. n + 1
        BY <1>2
      <4>. QED
        BY <4>1
    <3>7. ASSUME h \in Served(n)' PROVE h \in Served(n + 1)
      <4>1. PICK j \in 0 .. n : Source(j, h)' /\ \A k \in j + 1 .. n : h \notin batches'[k].freed
        BY <3>1, <3>7
      <4>2. \A k \in j + 1 + 1 .. n + 1 : h \notin batches[k].freed
        BY <3>5, <4>1
      <4>3. CASE j = 0
        <5>1. CASE Source(1, h)
          BY <1>2, <3>2, <4>2, <4>3, <5>1, 1 \in 0 .. n + 1, 0 + 1 = 1
        <5>2. CASE Source(0, h) /\ h \notin batches[1].freed
          BY <1>2, <3>2, <3>6, <4>2, <4>3, <5>2, 0 \in 0 .. n + 1
        <5>. QED
          BY <3>3, <4>1, <4>3, <5>1, <5>2
      <4>4. CASE j # 0
        <5>1. j \in 1 .. n /\ j + 1 \in 0 .. n + 1
          BY <1>2, <4>4
        <5>. QED
          BY <3>2, <3>4, <4>1, <4>2, <5>1
      <4>. QED
        BY <4>3, <4>4
    <3>8. ASSUME h \in Served(n + 1) PROVE h \in Served(n)'
      <4>1. PICK j \in 0 .. n + 1 : Source(j, h) /\ \A k \in j + 1 .. n + 1 : h \notin batches[k].freed
        BY <3>2, <3>8
      <4>2. 0 \in 0 .. n /\ 0 + 1 = 1
        BY <1>2
      <4>3. CASE j = 0
        BY <3>1, <3>3, <3>5, <3>6, <4>1, <4>2, <4>3
      <4>4. CASE j = 1
        BY <3>1, <3>3, <3>5, <4>1, <4>2, <4>4
      <4>5. CASE j # 0 /\ j # 1
        <5>1. j - 1 \in 1 .. n /\ j - 1 \in 0 .. n /\ j - 1 + 1 = j
          BY <1>2, <4>5
        <5>. QED
          BY <3>1, <3>4, <3>5, <4>1, <5>1
      <4>. QED
        BY <4>3, <4>4, <4>5
    <3>. QED
      BY <3>7, <3>8
  <2>2. Served(n)' \subseteq Hash /\ Served(n + 1) \subseteq Hash
    BY DEF Served
  <2>. QED
    BY <2>1, <2>2
<1>. QED
  BY <1>2, <1>3

\* What the step computes.
Computing == UNION {t.hashes : t \in Elements(scheduled)}

\* The outputs on their way and the one of this step leave the worker with what the
\* manager counts, and nothing that is scheduled can be evicted.
Followed ==
  /\ batches \in Seq(Batch)
  /\ \A t \in Elements(scheduled) : \A h \in t.hashes :
       h \in DOMAIN ecm.cached /\ t.req \in ecm.cached[h]
  /\ (Served(Len(batches)) \ ecm.freed) \cup Computing = DOMAIN ecm.cached

\* At first both are empty.
LEMMA InitFollowed == Init => Followed
<1>. SUFFICES ASSUME Init PROVE Followed
  OBVIOUS
<1>1. scheduled = <<>> /\ batches = <<>> /\ store = {} /\ ecm = EmptyCache
  BY DEF Init
<1>2. Elements(scheduled) = {} /\ batches \in Seq(Batch) /\ Len(batches) = 0
  BY <1>1 DEF Elements
<1>3. DOMAIN ecm.cached = {}
  BY <1>1, EmptySound
<1>4. Served(0) = {}
  BY <1>1 DEF Served
<1>. QED
  BY <1>2, <1>3, <1>4 DEF Followed, Computing

\* What is looked up is a set of inputs.
LEMMA OutputType ==
  ASSUME Proper
  PROVE  /\ Output \in Batch /\ Output.freed = ecm.freed /\ Output.compute = Computing
         /\ Output.need = UNION {Needed(t) : t \in Elements(scheduled)}
<1>1. /\ \A t \in Elements(scheduled) : t.req \in Request /\ t.hashes \in SUBSET Hash
      /\ Sound(ecm)
  BY ProperParts
<1>2. ecm.freed \in SUBSET Hash
  BY <1>1, SoundParts
<1>3. Computing \in SUBSET Hash
  BY <1>1 DEF Computing
<1>4. ASSUME NEW t \in Elements(scheduled) PROVE Needed(t) \in SUBSET Hash
  <2>1. Elements(Features[t.req]) \subseteq Inputs
    BY <1>1, HashesType DEF Elements
  <2>. QED
    BY <2>1 DEF Needed, Hash
<1>5. UNION {Needed(t) : t \in Elements(scheduled)} \in SUBSET Hash
  BY <1>4
<1>. QED
  BY <1>2, <1>3, <1>5 DEF Output, Batch, Computing

\* Every step keeps it.
LEMMA StepFollowed ==
  ASSUME Policy = "FCFS", Proper, Listed, Followed, [Next]_vars
  PROVE  Followed'
<1>1. /\ running \in Seq(Request) /\ Elements(running) \cap waiting = {} /\ waiting \in SUBSET Request
      /\ scheduled \in Seq(Trial) /\ computed \in [Request -> Nat] /\ Sound(ecm)
      /\ Elements(running) \subseteq Request
      /\ pc = "allocate" => TryingFits
  BY ProperParts DEF Proper
<1>2. /\ batches \in Seq(Batch) /\ Elements(<<>>) = {}
      /\ \A t \in Elements(scheduled) : \A h \in t.hashes :
           h \in DOMAIN ecm.cached /\ t.req \in ecm.cached[h]
      /\ (Served(Len(batches)) \ ecm.freed) \cup Computing = DOMAIN ecm.cached
  BY DEF Followed, Elements
<1>3. ASSUME UNCHANGED <<ecm, scheduled, batches, store>> PROVE Followed'
  BY <1>3 DEF Followed, Served, Computing
<1>4. ASSUME DOMAIN ecm'.cached = DOMAIN ecm.cached, ecm'.freed = ecm.freed,
             Elements(scheduled') = Elements(scheduled), UNCHANGED <<batches, store>>,
             NEW q, \A t \in Elements(scheduled) : t.req # q,
             \A h \in DOMAIN ecm.cached : ecm'.cached[h] = ecm.cached[h] \ {q}
      PROVE  Followed'
  <2>1. Served(Len(batches))' = Served(Len(batches)) /\ Computing' = Computing
    BY <1>4 DEF Served, Computing
  <2>2. \A t \in Elements(scheduled) : \A h \in t.hashes :
          h \in DOMAIN ecm.cached /\ t.req \in ecm'.cached[h]
    BY <1>2, <1>4
  <2>. QED
    BY <1>2, <1>4, <2>1, <2>2 DEF Followed
<1>5. ASSUME UNCHANGED <<scheduled, batches, store>>, NEW r, Evolves(ecm, ecm', r)
      PROVE  Followed'
  <2>1. Served(Len(batches))' = Served(Len(batches)) /\ Computing' = Computing
    BY <1>5 DEF Served, Computing
  <2>2. \A t \in Elements(scheduled) : \A h \in t.hashes :
          h \in DOMAIN ecm'.cached /\ t.req \in ecm'.cached[h]
    BY <1>2, <1>5 DEF Evolves, Refd
  <2>3. Computing \subseteq DOMAIN ecm'.cached
    BY <2>2 DEF Computing
  <2>4. /\ DOMAIN ecm'.cached \subseteq DOMAIN ecm.cached
        /\ ecm'.freed = ecm.freed \cup (DOMAIN ecm.cached \ DOMAIN ecm'.cached)
    BY <1>5 DEF Evolves
  <2>5. (Served(Len(batches)) \ ecm'.freed) \cup Computing = DOMAIN ecm'.cached
    BY <1>2, <2>3, <2>4
  <2>. QED
    BY <1>2, <1>5, <2>1, <2>2, <2>5 DEF Followed
<1>6. CASE UNCHANGED vars
  BY <1>3, <1>6 DEF vars, stepVars
<1>7. CASE Execute
  <2>1. UNCHANGED <<ecm, scheduled>>
    BY <1>7 DEF Execute, stepVars
  <2>2. /\ batches' \in Seq(Batch) /\ Len(batches) \in Nat \ {0} /\ Len(batches') = Len(batches) - 1
        /\ \A n \in 0 .. Len(batches) - 1 : Served(n)' = Served(n + 1)
    BY <1>2, <1>7, ServedExecute
  <2>3. Served(Len(batches))' = Served(Len(batches))
    <3>. PICK n \in 0 .. Len(batches) - 1 : n = Len(batches) - 1
      BY <2>2
    <3>1. Served(Len(batches))' = Served(n)' /\ n + 1 = Len(batches)
      BY <2>2 DEF Served
    <3>. QED
      BY <2>2, <3>1
  <2>. QED
    BY <1>2, <2>1, <2>2, <2>3 DEF Followed, Computing
<1>8. ASSUME NEW r \in Request, AddRequest(r) PROVE Followed'
  BY <1>3, <1>8 DEF AddRequest, stepVars
<1>9. CASE StartStep
  <2>1. scheduled' = scheduled /\ UNCHANGED <<ecm, batches, store>>
    BY <1>9 DEF StartStep, Listed
  <2>. QED
    BY <1>3, <2>1
<1>10. CASE EndRunning
  BY <1>3, <1>10 DEF EndRunning
<1>11. ASSUME NEW r \in Request, NEW num \in 1 .. PromptLen[r], TryRunning(r, num) PROVE Followed'
  <2>1. /\ pc = "running" /\ idx <= Len(running) /\ r = running[idx]
        /\ Try(r, computed[r], num, "running")
        /\ UNCHANGED <<running, waiting, scheduled, batches, store>>
    BY <1>11 DEF TryRunning
  <2>2. /\ Len(running) \in Nat /\ Len(scheduled) \in Nat /\ idx \in Int /\ idx >= Len(scheduled) + 1
        /\ \A i \in 1 .. Len(running) : running[i] \in Elements(running)
    BY <2>1, ProperParts DEF Proper, Placed
  <2>3. r \in Elements(running)
    BY <2>1, <2>2
  <2>4. computed[r] \in Nat /\ num \in Nat \ {0}
    BY <1>1, EncoderAssumption
  <2>5. Evolves(ecm, ecm', r)
    BY <2>1, <2>3, <2>4, TryStep
  <2>. QED
    BY <1>5, <2>1, <2>5
<1>12. ASSUME NEW r \in Request, NEW base \in 0 .. PromptLen[r], NEW num \in 0 .. PromptLen[r],
              TryWaiting(r, base, num)
       PROVE  Followed'
  <2>1. /\ r \in waiting /\ num > 0 /\ Try(r, base, num, "finish")
        /\ UNCHANGED <<running, waiting, scheduled, batches, store>>
    BY <1>12 DEF TryWaiting
  <2>2. base \in Nat /\ num \in Nat \ {0}
    BY <2>1, EncoderAssumption
  <2>3. Evolves(ecm, ecm', r)
    BY <2>1, <2>2, TryStep
  <2>. QED
    BY <1>5, <2>1, <2>3
<1>13. CASE Schedule
  <2>. DEFINE H == trying.hashes
  <2>1. /\ trying \in Trial /\ pc = "allocate"
        /\ DOMAIN ecm'.cached = DOMAIN ecm.cached \cup H
        /\ \A h \in DOMAIN ecm.cached : ecm'.cached[h] = ecm.cached[h]
        /\ \A h \in H : ecm'.cached[h] = {trying.req}
        /\ ecm'.freed = ecm.freed /\ scheduled' = Append(scheduled, trying)
        /\ UNCHANGED <<batches, store>>
    BY <1>13, ScheduleParts
  <2>2. Elements(scheduled') = Elements(scheduled) \cup {trying}
    BY <1>1, <2>1, AppendAdds
  <2>3. Served(Len(batches))' = Served(Len(batches)) /\ Computing' = Computing \cup H
    BY <2>1, <2>2 DEF Served, Computing
  <2>4. ASSUME NEW t \in Elements(scheduled'), NEW h \in t.hashes
        PROVE  h \in DOMAIN ecm'.cached /\ t.req \in ecm'.cached[h]
    BY <1>2, <2>1, <2>2, <2>4
  <2>5. (Served(Len(batches)) \ ecm'.freed) \cup (Computing \cup H) = DOMAIN ecm'.cached
    BY <1>2, <2>1
  <2>. QED
    BY <1>2, <2>1, <2>3, <2>4, <2>5 DEF Followed
<1>14. CASE PreemptVictim
  <2>1. /\ Victim \in Request /\ ecm' = FreeRequest(ecm, Victim) /\ UNCHANGED <<batches, store>>
    BY <1>14, PreemptParts
  <2>2. /\ \A t \in Elements(scheduled) : t.req # Victim
        /\ Elements(scheduled') = Elements(scheduled)
    BY <1>14, VictimUnscheduled
  <2>3. /\ DOMAIN ecm'.cached = DOMAIN ecm.cached /\ ecm'.freed = ecm.freed
        /\ \A h \in DOMAIN ecm.cached : ecm'.cached[h] = ecm.cached[h] \ {Victim}
    BY <1>1, <2>1, FreeRequestSound
  <2>. QED
    BY <1>4, <2>1, <2>2, <2>3
<1>15. CASE RefuseWaiting
  <2>1. /\ trying.req \in waiting /\ ecm' = FreeRequest(ecm, trying.req)
        /\ UNCHANGED <<scheduled, batches, store>>
    BY <1>15 DEF RefuseWaiting
  <2>2. \A t \in Elements(scheduled) : t.req # trying.req
    BY <1>1, <2>1 DEF Listed
  <2>3. /\ DOMAIN ecm'.cached = DOMAIN ecm.cached /\ ecm'.freed = ecm.freed
        /\ \A h \in DOMAIN ecm.cached : ecm'.cached[h] = ecm.cached[h] \ {trying.req}
    BY <1>1, <2>1, FreeRequestSound
  <2>. QED
    BY <1>4, <2>1, <2>2, <2>3
<1>16. CASE FinishStep
  <2>1. batches' = Append(batches, Output) /\ scheduled' = <<>> /\ store' = store
    BY <1>16 DEF FinishStep
  <2>2. DOMAIN ecm'.cached = DOMAIN ecm.cached /\ ecm'.freed = {}
    BY <1>16, FinishStepParts
  <2>3. /\ Output \in Batch /\ Output.freed = ecm.freed /\ Output.compute = Computing
    BY OutputType
  <2>4. batches' \in Seq(Batch) /\ Served(Len(batches))' = After(Served(Len(batches)), Output)
    BY <1>2, <2>1, <2>3, ServedAppend
  <2>5. Computing' = {} /\ Elements(scheduled') = {}
    BY <1>2, <2>1 DEF Computing
  <2>6. After(Served(Len(batches)), Output) = DOMAIN ecm.cached
    BY <1>2, <2>3 DEF After
  <2>. QED
    BY <2>2, <2>4, <2>5, <2>6 DEF Followed
<1>17. ASSUME NEW r \in Request, FinishRequest(r) PROVE Followed'
  <2>1. pc = "idle" /\ ecm' = FreeRequest(ecm, r) /\ UNCHANGED <<scheduled, batches, store>>
    BY <1>17 DEF FinishRequest, stepVars
  <2>2. /\ DOMAIN ecm'.cached = DOMAIN ecm.cached /\ ecm'.freed = ecm.freed
        /\ \A h \in DOMAIN ecm.cached : ecm'.cached[h] = ecm.cached[h] \ {r}
    BY <1>1, <2>1, FreeRequestSound
  <2>3. Elements(scheduled) = {}
    BY <1>2, <2>1 DEF Listed
  <2>. QED
    BY <1>4, <2>1, <2>2, <2>3
<1>18. CASE ResetEncoderCache
  <2>. DEFINE b == [freed |-> Hash, compute |-> {}, need |-> {}]
  <2>1. /\ pc = "idle" /\ ecm' = EmptyCache /\ batches' = Append(batches, b)
        /\ UNCHANGED <<scheduled, store>>
    BY <1>18 DEF ResetEncoderCache, stepVars
  <2>2. b \in Batch /\ b.freed = Hash /\ b.compute = {}
    BY DEF Batch
  <2>. HIDE DEF b
  <2>3. batches' \in Seq(Batch) /\ Served(Len(batches))' = After(Served(Len(batches)), b)
    BY <1>2, <2>1, <2>2, ServedAppend
  <2>4. After(Served(Len(batches)), b) = {}
    BY <2>2 DEF After, Served
  <2>5. Elements(scheduled') = {} /\ DOMAIN ecm'.cached = {}
    BY <1>2, <2>1, EmptySound DEF Listed
  <2>. QED
    BY <2>3, <2>4, <2>5 DEF Followed, Computing
<1>. QED
  BY <1>6, <1>7, <1>8, <1>9, <1>10, <1>11, <1>12, <1>13, <1>14, <1>15, <1>16, <1>17, <1>18 DEF Next

\* First come first served, all of this holds in every state.
LEMMA AlwaysFollowed == ASSUME Policy = "FCFS" PROVE Spec => [](Books /\ Listed /\ Followed)
<1>1. Init => Books /\ Listed /\ Followed
  BY InitBooks, InitListed, InitFollowed
<1>2. Books /\ Listed /\ Followed /\ [Next]_vars => (Books /\ Listed /\ Followed)'
  <2>. SUFFICES ASSUME Books, Listed, Followed, [Next]_vars PROVE Books' /\ Listed' /\ Followed'
    OBVIOUS
  <2>1. Proper
    BY DEF Books
  <2>. QED
    BY <2>1, StepBooks, StepListed, StepFollowed
<1>. QED
  BY <1>1, <1>2, PTL DEF Spec

\* First come first served, the worker will hold exactly the entries the manager
\* counts, once it has served the outputs on their way: across evictions, resets,
\* preemptions and refusals, nothing leaks and nothing is believed to be cached
\* that is not.
THEOREM WorkerCorrect == ASSUME Policy = "FCFS" PROVE Spec => []WorkerFollows
<1>1. Listed /\ Followed => WorkerFollows
  <2>. SUFFICES ASSUME Listed, Followed, pc = "idle" PROVE Served(Len(batches)) = DOMAIN ecm.cached
    BY DEF WorkerFollows
  <2>1. scheduled = <<>> /\ ecm.freed = {}
    BY DEF Listed
  <2>2. Computing = {}
    BY <2>1 DEF Computing, Elements
  <2>. QED
    BY <2>1, <2>2 DEF Followed
<1>2. Spec => [](Books /\ Listed /\ Followed)
  BY AlwaysFollowed
<1>. QED
  BY <1>1, <1>2, PTL

-----------------------------------------------------------------------------
(* The worker finds what it looks up                                       *)

\* Without a drafter, what is looked up for the tokens of t are the inputs they use.
LEMMA NeededIsUsed ==
  ASSUME ~Eagle, Proper, NEW t \in Elements(scheduled), NEW h \in Needed(t)
  PROVE  h \in Hash /\ Uses(t.req, h, t.base, t.num)
<1>1. /\ t.req \in Request /\ t.base \in Nat /\ t.num \in Nat \ {0} /\ Shift = 0
  BY ProperParts DEF Shift
<1>2. PICK g \in Elements(Features[t.req]) :
        h = g.hash /\ \E shift \in {0, 0} : g.start < t.base + shift + t.num /\ End(g) > t.base + shift
  BY <1>1 DEF Needed
<1>3. PICK j \in DOMAIN Features[t.req] : g = Features[t.req][j]
  BY DEF Elements
<1>4. g.start < t.base + t.num /\ End(g) > t.base
  BY <1>1, <1>2
<1>5. h \in Hash
  BY <1>1, <1>2, <1>3, HashesType
<1>. QED
  BY <1>1, <1>2, <1>3, <1>4, <1>5 DEF Uses, Overlaps

\* The request refers to entry h.
Holds(m, r, h) == h \in DOMAIN m.cached /\ r \in m.cached[h]

\* What the scheduled tokens use is referenced, or will be once it is allocated; and
\* the worker will have what an output on its way needs when it serves that output.
Found ==
  /\ \A t \in Elements(scheduled) : \A h \in Hash :
       Uses(t.req, h, t.base, t.num) => Holds(ecm, t.req, h)
  /\ pc = "allocate" => \A h \in Hash :
       Uses(trying.req, h, trying.base, trying.num) =>
         h \in trying.hashes \/ Holds(ecm, trying.req, h)
  /\ \A n \in 1 .. Len(batches) : batches[n].need \subseteq Served(n)

\* The needs of the outputs, after one more.
LEMMA NeedsAppend ==
  ASSUME batches \in Seq(Batch), NEW b \in Batch, batches' = Append(batches, b), store' = store,
         \A n \in 1 .. Len(batches) : batches[n].need \subseteq Served(n),
         b.need \subseteq Served(Len(batches))'
  PROVE  (\A n \in 1 .. Len(batches) : batches[n].need \subseteq Served(n))'
<1>1. /\ Len(batches) \in Nat /\ Len(batches') = Len(batches) + 1 /\ batches'[Len(batches')] = b
      /\ \A n \in 1 .. Len(batches) : batches'[n] = batches[n]
      /\ \A n \in 0 .. Len(batches) : Served(n)' = Served(n)
  BY ServedAppend
<1>. SUFFICES ASSUME NEW n \in 1 .. Len(batches') PROVE batches'[n].need \subseteq Served(n)'
  OBVIOUS
<1>2. CASE n = Len(batches')
  <2>1. Served(n)' = Served(Len(batches))'
    BY <1>2 DEF Served
  <2>. QED
    BY <1>1, <1>2, <2>1
<1>3. CASE n # Len(batches')
  <2>1. n \in 1 .. Len(batches) /\ n \in 0 .. Len(batches)
    BY <1>1, <1>3
  <2>. QED
    BY <1>1, <2>1
<1>. QED
  BY <1>2, <1>3

\* Nothing is looked up at first.
LEMMA InitFound == Init => Found
  BY DEF Init, Found, Elements

\* Every step keeps it.
LEMMA StepFound ==
  ASSUME Policy = "FCFS", ~Eagle, Proper, Listed, Followed, Found, [Next]_vars
  PROVE  Found'
<1>1. /\ running \in Seq(Request) /\ Elements(running) \cap waiting = {} /\ waiting \in SUBSET Request
      /\ scheduled \in Seq(Trial) /\ computed \in [Request -> Nat] /\ Sound(ecm)
      /\ Elements(running) \subseteq Request
      /\ pc = "allocate" => TryingFits
      /\ batches \in Seq(Batch) /\ Elements(<<>>) = {}
  BY ProperParts DEF Proper, Followed, Elements
<1>2. /\ \A t \in Elements(scheduled) : \A h \in Hash :
           Uses(t.req, h, t.base, t.num) => Holds(ecm, t.req, h)
      /\ pc = "allocate" => \A h \in Hash :
           Uses(trying.req, h, trying.base, trying.num) =>
             h \in trying.hashes \/ Holds(ecm, trying.req, h)
      /\ \A n \in 1 .. Len(batches) : batches[n].need \subseteq Served(n)
  BY DEF Found
<1>3. ASSUME UNCHANGED <<batches, store>>
      PROVE  (\A n \in 1 .. Len(batches) : batches[n].need \subseteq Served(n))'
  BY <1>2, <1>3 DEF Served
<1>4. ASSUME UNCHANGED <<ecm, scheduled, batches, store>>,
             pc' # "allocate" \/ UNCHANGED <<pc, trying>>
      PROVE  Found'
  BY <1>2, <1>3, <1>4 DEF Found
<1>5. ASSUME UNCHANGED <<batches, store>>, pc' # "allocate",
             Elements(scheduled') = Elements(scheduled),
             NEW q, \A t \in Elements(scheduled) : t.req # q, DOMAIN ecm'.cached = DOMAIN ecm.cached,
             \A h \in DOMAIN ecm.cached : ecm'.cached[h] = ecm.cached[h] \ {q}
      PROVE  Found'
  <2>1. \A t \in Elements(scheduled) : \A h \in Hash : Holds(ecm, t.req, h) => Holds(ecm', t.req, h)
    BY <1>5 DEF Holds
  <2>. QED
    BY <1>2, <1>3, <1>5, <2>1 DEF Found
<1>6. ASSUME pc # "allocate", UNCHANGED <<running, waiting, scheduled, batches, store>>,
             NEW r \in waiting \cup Elements(running), NEW base \in Nat,
             NEW num \in Nat \ {0}, NEW next \in {"running", "finish"}, Try(r, base, num, next)
      PROVE  Found'
  <2>1. /\ Evolves(ecm, ecm', r)
        /\ \/ pc' = next
           \/ /\ trying'.req = r /\ trying'.base = base
              /\ \A h : Uses(r, h, base, trying'.num) =>
                   h \in trying'.hashes \/ (h \in DOMAIN ecm'.cached /\ r \in ecm'.cached[h])
    BY <1>6, TryStep
  <2>2. \A q, h : Holds(ecm, q, h) => Holds(ecm', q, h)
    BY <2>1 DEF Holds, Evolves, Refd
  <2>3. pc' = "allocate" => \A h \in Hash :
          Uses(trying'.req, h, trying'.base, trying'.num) =>
            h \in trying'.hashes \/ Holds(ecm', trying'.req, h)
    BY <1>6, <2>1 DEF Holds
  <2>. QED
    BY <1>2, <1>3, <1>6, <2>2, <2>3 DEF Found
<1>7. CASE UNCHANGED vars
  BY <1>4, <1>7 DEF vars, stepVars
<1>8. CASE Execute
  <2>1. UNCHANGED <<ecm, scheduled, pc, trying>>
    BY <1>8 DEF Execute, stepVars
  <2>2. /\ Len(batches) \in Nat \ {0} /\ Len(batches') = Len(batches) - 1
        /\ \A n \in 1 .. Len(batches) - 1 : batches'[n] = batches[n + 1]
        /\ \A n \in 0 .. Len(batches) - 1 : Served(n)' = Served(n + 1)
    BY <1>1, <1>8, ServedExecute
  <2>3. ASSUME NEW n \in 1 .. Len(batches') PROVE batches'[n].need \subseteq Served(n)'
    <3>1. n \in 1 .. Len(batches) - 1 /\ n \in 0 .. Len(batches) - 1 /\ n + 1 \in 1 .. Len(batches)
      BY <2>2
    <3>. QED
      BY <1>2, <2>2, <3>1
  <2>. QED
    BY <1>2, <2>1, <2>3 DEF Found
<1>9. ASSUME NEW r \in Request, AddRequest(r) PROVE Found'
  BY <1>4, <1>9 DEF AddRequest, stepVars
<1>10. CASE StartStep
  <2>1. scheduled' = scheduled /\ pc' = "running" /\ UNCHANGED <<ecm, batches, store>>
    BY <1>10 DEF StartStep, Listed
  <2>. QED
    BY <1>4, <2>1
<1>11. CASE EndRunning
  <2>1. UNCHANGED <<ecm, scheduled, batches, store>> /\ pc' \in {"finish", "waiting"}
    BY <1>11 DEF EndRunning
  <2>. QED
    BY <1>4, <2>1
<1>12. ASSUME NEW r \in Request, NEW num \in 1 .. PromptLen[r], TryRunning(r, num) PROVE Found'
  <2>1. /\ pc = "running" /\ idx <= Len(running) /\ r = running[idx]
        /\ Try(r, computed[r], num, "running")
        /\ UNCHANGED <<running, waiting, scheduled, batches, store>>
    BY <1>12 DEF TryRunning
  <2>2. /\ Len(running) \in Nat /\ Len(scheduled) \in Nat /\ idx \in Int /\ idx >= Len(scheduled) + 1
        /\ \A i \in 1 .. Len(running) : running[i] \in Elements(running)
    BY <2>1, ProperParts DEF Proper, Placed
  <2>3. r \in Elements(running)
    BY <2>1, <2>2
  <2>4. computed[r] \in Nat /\ num \in Nat \ {0}
    BY <1>1, EncoderAssumption
  <2>. QED
    BY <1>6, <2>1, <2>3, <2>4
<1>13. ASSUME NEW r \in Request, NEW base \in 0 .. PromptLen[r], NEW num \in 0 .. PromptLen[r],
              TryWaiting(r, base, num)
       PROVE  Found'
  <2>1. /\ pc = "waiting" /\ r \in waiting /\ num > 0 /\ Try(r, base, num, "finish")
        /\ UNCHANGED <<running, waiting, scheduled, batches, store>>
    BY <1>13 DEF TryWaiting
  <2>2. base \in Nat /\ num \in Nat \ {0}
    BY <2>1, EncoderAssumption
  <2>. QED
    BY <1>6, <2>1, <2>2
<1>14. CASE Schedule
  <2>. DEFINE H == trying.hashes
  <2>1. /\ trying \in Trial /\ pc = "allocate" /\ pc' # "allocate"
        /\ DOMAIN ecm'.cached = DOMAIN ecm.cached \cup H
        /\ \A h \in DOMAIN ecm.cached : ecm'.cached[h] = ecm.cached[h]
        /\ \A h \in H : ecm'.cached[h] = {trying.req}
        /\ scheduled' = Append(scheduled, trying) /\ UNCHANGED <<batches, store>>
    BY <1>14, ScheduleParts
  <2>2. Elements(scheduled') = Elements(scheduled) \cup {trying}
    BY <1>1, <2>1, AppendAdds
  <2>3. /\ \A q, h : Holds(ecm, q, h) => Holds(ecm', q, h)
        /\ \A h \in H : Holds(ecm', trying.req, h)
    BY <2>1 DEF Holds
  <2>. QED
    BY <1>2, <1>3, <2>1, <2>2, <2>3 DEF Found
<1>15. CASE PreemptVictim
  <2>1. /\ Victim \in Request /\ ecm' = FreeRequest(ecm, Victim) /\ UNCHANGED <<batches, store>>
        /\ pc = "allocate" /\ pc' = IF Victim = trying.req THEN "finish" ELSE pc
        /\ trying' = IF Victim = trying.req THEN <<>> ELSE trying
    BY <1>15, PreemptParts
  <2>2. /\ \A t \in Elements(scheduled) : t.req # Victim
        /\ Elements(scheduled') = Elements(scheduled)
    BY <1>15, VictimUnscheduled
  <2>3. /\ DOMAIN ecm'.cached = DOMAIN ecm.cached
        /\ \A h \in DOMAIN ecm.cached : ecm'.cached[h] = ecm.cached[h] \ {Victim}
    BY <1>1, <2>1, FreeRequestSound
  <2>4. CASE Victim = trying.req
    BY <1>5, <2>1, <2>2, <2>3, <2>4
  <2>5. CASE Victim # trying.req
    <3>1. trying' = trying
      BY <2>1, <2>5
    <3>2. \A q, h : q # Victim /\ Holds(ecm, q, h) => Holds(ecm', q, h)
      BY <2>3 DEF Holds
    <3>. QED
      BY <1>2, <1>3, <2>1, <2>2, <2>5, <3>1, <3>2 DEF Found
  <2>. QED
    BY <2>4, <2>5
<1>16. CASE RefuseWaiting
  <2>1. /\ trying.req \in waiting /\ ecm' = FreeRequest(ecm, trying.req)
        /\ pc' = "finish" /\ UNCHANGED <<scheduled, batches, store>>
    BY <1>16 DEF RefuseWaiting
  <2>2. \A t \in Elements(scheduled) : t.req # trying.req
    BY <1>1, <2>1 DEF Listed
  <2>3. /\ DOMAIN ecm'.cached = DOMAIN ecm.cached
        /\ \A h \in DOMAIN ecm.cached : ecm'.cached[h] = ecm.cached[h] \ {trying.req}
    BY <1>1, <2>1, FreeRequestSound
  <2>. QED
    BY <1>5, <2>1, <2>2, <2>3
<1>17. CASE FinishStep
  <2>1. batches' = Append(batches, Output) /\ scheduled' = <<>> /\ store' = store /\ pc' = "idle"
    BY <1>17 DEF FinishStep
  <2>2. /\ Output \in Batch /\ Output.need = UNION {Needed(t) : t \in Elements(scheduled)}
        /\ DOMAIN ecm'.cached = DOMAIN ecm.cached /\ ecm'.freed = {}
    BY <1>17, OutputType, FinishStepParts
  <2>3. Served(Len(batches))' = DOMAIN ecm.cached
    <3>1. Followed'
      BY StepFollowed
    <3>2. Computing' = {}
      BY <1>1, <2>1 DEF Computing
    <3>. QED
      BY <2>2, <3>1, <3>2 DEF Followed
  <2>4. ASSUME NEW t \in Elements(scheduled) PROVE Needed(t) \subseteq DOMAIN ecm.cached
    BY <1>2, NeededIsUsed DEF Holds
  <2>5. Output.need \subseteq Served(Len(batches))'
    BY <2>2, <2>3, <2>4
  <2>6. (\A n \in 1 .. Len(batches) : batches[n].need \subseteq Served(n))'
    BY <1>1, <1>2, <2>1, <2>2, <2>5, NeedsAppend
  <2>. QED
    BY <1>1, <2>1, <2>6 DEF Found
<1>18. ASSUME NEW r \in Request, FinishRequest(r) PROVE Found'
  <2>1. pc = "idle" /\ UNCHANGED <<pc, scheduled, batches, store>>
    BY <1>18 DEF FinishRequest, stepVars
  <2>2. Elements(scheduled') = {}
    BY <1>1, <2>1 DEF Listed
  <2>. QED
    BY <1>3, <2>1, <2>2 DEF Found
<1>19. CASE ResetEncoderCache
  <2>. DEFINE b == [freed |-> Hash, compute |-> {}, need |-> {}]
  <2>1. /\ pc = "idle" /\ batches' = Append(batches, b) /\ UNCHANGED <<pc, scheduled, store>>
    BY <1>19 DEF ResetEncoderCache, stepVars
  <2>2. b \in Batch /\ b.need = {}
    BY DEF Batch
  <2>. HIDE DEF b
  <2>3. b.need \subseteq Served(Len(batches))'
    BY <2>2
  <2>4. (\A n \in 1 .. Len(batches) : batches[n].need \subseteq Served(n))'
    BY <1>1, <1>2, <2>1, <2>2, <2>3, NeedsAppend
  <2>5. Elements(scheduled') = {}
    BY <1>1, <2>1 DEF Listed
  <2>. QED
    BY <2>1, <2>4, <2>5 DEF Found
<1>. QED
  BY <1>7, <1>8, <1>9, <1>10, <1>11, <1>12, <1>13, <1>14, <1>15, <1>16, <1>17, <1>18, <1>19 DEF Next

\* First come first served and without a drafter, the worker never misses an entry
\* that it looks up: a reference protects it from the step that schedules its use to
\* the end of that use, whatever is evicted and computed again with outputs in flight.
THEOREM NeverMissesCache == ASSUME Policy = "FCFS", ~Eagle PROVE Spec => []NoCacheMiss
<1>. DEFINE I == Books /\ Listed /\ Followed /\ Found
<1>1. Init => I
  BY InitBooks, InitListed, InitFollowed, InitFound
<1>2. I /\ [Next]_vars => I'
  <2>. SUFFICES ASSUME Books, Listed, Followed, Found, [Next]_vars
                PROVE  Books' /\ Listed' /\ Followed' /\ Found'
    OBVIOUS
  <2>1. Proper
    BY DEF Books
  <2>. QED
    BY <2>1, StepBooks, StepListed, StepFollowed, StepFound
<1>3. I => NoCacheMiss
  <2>. SUFFICES ASSUME Followed, Found, batches # <<>>
                PROVE  Head(batches).need \subseteq After(store, Head(batches))
    BY DEF NoCacheMiss
  <2>1. Len(batches) \in Nat /\ 1 \in 1 .. Len(batches) /\ Head(batches) = batches[1]
    BY DEF Followed
  <2>2. batches[1].need \subseteq Served(1)
    BY <2>1 DEF Found
  <2>3. ASSUME NEW h \in Served(1) PROVE h \in After(store, batches[1])
    <3>1. PICK j \in 0 .. 1 :
            /\ IF j = 0 THEN h \in store ELSE h \in batches[j].compute
            /\ \A k \in j + 1 .. 1 : h \notin batches[k].freed
      BY DEF Served
    <3>2. CASE j = 0
      BY <3>1, <3>2 DEF After
    <3>3. CASE j = 1
      BY <3>1, <3>3 DEF After
    <3>. QED
      BY <3>2, <3>3
  <2>. QED
    BY <2>1, <2>2, <2>3
<1>. QED
  BY <1>1, <1>2, <1>3, PTL DEF Spec

-----------------------------------------------------------------------------
(* The requests do not block one another                                   *)

\* One input, when the inputs before are behind base: it is found or it fits.
LEMMA TryInputFits ==
  ASSUME ~Eagle, NEW r \in Request, NEW base \in Nat, NEW a \in Accum, ~a.stop, a.hashes = {},
         a.embeds = 0, a.budget = ComputeBudget, Sound(a.m), NEW f \in Inputs,
         f.start <= base, f.start < base + a.num,
         f.hash \in DOMAIN a.m.cached \/ Refd(a.m) = {}
  PROVE  TryInput(a, r, base, f).num = a.num
<1>1. /\ f.start \in Nat /\ f.len \in Nat /\ End(f) \in Nat /\ Shift = 0 /\ a.num \in Nat
      /\ f.hash \in Hash /\ Embeds(f.hash) = f.len /\ f.len <= CacheSize
      /\ f.len <= ComputeBudget /\ CacheSize \in Nat /\ ComputeBudget \in Nat
  BY InputAssumption, EmbedsFits, EncoderAssumption DEF End, Shift, Accum
<1>2. ~(a.stop \/ f.start >= base + a.num + Shift)
  BY <1>1
<1>3. ASSUME f.hash \notin DOMAIN a.m.cached PROVE CanAllocate(a.m, f.hash, a.budget, a.embeds)
  <2>1. a.m.freeableSlots = CacheSize
    <3>1. Refd(a.m) = {}
      BY <1>3
    <3>2. a.m.freeableSlots = CacheSize - Slots({})
      BY <3>1 DEF Sound
    <3>. QED
      BY <1>1, <3>2, SlotsOne
  <2>. QED
    BY <1>1, <2>1 DEF CanAllocate
<1>4. ASSUME NEW b, NEW m, b = [a EXCEPT !.m = m] PROVE b.num = a.num
  BY <1>4 DEF Accum
<1>5. ASSUME NEW b, NEW m, NEW e, NEW g, NEW H,
             b = [a EXCEPT !.m = m, !.embeds = e, !.budget = g, !.hashes = H]
      PROVE  b.num = a.num
  BY <1>5 DEF Accum
<1>6. base >= f.start
  BY <1>1
<1>7. \/ TryInput(a, r, base, f) = a
      \/ \E m : TryInput(a, r, base, f) = [a EXCEPT !.m = m]
      \/ \E m, e, g, H : TryInput(a, r, base, f)
                           = [a EXCEPT !.m = m, !.embeds = e, !.budget = g, !.hashes = H]
  BY <1>2, <1>3, <1>6, Zenon DEF TryInput
<1>. QED
  BY <1>4, <1>5, <1>7

\* One input that starts behind base costs no token before it.
LEMMA TryInputLater ==
  ASSUME ~Eagle, NEW m, NEW r \in Request, NEW base \in Nat, NEW a, Decided(m, r, a), a.num > 0,
         NEW f \in Inputs, f.start > base
  PROVE  TryInput(a, r, base, f).num > 0
<1>1. f.start \in Nat /\ Shift = 0 /\ a \in Accum /\ a.num \in Nat
  BY InputAssumption DEF Shift, Decided, Accum
<1>. DEFINE before == IF f.start > base + Shift THEN f.start - (base + Shift) ELSE 0
            n == TryInput(a, r, base, f)
<1>2. before \in Nat /\ before > 0
  BY <1>1
<1>3. TryCase(a, n, r, base, f)
  BY TryInputCases
<1>. HIDE DEF n
<1>4. n.num = a.num \/ n.num = before
  BY <1>1, <1>3 DEF TryCase, Accum
<1>. QED
  BY <1>1, <1>2, <1>4 DEF n

\* One input that ends before base is skipped.
LEMMA TryInputBehind ==
  ASSUME NEW m, NEW r \in Request, NEW base \in Nat, NEW a, Decided(m, r, a), ~a.stop, a.num > 0,
         NEW f \in Inputs, End(f) <= base
  PROVE  TryInput(a, r, base, f) = a
<1>1. /\ f.start \in Nat /\ End(f) \in Nat /\ f.start < End(f) /\ Shift \in Nat /\ a.num \in Nat
  BY InputAssumption DEF End, Shift, Decided, Accum
<1>2. ~(f.start >= base + a.num + Shift)
  BY <1>1
<1>. QED
  BY <1>2 DEF TryInput

\* With the whole prompt to compute, a request is given tokens if the input it stands
\* in is cached, or nothing is referenced.
LEMMA TryProgress ==
  ASSUME ~Eagle, Sound(ecm), NEW r \in Request, NEW base \in Nat, base < PromptLen[r],
         \A j \in DOMAIN Features[r] :
           Features[r][j].start <= base /\ base < End(Features[r][j]) =>
             Features[r][j].hash \in DOMAIN ecm.cached \/ Refd(ecm) = {}
  PROVE  TryScheduleEncoderInputs(r, base, PromptLen[r] - base, ComputeBudget).num > 0
<1>. DEFINE N == Len(Features[r])
            num == PromptLen[r] - base
            t == TryScheduleEncoderInputs(r, base, num, ComputeBudget)
            x == [m |-> ecm, num |-> num, budget |-> ComputeBudget, embeds |-> 0,
                  hashes |-> {}, stop |-> FALSE]
<1>1. /\ N \in Nat /\ DOMAIN Features[r] = 1 .. N
      /\ \A i \in 1 .. N :
           /\ Features[r][i] \in Inputs /\ Features[r][i].hash \in Hashes(r)
           /\ Features[r][i].start \in Nat /\ End(Features[r][i]) \in Nat
           /\ Features[r][i].start < End(Features[r][i]) /\ End(Features[r][i]) <= PromptLen[r]
           /\ \A j \in 1 .. i - 1 : End(Features[r][j]) <= Features[r][i].start
  BY HashesType
<1>2. PromptLen[r] \in Nat /\ num \in Nat \ {0} /\ ComputeBudget \in Int /\ base + num = PromptLen[r]
  BY EncoderAssumption
<1>. HIDE DEF num
<1>3. PICK after :
        /\ after[0] = x
        /\ \A i \in 1 .. N : after[i] = TryInput(after[i - 1], r, base, Features[r][i])
        /\ t = after[N]
  <2>1. PICK after : Traces(after, r, base, num, ComputeBudget) /\ t = after[N]
    BY TryLoop
  <2>. HIDE DEF t
  <2>2. /\ after[0] = x
        /\ \A i \in 1 .. N : after[i] = TryInput(after[i - 1], r, base, Features[r][i])
    BY <2>1 DEF Traces
  <2>. QED
    BY <2>1, <2>2
<1>4. /\ x \in Accum /\ x.m = ecm /\ x.num = num /\ x.hashes = {} /\ x.embeds = 0
      /\ x.budget = ComputeBudget /\ ~x.stop
  BY <1>2 DEF Accum, Sound
<1>. HIDE DEF x
<1>5. Decided(ecm, r, x)
  <2>1. ecm.free >= 0 /\ Evolves(ecm, ecm, r)
    BY EvolvesSelf DEF Sound
  <2>. QED
    BY <1>4, <2>1, SlotsOne DEF Decided
<1>. DEFINE Behind(k) == \A i \in 1 .. k : End(Features[r][i]) <= base
            S == {k \in 0 .. N : /\ Decided(ecm, r, after[k]) /\ after[k].num > 0
                                 /\ Behind(k) => after[k] = x}
<1>6. 0 \in S
  BY <1>1, <1>2, <1>3, <1>4, <1>5
<1>7. ASSUME NEW k \in 0 .. N - 1, k \in S PROVE k + 1 \in S
  <2>. DEFINE f == Features[r][k + 1]
              a == after[k]
              n == TryInput(a, r, base, f)
  <2>1. k + 1 \in 1 .. N /\ k + 1 - 1 = k /\ k + 1 \in 0 .. N
    BY <1>1
  <2>2. /\ f \in Inputs /\ f.hash \in Hashes(r) /\ f.start \in Nat /\ End(f) \in Nat
        /\ f.start < End(f) /\ End(f) <= PromptLen[r]
        /\ \A j \in 1 .. k : End(Features[r][j]) <= f.start
    BY <1>1, <2>1
  <2>3. after[k + 1] = n /\ Decided(ecm, r, a) /\ a.num > 0 /\ (Behind(k) => a = x)
    BY <1>3, <1>7, <2>1
  <2>4. Decided(ecm, r, n)
    BY <2>2, <2>3, TryInputDecided
  <2>5. f.start > base => n.num > 0
    BY <2>2, <2>3, TryInputLater
  <2>6. CASE ~Behind(k)
    <3>1. PICK i \in 1 .. k : ~(End(Features[r][i]) <= base)
      BY <2>6
    <3>2. i \in 1 .. N /\ End(Features[r][i]) \in Nat /\ End(Features[r][i]) <= f.start
      BY <1>1, <2>2
    <3>3. f.start > base
      BY <2>2, <3>1, <3>2
    <3>4. i \in 1 .. k + 1
      BY <1>1
    <3>5. ~Behind(k + 1)
      BY <3>1, <3>4
    <3>. HIDE DEF n, Behind
    <3>. QED
      BY <2>1, <2>3, <2>4, <2>5, <3>3, <3>5
  <2>7. CASE Behind(k) /\ End(f) <= base
    <3>1. n = x
      BY <1>4, <2>2, <2>3, <2>7, TryInputBehind
    <3>. HIDE DEF n, Behind
    <3>. QED
      BY <1>2, <1>4, <2>1, <2>3, <2>4, <3>1
  <2>8. CASE Behind(k) /\ ~(End(f) <= base)
    <3>1. ~Behind(k + 1)
      BY <2>1, <2>8
    <3>2. a = x /\ f.start < base + num
      BY <1>2, <2>2, <2>3, <2>8
    <3>3. ASSUME f.start <= base PROVE n.num > 0
      <4>1. f.hash \in DOMAIN ecm.cached \/ Refd(ecm) = {}
        BY <1>1, <2>1, <2>2, <2>8, <3>3
      <4>2. n.num = num
        BY <1>4, <2>2, <3>2, <3>3, <4>1, TryInputFits, SMTT(40)
      <4>. QED
        BY <1>2, <4>2
    <3>4. n.num > 0
      BY <2>2, <2>5, <3>3
    <3>. HIDE DEF n, Behind
    <3>. QED
      BY <2>1, <2>3, <2>4, <3>1, <3>4
  <2>. QED
    BY <2>6, <2>7, <2>8
<1>8. \A k \in 0 .. N : k \in S
  <2>. HIDE DEF S, N
  <2>. QED
    BY <1>1, <1>6, <1>7, SetInduction
<1>9. t.num > 0
  BY <1>1, <1>3, <1>8
<1>. QED
  BY <1>9 DEF num

\* Request r stands in its input j: of the tokens it is scheduled or tried for, some
\* use it, or it is in the middle of the input between two steps.
InWindow(r, j) ==
  \/ \E t \in Elements(scheduled) : t.req = r /\ Overlaps(r, j, t.base, t.num)
  \/ pc = "allocate" /\ trying.req = r /\ Overlaps(r, j, trying.base, trying.num)
  \/ r \in Elements(running) /\ Features[r][j].start < computed[r]
       /\ computed[r] < End(Features[r][j])

\* A request holds on to the inputs it stands in only.
Windows ==
  /\ pc = "allocate" =>
       /\ trying.req \notin waiting => trying.base = computed[trying.req]
       /\ \A h \in trying.hashes : Uses(trying.req, h, trying.base, trying.num)
  /\ \A t \in Elements(scheduled) : computed[t.req] = t.base
  /\ \A h \in DOMAIN ecm.cached : \A r \in ecm.cached[h] :
       \E j \in DOMAIN Features[r] : Features[r][j].hash = h /\ InWindow(r, j)

\* No request holds anything at first.
LEMMA InitWindows == Init => Windows
<1>. SUFFICES ASSUME Init PROVE Windows
  OBVIOUS
<1>1. scheduled = <<>> /\ pc = "idle" /\ ecm = EmptyCache
  BY DEF Init
<1>2. DOMAIN ecm.cached = {} /\ Elements(scheduled) = {}
  BY <1>1, EmptySound DEF Elements
<1>. QED
  BY <1>1, <1>2 DEF Windows

\* At the end of a step a scheduled request has left the inputs it no longer holds.
LEMMA WindowAfterStep ==
  ASSUME Proper, Listed, Windows, FinishStep, NEW h \in DOMAIN ecm.cached,
         NEW q \in ecm'.cached[h]
  PROVE  \E j \in DOMAIN Features[q] : Features[q][j].hash = h /\ InWindow(q, j)'
<1>1. /\ q \in ecm.cached[h] /\ \A t \in Elements(scheduled) : <<q, h>> \notin Released(t)
  BY FinishStepParts
<1>2. PICK j \in DOMAIN Features[q] : Features[q][j].hash = h /\ InWindow(q, j)
  BY <1>1 DEF Windows
<1>3. q \in Request
  BY <1>1, SoundParts DEF Proper
<1>4. /\ pc \in {"waiting", "finish"} /\ running' = running
      /\ computed' = [r \in Request |->
           IF \E t \in Elements(scheduled) : t.req = r
           THEN Upto(CHOOSE t \in Elements(scheduled) : t.req = r) ELSE computed[r]]
  BY DEF FinishStep
<1>5. /\ Features[q][j].start \in Nat /\ End(Features[q][j]) \in Nat
      /\ End(Features[q][j]) <= PromptLen[q] /\ PromptLen[q] \in Nat
  BY <1>3, HashesType
<1>6. ASSUME NEW t \in Elements(scheduled), t.req = q
      PROVE  InWindow(q, j)'
  <2>1. /\ t.base \in Nat /\ t.num \in Nat \ {0} /\ Upto(t) \in Nat
        /\ computed[q] = t.base /\ q \in Elements(running)
    BY <1>6, ProperParts DEF Listed, Windows
  <2>2. (CHOOSE u \in Elements(scheduled) : u.req = q) = t
    BY <1>6 DEF Listed
  <2>3. computed'[q] = Upto(t)
    BY <1>3, <1>4, <1>6, <2>2
  <2>4. Features[q][j].start < t.base + t.num
    <3>1. CASE \E u \in Elements(scheduled) : u.req = q /\ Overlaps(q, j, u.base, u.num)
      BY <1>6, <3>1 DEF Listed, Overlaps
    <3>2. CASE Features[q][j].start < computed[q]
      BY <1>5, <2>1, <3>2
    <3>. QED
      BY <1>2, <1>4, <3>1, <3>2 DEF InWindow
  <2>5. End(Features[q][j]) > Upto(t)
    <3>1. ~(End(Features[q][j]) <= Upto(t))
      BY <1>1, <1>2, <1>6 DEF Released
    <3>. QED
      BY <1>5, <2>1, <3>1
  <2>6. Upto(t) = t.base + t.num
    BY <1>5, <1>6, <2>1, <2>5 DEF Upto
  <2>. QED
    BY <1>4, <2>1, <2>3, <2>4, <2>5, <2>6 DEF InWindow
<1>7. ASSUME \A t \in Elements(scheduled) : t.req # q PROVE InWindow(q, j)'
  <2>1. computed'[q] = computed[q]
    BY <1>3, <1>4, <1>7
  <2>. QED
    BY <1>2, <1>4, <1>7, <2>1 DEF InWindow
<1>. QED
  BY <1>2, <1>6, <1>7

\* Every step keeps it.
LEMMA StepWindows ==
  ASSUME ~Eagle, Books, Listed, Windows, [Next]_vars
  PROVE  Windows'
<1>1. /\ running \in Seq(Request) /\ Elements(running) \cap waiting = {} /\ waiting \in SUBSET Request
      /\ scheduled \in Seq(Trial) /\ computed \in [Request -> Nat] /\ Sound(ecm)
      /\ Elements(running) \subseteq Request
      /\ pc = "allocate" => TryingFits
      /\ Proper /\ Elements(<<>>) = {} /\ RunningHold
      /\ \A t \in Elements(scheduled) : t.req \in Request
  BY ProperParts DEF Proper, Books, Elements
<1>2. /\ \A t \in Elements(scheduled) : computed[t.req] = t.base
      /\ \A h \in DOMAIN ecm.cached : \A r \in ecm.cached[h] :
           \E j \in DOMAIN Features[r] : Features[r][j].hash = h /\ InWindow(r, j)
  BY DEF Windows
<1>3. ASSUME UNCHANGED <<ecm, running, computed, scheduled>>,
             UNCHANGED <<pc, trying, waiting>> \/ (pc # "allocate" /\ pc' # "allocate")
      PROVE  Windows'
  BY <1>3 DEF Windows, InWindow
<1>4. ASSUME pc # "allocate", UNCHANGED <<running, waiting, computed, scheduled>>,
             NEW r \in waiting \cup Elements(running), NEW base \in Nat,
             NEW num \in Nat \ {0}, NEW next \in {"running", "finish"}, Try(r, base, num, next),
             r \in Elements(running) => base = computed[r]
      PROVE  Windows'
  <2>1. /\ Evolves(ecm, ecm', r)
        /\ \/ /\ pc' = next
              /\ \A h \in DOMAIN ecm'.cached : r \in ecm'.cached[h] => r \in ecm.cached[h]
           \/ /\ pc' = "allocate" /\ trying'.req = r /\ trying'.base = base
              /\ \A h \in DOMAIN ecm'.cached : r \in ecm'.cached[h] =>
                   r \in ecm.cached[h] \/ Uses(r, h, base, trying'.num)
              /\ \A h \in trying'.hashes : Uses(r, h, base, trying'.num)
    BY <1>1, <1>4, TryStep
  <2>2. \A q, j : InWindow(q, j) => InWindow(q, j)'
    BY <1>4 DEF InWindow
  <2>3. ASSUME NEW h \in DOMAIN ecm'.cached, NEW q \in ecm'.cached[h]
        PROVE  \E j \in DOMAIN Features[q] : Features[q][j].hash = h /\ InWindow(q, j)'
    <3>1. h \in DOMAIN ecm.cached /\ (q \in ecm.cached[h] \/ q = r)
      BY <2>1 DEF Evolves
    <3>2. CASE q \in ecm.cached[h]
      BY <1>2, <2>2, <3>1, <3>2
    <3>3. CASE q \notin ecm.cached[h]
      <4>1. q = r /\ pc' = "allocate" /\ trying'.req = r /\ trying'.base = base
            /\ Uses(r, h, base, trying'.num)
        BY <1>4, <2>1, <3>1, <3>3
      <4>2. PICK j \in DOMAIN Features[r] : Features[r][j].hash = h /\ Overlaps(r, j, base, trying'.num)
        BY <4>1 DEF Uses
      <4>. QED
        BY <4>1, <4>2 DEF InWindow
    <3>. QED
      BY <3>2, <3>3
  <2>4. pc' = "allocate" =>
          /\ trying'.req \notin waiting => trying'.base = computed[trying'.req]
          /\ \A h \in trying'.hashes : Uses(trying'.req, h, trying'.base, trying'.num)
    BY <1>4, <2>1
  <2>. QED
    BY <1>2, <1>4, <2>3, <2>4 DEF Windows
<1>5. ASSUME pc' # "allocate", NEW q, DOMAIN ecm'.cached = DOMAIN ecm.cached,
             \A h \in DOMAIN ecm.cached : ecm'.cached[h] = ecm.cached[h] \ {q},
             Elements(running) \ {q} \subseteq Elements(running'),
             \A r \in Request : r # q => computed'[r] = computed[r],
             Elements(scheduled') = {t \in Elements(scheduled) : t.req # q},
             pc = "allocate" => trying.req = q
      PROVE  Windows'
  <2>1. ASSUME NEW r \in Request, r # q, NEW j, InWindow(r, j) PROVE InWindow(r, j)'
    BY <1>5, <2>1 DEF InWindow
  <2>2. \A h \in DOMAIN ecm.cached : ecm.cached[h] \subseteq Request
    BY <1>1, SoundParts
  <2>3. ASSUME NEW h \in DOMAIN ecm'.cached, NEW r \in ecm'.cached[h]
        PROVE  \E j \in DOMAIN Features[r] : Features[r][j].hash = h /\ InWindow(r, j)'
    <3>1. h \in DOMAIN ecm.cached /\ r \in ecm.cached[h] /\ r # q /\ r \in Request
      BY <1>5, <2>2
    <3>. QED
      BY <1>2, <2>1, <3>1
  <2>4. \A t \in Elements(scheduled') : computed'[t.req] = t.base
    BY <1>1, <1>2, <1>5
  <2>. QED
    BY <1>5, <2>3, <2>4 DEF Windows
<1>6. CASE UNCHANGED vars
  BY <1>3, <1>6 DEF vars, stepVars
<1>7. CASE Execute
  BY <1>3, <1>7 DEF Execute, stepVars
<1>8. ASSUME NEW r \in Request, AddRequest(r) PROVE Windows'
  BY <1>3, <1>8 DEF AddRequest, stepVars
<1>9. CASE StartStep
  <2>1. scheduled' = scheduled /\ pc = "idle" /\ pc' = "running" /\ UNCHANGED <<ecm, running, computed>>
    BY <1>9 DEF StartStep, Listed
  <2>. QED
    BY <1>3, <2>1
<1>10. CASE EndRunning
  <2>1. UNCHANGED <<ecm, running, computed, scheduled>> /\ pc = "running" /\ pc' \in {"finish", "waiting"}
    BY <1>10 DEF EndRunning
  <2>. QED
    BY <1>3, <2>1
<1>11. ASSUME NEW r \in Request, NEW num \in 1 .. PromptLen[r], TryRunning(r, num) PROVE Windows'
  <2>1. /\ pc = "running" /\ idx <= Len(running) /\ r = running[idx]
        /\ Try(r, computed[r], num, "running")
        /\ UNCHANGED <<running, waiting, computed, scheduled>>
    BY <1>11 DEF TryRunning
  <2>2. /\ Len(running) \in Nat /\ Len(scheduled) \in Nat /\ idx \in Int /\ idx >= Len(scheduled) + 1
        /\ \A i \in 1 .. Len(running) : running[i] \in Elements(running)
    BY <1>1, <2>1, ProperParts DEF Proper, Placed
  <2>3. r \in Elements(running)
    BY <2>1, <2>2
  <2>4. computed[r] \in Nat /\ num \in Nat \ {0}
    BY <1>1, EncoderAssumption
  <2>. QED
    BY <1>4, <2>1, <2>3, <2>4
<1>12. ASSUME NEW r \in Request, NEW base \in 0 .. PromptLen[r], NEW num \in 0 .. PromptLen[r],
              TryWaiting(r, base, num)
       PROVE  Windows'
  <2>1. /\ pc = "waiting" /\ r \in waiting /\ num > 0 /\ Try(r, base, num, "finish")
        /\ UNCHANGED <<running, waiting, computed, scheduled>>
    BY <1>12 DEF TryWaiting
  <2>2. base \in Nat /\ num \in Nat \ {0} /\ r \notin Elements(running)
    BY <1>1, <2>1, EncoderAssumption
  <2>. QED
    BY <1>4, <2>1, <2>2
<1>13. CASE Schedule
  <2>. DEFINE H == trying.hashes
  <2>0. trying.req \in Request
    BY <1>1, <1>13, ScheduleParts
  <2>. PICK r \in Request : r = trying.req
    BY <2>0
  <2>1. /\ trying \in Trial /\ r \in Request /\ pc = "allocate" /\ pc' # "allocate"
        /\ DOMAIN ecm'.cached = DOMAIN ecm.cached \cup H
        /\ \A h \in DOMAIN ecm.cached : ecm'.cached[h] = ecm.cached[h]
        /\ \A h \in H : ecm'.cached[h] = {r}
        /\ Elements(running') = Elements(running) \cup {r}
        /\ scheduled' = Append(scheduled, trying)
        /\ computed' = [computed EXCEPT ![r] = trying.base]
    BY <1>1, <1>13, ScheduleParts
  <2>2. Elements(scheduled') = Elements(scheduled) \cup {trying}
    BY <1>1, <2>1, AppendAdds
  <2>3. \A t \in Elements(scheduled) : t.req # r
    BY <1>1, <2>1, TryingUnscheduled
  <2>4. /\ computed'[r] = trying.base /\ \A q \in Request : q # r => computed'[q] = computed[q]
        /\ trying.base \in Nat /\ trying.num \in Nat \ {0} /\ computed[r] \in Nat
    BY <1>1, <2>1 DEF Trial
  <2>5. \A t \in Elements(scheduled') : computed'[t.req] = t.base
    BY <1>1, <1>2, <2>2, <2>3, <2>4
  <2>6. ASSUME NEW j \in DOMAIN Features[r], Overlaps(r, j, trying.base, trying.num)
        PROVE  InWindow(r, j)'
    BY <2>2, <2>6 DEF InWindow
  <2>7. ASSUME NEW q \in Request, NEW j \in DOMAIN Features[q], InWindow(q, j)
        PROVE  InWindow(q, j)'
    <3>1. CASE \E t \in Elements(scheduled) : t.req = q /\ Overlaps(q, j, t.base, t.num)
      BY <2>2, <3>1 DEF InWindow
    <3>2. CASE q = r /\ Overlaps(q, j, trying.base, trying.num)
      BY <2>6, <3>2
    <3>3. CASE q \in Elements(running) /\ Features[q][j].start < computed[q]
                 /\ computed[q] < End(Features[q][j])
      <4>1. CASE q # r
        BY <2>1, <2>4, <3>3, <4>1 DEF InWindow
      <4>2. CASE q = r
        <5>1. trying.base = computed[q]
          BY <1>1, <2>1, <3>3, <4>2 DEF Windows
        <5>2. Features[q][j].start \in Nat /\ End(Features[q][j]) \in Nat
          BY HashesType
        <5>3. Overlaps(q, j, trying.base, trying.num)
          BY <2>4, <3>3, <4>2, <5>1, <5>2 DEF Overlaps
        <5>. QED
          BY <2>6, <4>2, <5>3
      <4>. QED
        BY <4>1, <4>2
    <3>. QED
      BY <2>7, <3>1, <3>2, <3>3 DEF InWindow
  <2>8. ASSUME NEW h \in DOMAIN ecm'.cached, NEW q \in ecm'.cached[h]
        PROVE  \E j \in DOMAIN Features[q] : Features[q][j].hash = h /\ InWindow(q, j)'
    <3>1. CASE h \in DOMAIN ecm.cached
      <4>1. q \in ecm.cached[h] /\ q \in Request
        BY <1>1, <2>1, <2>8, <3>1, SoundParts
      <4>. QED
        BY <1>2, <2>7, <3>1, <4>1
    <3>2. CASE h \notin DOMAIN ecm.cached
      <4>1. h \in H /\ q = r
        BY <2>1, <2>8, <3>2
      <4>2. PICK j \in DOMAIN Features[r] :
              Features[r][j].hash = h /\ Overlaps(r, j, trying.base, trying.num)
        BY <2>1, <4>1 DEF Windows, Uses
      <4>. QED
        BY <2>6, <4>1, <4>2
    <3>. QED
      BY <3>1, <3>2
  <2>. QED
    BY <2>1, <2>5, <2>8 DEF Windows
<1>14. CASE PreemptVictim
  <2>1. /\ Victim \in Request /\ ecm' = FreeRequest(ecm, Victim)
        /\ pc = "allocate" /\ pc' = IF Victim = trying.req THEN "finish" ELSE pc
        /\ trying' = IF Victim = trying.req THEN <<>> ELSE trying
        /\ trying.req \in Elements(running) /\ trying.req \notin waiting
        /\ running' = Without(running, {Victim}) /\ waiting' = waiting \cup {Victim}
        /\ computed' = [computed EXCEPT ![Victim] = 0]
    BY <1>1, <1>14, PreemptParts
  <2>2. Elements(scheduled') = {t \in Elements(scheduled) : t.req # Victim}
    BY <1>1, <1>14, TakenBack
  <2>3. /\ DOMAIN ecm'.cached = DOMAIN ecm.cached
        /\ \A h \in DOMAIN ecm.cached : ecm'.cached[h] = ecm.cached[h] \ {Victim}
    BY <1>1, <2>1, FreeRequestSound
  <2>4. /\ Elements(running') = Elements(running) \ {Victim}
        /\ \A r \in Request : r # Victim => computed'[r] = computed[r]
    BY <1>1, <2>1, LeaveRunning
  <2>5. CASE Victim = trying.req
    <3>1. pc' # "allocate" /\ (pc = "allocate" => trying.req = Victim)
      BY <2>1, <2>5
    <3>2. Elements(running) \ {Victim} \subseteq Elements(running')
      BY <2>4
    <3>. HIDE DEF Victim
    <3>. QED
      BY <1>5, <2>2, <2>3, <2>4, <3>1, <3>2
  <2>6. CASE Victim # trying.req
    <3>1. trying' = trying /\ pc' = "allocate"
      BY <2>1, <2>6
    <3>2. ASSUME NEW r \in Request, r # Victim, NEW j, InWindow(r, j) PROVE InWindow(r, j)'
      BY <2>1, <2>2, <2>4, <3>1, <3>2 DEF InWindow
    <3>3. ASSUME NEW h \in DOMAIN ecm'.cached, NEW r \in ecm'.cached[h]
          PROVE  \E j \in DOMAIN Features[r] : Features[r][j].hash = h /\ InWindow(r, j)'
      <4>1. h \in DOMAIN ecm.cached /\ r \in ecm.cached[h] /\ r # Victim
        BY <2>3
      <4>2. r \in Request
        BY <1>1, <4>1, SoundParts
      <4>. QED
        BY <1>2, <3>2, <4>1, <4>2
    <3>4. \A t \in Elements(scheduled') : computed'[t.req] = t.base
      BY <1>1, <1>2, <2>2, <2>4
    <3>5. trying.req \in Request
      BY <1>1, <2>1
    <3>6. /\ trying.base = computed'[trying.req]
          /\ \A h \in trying.hashes : Uses(trying.req, h, trying.base, trying.num)
      BY <2>1, <2>4, <2>6, <3>5 DEF Windows
    <3>. QED
      BY <3>1, <3>3, <3>4, <3>6 DEF Windows
  <2>. QED
    BY <2>5, <2>6
<1>15. CASE RefuseWaiting
  <2>1. /\ pc = "allocate" /\ trying.req \in waiting /\ ecm' = FreeRequest(ecm, trying.req)
        /\ pc' = "finish" /\ UNCHANGED <<running, computed, scheduled>>
    BY <1>15 DEF RefuseWaiting
  <2>2. \A t \in Elements(scheduled) : t.req # trying.req
    BY <1>1, <2>1 DEF Listed
  <2>3. /\ DOMAIN ecm'.cached = DOMAIN ecm.cached
        /\ \A h \in DOMAIN ecm.cached : ecm'.cached[h] = ecm.cached[h] \ {trying.req}
    BY <1>1, <2>1, FreeRequestSound
  <2>. QED
    BY <1>5, <2>1, <2>2, <2>3
<1>16. CASE FinishStep
  <2>1. scheduled' = <<>> /\ pc' = "idle"
    BY <1>16 DEF FinishStep
  <2>2. DOMAIN ecm'.cached = DOMAIN ecm.cached
    BY <1>1, <1>16, FinishStepParts
  <2>3. \A h \in DOMAIN ecm'.cached : \A q \in ecm'.cached[h] :
          \E j \in DOMAIN Features[q] : Features[q][j].hash = h /\ InWindow(q, j)'
    BY <1>1, <1>16, <2>2, WindowAfterStep
  <2>. QED
    BY <1>1, <2>1, <2>3 DEF Windows
<1>17. ASSUME NEW r \in Request, FinishRequest(r) PROVE Windows'
  <2>1. /\ pc = "idle" /\ ecm' = FreeRequest(ecm, r) /\ running' = Without(running, {r})
        /\ computed' = [computed EXCEPT ![r] = 0] /\ UNCHANGED <<pc, scheduled>>
    BY <1>17 DEF FinishRequest, stepVars
  <2>2. /\ DOMAIN ecm'.cached = DOMAIN ecm.cached
        /\ \A h \in DOMAIN ecm.cached : ecm'.cached[h] = ecm.cached[h] \ {r}
    <3>1. Sound(ecm) /\ ecm' = FreeRequest(ecm, r)
      BY <1>1, <2>1
    <3>. QED
      BY <3>1, FreeRequestSound
  <2>3. /\ Elements(running') = Elements(running) \ {r}
        /\ \A q \in Request : q # r => computed'[q] = computed[q]
    BY <1>1, <2>1, LeaveRunning
  <2>4. Elements(scheduled) = {}
    BY <1>1, <2>1 DEF Listed
  <2>. QED
    BY <1>5, <2>1, <2>2, <2>3, <2>4
<1>18. CASE ResetEncoderCache
  <2>1. pc = "idle" /\ ecm' = EmptyCache /\ UNCHANGED <<pc, scheduled, computed>>
    BY <1>18 DEF ResetEncoderCache, stepVars
  <2>2. DOMAIN ecm'.cached = {}
    BY <2>1, EmptySound
  <2>. QED
    BY <1>2, <2>1, <2>2 DEF Windows
<1>. QED
  BY <1>6, <1>7, <1>8, <1>9, <1>10, <1>11, <1>12, <1>13, <1>14, <1>15, <1>16, <1>17, <1>18 DEF Next

\* Without a drafter the requests never block one another on the encoder cache, under
\* either policy: if one refers to an entry between two steps it stands in the middle
\* of that input and goes on with it; if none does, the whole cache can be evicted for
\* the next input.
THEOREM NeverHoldAndWait == ASSUME ~Eagle PROVE Spec => []NoHoldAndWait
<1>. DEFINE I == Books /\ Listed /\ Windows
<1>1. Init => I
  BY InitBooks, InitListed, InitWindows
<1>2. I /\ [Next]_vars => I'
  <2>. SUFFICES ASSUME Books, Listed, Windows, [Next]_vars PROVE Books' /\ Listed' /\ Windows'
    OBVIOUS
  <2>1. Proper
    BY DEF Books
  <2>. QED
    BY <2>1, StepBooks, StepListed, StepWindows
<1>3. I => NoHoldAndWait
  <2>. DEFINE Prefilling == {r \in Elements(running) : computed[r] < PromptLen[r]}
              Given(r) == TryScheduleEncoderInputs(r, computed[r], PromptLen[r] - computed[r],
                                                   ComputeBudget).num > 0
  <2>. SUFFICES ASSUME I, pc = "idle", Prefilling # {} PROVE \E r \in Prefilling : Given(r)
    BY DEF NoHoldAndWait
  <2>1. /\ Proper /\ RunningHold /\ Sound(ecm) /\ computed \in [Request -> Nat]
        /\ Elements(running) \subseteq Request /\ Elements(scheduled) = {}
    BY ProperParts DEF Books, Proper, Listed, Elements
  <2>2. CASE \E h \in DOMAIN ecm.cached : \E r \in ecm.cached[h] : TRUE
    <3>0. PICK h \in DOMAIN ecm.cached : \E r \in ecm.cached[h] : TRUE
      BY <2>2
    <3>1. PICK r \in ecm.cached[h] : TRUE
      BY <3>0
    <3>2. r \in Elements(running) /\ r \in Request
      BY <2>1 DEF RunningHold, Pending
    <3>3. PICK j \in DOMAIN Features[r] : Features[r][j].hash = h /\ InWindow(r, j)
      BY <3>1 DEF Windows
    <3>4. Features[r][j].start < computed[r] /\ computed[r] < End(Features[r][j])
      BY <2>1, <3>3 DEF InWindow
    <3>5. /\ DOMAIN Features[r] = 1 .. Len(Features[r]) /\ Len(Features[r]) \in Nat
          /\ computed[r] \in Nat /\ PromptLen[r] \in Nat /\ End(Features[r][j]) <= PromptLen[r]
          /\ \A i \in DOMAIN Features[r] :
               /\ Features[r][i].start \in Nat /\ End(Features[r][i]) \in Nat
               /\ \A k \in 1 .. i - 1 : End(Features[r][k]) <= Features[r][i].start
      BY <2>1, <3>2, HashesType
    <3>6. computed[r] < PromptLen[r]
      BY <3>4, <3>5
    <3>7. ASSUME NEW i \in DOMAIN Features[r], Features[r][i].start <= computed[r],
                 computed[r] < End(Features[r][i])
          PROVE  i = j
      <4>1. ~(i \in 1 .. j - 1)
        BY <3>4, <3>5, <3>7, SMTT(40)
      <4>2. ~(j \in 1 .. i - 1)
        BY <3>4, <3>5, <3>7, SMTT(40)
      <4>. QED
        BY <3>5, <4>1, <4>2
    <3>8. Given(r)
      BY <2>1, <3>1, <3>2, <3>3, <3>5, <3>6, <3>7, TryProgress
    <3>. QED
      BY <3>2, <3>6, <3>8
  <2>3. CASE ~\E h \in DOMAIN ecm.cached : \E r \in ecm.cached[h] : TRUE
    <3>1. Refd(ecm) = {}
      BY <2>3 DEF Refd
    <3>2. PICK r \in Prefilling : TRUE
      OBVIOUS
    <3>3. r \in Request /\ computed[r] \in Nat /\ computed[r] < PromptLen[r]
      BY <2>1, <3>2
    <3>4. Given(r)
      BY <2>1, <3>1, <3>3, TryProgress
    <3>. QED
      BY <3>2, <3>4
  <2>. QED
    BY <2>2, <2>3
<1>. QED
  BY <1>1, <1>2, <1>3, PTL DEF Spec

=============================================================================
