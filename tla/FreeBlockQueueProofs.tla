------------------------ MODULE FreeBlockQueueProofs ------------------------
(***************************************************************************)
(* The linked list of FreeKVCacheBlockQueue, for every set of blocks and   *)
(* every initial list: the links always form one list whose length is      *)
(* num_free_blocks, and the pointer operations implement EvictionQueue,    *)
(* results included.                                                       *)
(*                                                                         *)
(* The proofs look at the list by position: At(s, i) is the i-th node of   *)
(* the chain of s, the fakes at 0 and Len(s) + 1, and Linked(s, nx, pv)    *)
(* says that the links nx and pv represent s.  Each operation has a lemma  *)
(* about links alone: what it does to them turns the links of s into the   *)
(* links of s after the operation.                                         *)
(***************************************************************************)
EXTENDS FreeBlockQueue, QueuesProofs

At(s, i) == IF i = 0 THEN FakeHead ELSE IF i = Len(s) + 1 THEN FakeTail ELSE s[i]

Linked(s, nx, pv) ==
  /\ Distinct(s)
  /\ \A i \in 0 .. Len(s) : nx[At(s, i)] = At(s, i + 1) /\ pv[At(s, i + 1)] = At(s, i)
  /\ pv[FakeHead] = None /\ nx[FakeTail] = None
  /\ \A b \in Block \ Elements(s) : pv[b] = None /\ nx[b] = None

----------------------------------------------------------------------------

\* The positions of the chain of a list of distinct blocks hold different nodes,
\* and every node is at a position or is a block the list does not hold.
LEMMA AtFacts ==
  ASSUME NEW s \in Seq(Block), Distinct(s)
  PROVE  /\ Len(s) \in Nat /\ At(s, 0) = FakeHead /\ At(s, Len(s) + 1) = FakeTail
         /\ \A i \in 1 .. Len(s) : At(s, i) = s[i] /\ s[i] \in Block /\ s[i] \in Elements(s)
         /\ \A i \in 0 .. Len(s) + 1 : At(s, i) \in Node /\ At(s, i) # None
         /\ \A i, j \in 0 .. Len(s) + 1 : At(s, i) = At(s, j) => i = j
         /\ \A b \in Elements(s) : \E i \in 1 .. Len(s) : At(s, i) = b
         /\ Elements(s) \subseteq Block
<1>1. Len(s) \in Nat /\ DOMAIN s = 1 .. Len(s)
  OBVIOUS
<1>2. \A i \in 1 .. Len(s) : At(s, i) = s[i] /\ s[i] \in Block /\ s[i] \in Elements(s)
  BY <1>1 DEF At, Elements
<1>3. At(s, 0) = FakeHead /\ At(s, Len(s) + 1) = FakeTail
  BY <1>1 DEF At
<1>4. \A i \in 0 .. Len(s) + 1 : i = 0 \/ i = Len(s) + 1 \/ i \in 1 .. Len(s)
  BY <1>1
<1>5. \A i \in 0 .. Len(s) + 1 : At(s, i) \in Node /\ At(s, i) # None
  BY <1>2, <1>3, <1>4, NodeAssumption DEF Node
<1>6. ASSUME NEW i \in 0 .. Len(s) + 1, NEW j \in 0 .. Len(s) + 1, At(s, i) = At(s, j)
      PROVE  i = j
  <2>1. CASE i \in 1 .. Len(s) /\ j \in 1 .. Len(s)
    BY <2>1, <1>1, <1>2, <1>6 DEF Distinct
  <2>2. CASE i \notin 1 .. Len(s) \/ j \notin 1 .. Len(s)
    BY <2>2, <1>2, <1>3, <1>4, <1>6, NodeAssumption
  <2>. QED
    BY <2>1, <2>2
<1>7. \A b \in Elements(s) : \E i \in 1 .. Len(s) : At(s, i) = b
  BY <1>1, <1>2 DEF Elements
<1>8. Elements(s) \subseteq Block
  BY <1>2, <1>7
<1>. QED
  BY <1>1, <1>2, <1>3, <1>5, <1>6, <1>7, <1>8

\* The chain of a list, by position.
LEMMA ChainAt ==
  ASSUME NEW s \in Seq(Block)
  PROVE  /\ Len(Chain(s)) = Len(s) + 2
         /\ \A i \in 1 .. Len(s) + 2 : Chain(s)[i] = At(s, i - 1)
<1>. DEFINE u == <<FakeHead>> \o s
            c == u \o <<FakeTail>>
<1>0. Node # {} /\ FakeHead \in Node /\ FakeTail \in Node /\ s \in Seq(Node) /\ Len(s) \in Nat
  BY DEF Node
<1>1. u \in Seq(Node) /\ Len(u) = Len(s) + 1
  BY <1>0
<1>2. \A i \in 1 .. Len(s) + 1 : u[i] = IF i = 1 THEN FakeHead ELSE s[i - 1]
  BY <1>0
<1>. HIDE DEF u
<1>3. Len(c) = Len(s) + 2
  BY <1>0, <1>1
<1>4. \A i \in 1 .. Len(s) + 2 : c[i] = IF i = Len(s) + 2 THEN FakeTail ELSE u[i]
  BY <1>0, <1>1
<1>. HIDE DEF c
<1>5. ASSUME NEW i \in 1 .. Len(s) + 2
      PROVE  c[i] = At(s, i - 1)
  <2>1. CASE i = 1
    BY <2>1, <1>0, <1>2, <1>4 DEF At
  <2>2. CASE i = Len(s) + 2
    <3>1. c[i] = FakeTail /\ i - 1 = Len(s) + 1 /\ i - 1 # 0
      BY <2>2, <1>0, <1>4
    <3>. QED
      BY <3>1 DEF At
  <2>3. CASE i \in 2 .. Len(s) + 1
    <3>1. c[i] = u[i] /\ u[i] = s[i - 1]
      BY <2>3, <1>0, <1>2, <1>4
    <3>2. i - 1 # 0 /\ i - 1 # Len(s) + 1
      BY <2>3, <1>0
    <3>. QED
      BY <3>1, <3>2 DEF At
  <2>4. i = 1 \/ i = Len(s) + 2 \/ i \in 2 .. Len(s) + 1
    BY <1>0
  <2>. QED
    BY <2>1, <2>2, <2>3, <2>4
<1>6. Chain(s) = c
  BY DEF Chain, u, c
<1>. QED
  BY <1>3, <1>5, <1>6

\* The two ways to say that links represent a list.
LEMMA LinkedChain ==
  ASSUME NEW s \in Seq(Block), NEW nx, NEW pv
  PROVE  (/\ Distinct(s)
          /\ \A i \in 1 .. Len(Chain(s)) - 1 :
               nx[Chain(s)[i]] = Chain(s)[i + 1] /\ pv[Chain(s)[i + 1]] = Chain(s)[i]
          /\ pv[FakeHead] = None /\ nx[FakeTail] = None
          /\ \A b \in Block \ Elements(s) : pv[b] = None /\ nx[b] = None)
         <=> Linked(s, nx, pv)
<1>0. /\ Len(Chain(s)) = Len(s) + 2 /\ Len(s) \in Nat
      /\ \A i \in 1 .. Len(s) + 2 : Chain(s)[i] = At(s, i - 1)
  BY ChainAt
<1>. DEFINE P == \A i \in 1 .. Len(Chain(s)) - 1 :
               nx[Chain(s)[i]] = Chain(s)[i + 1] /\ pv[Chain(s)[i + 1]] = Chain(s)[i]
            Q == \A i \in 0 .. Len(s) : nx[At(s, i)] = At(s, i + 1) /\ pv[At(s, i + 1)] = At(s, i)
<1>1. ASSUME P PROVE Q
  <2>. SUFFICES ASSUME NEW i \in 0 .. Len(s)
                PROVE  nx[At(s, i)] = At(s, i + 1) /\ pv[At(s, i + 1)] = At(s, i)
    OBVIOUS
  <2>1. i + 1 \in 1 .. Len(Chain(s)) - 1 /\ i + 1 \in 1 .. Len(s) + 2 /\ (i + 1) + 1 \in 1 .. Len(s) + 2
        /\ (i + 1) - 1 = i /\ ((i + 1) + 1) - 1 = i + 1
    BY <1>0
  <2>2. Chain(s)[i + 1] = At(s, i) /\ Chain(s)[(i + 1) + 1] = At(s, i + 1)
    BY <2>1, <1>0
  <2>. QED
    BY <2>1, <2>2, <1>1
<1>2. ASSUME Q PROVE P
  <2>. SUFFICES ASSUME NEW i \in 1 .. Len(Chain(s)) - 1
                PROVE  nx[Chain(s)[i]] = Chain(s)[i + 1] /\ pv[Chain(s)[i + 1]] = Chain(s)[i]
    OBVIOUS
  <2>1. i \in 1 .. Len(s) + 2 /\ i + 1 \in 1 .. Len(s) + 2 /\ i - 1 \in 0 .. Len(s)
        /\ (i + 1) - 1 = i /\ (i - 1) + 1 = i
    BY <1>0
  <2>2. Chain(s)[i] = At(s, i - 1) /\ Chain(s)[i + 1] = At(s, i)
    BY <2>1, <1>0
  <2>. QED
    BY <2>1, <2>2, <1>2
<1>. HIDE DEF P, Q
<1>3. P <=> Q
  BY <1>1, <1>2
<1>. QED
  BY <1>3 DEF P, Q, Linked

----------------------------------------------------------------------------

\* What popleft and popleft_n do to the links: the first n blocks lose theirs and
\* the fake head is linked to the next one.
Popped(s, n, nx, pv, nx2, pv2) ==
  /\ nx2[FakeHead] = At(s, n + 1) /\ pv2[At(s, n + 1)] = FakeHead
  /\ \A k \in 1 .. n : nx2[s[k]] = None /\ pv2[s[k]] = None
  /\ \A b \in Node : b # FakeHead /\ (\A k \in 1 .. n : b # s[k]) => nx2[b] = nx[b]
  /\ \A b \in Node : b # At(s, n + 1) /\ (\A k \in 1 .. n : b # s[k]) => pv2[b] = pv[b]

\* Links that represented s represent it without its first n blocks.
LEMMA PopLinks ==
  ASSUME NEW s \in Seq(Block), NEW n \in 1 .. Len(s), NEW nx, NEW pv, NEW nx2, NEW pv2,
         Linked(s, nx, pv), Popped(s, n, nx, pv, nx2, pv2)
  PROVE  Linked(DropFirst(s, n), nx2, pv2)
<1>0. /\ nx2[FakeHead] = At(s, n + 1) /\ pv2[At(s, n + 1)] = FakeHead
      /\ \A k \in 1 .. n : nx2[s[k]] = None /\ pv2[s[k]] = None
      /\ \A b \in Node : b # FakeHead /\ (\A k \in 1 .. n : b # s[k]) => nx2[b] = nx[b]
      /\ \A b \in Node : b # At(s, n + 1) /\ (\A k \in 1 .. n : b # s[k]) => pv2[b] = pv[b]
  BY DEF Popped
<1>. DEFINE t == DropFirst(s, n)
            L == Len(s)
<1>1. Distinct(s)
  BY DEF Linked
<1>2. /\ L \in Nat /\ At(s, 0) = FakeHead /\ At(s, L + 1) = FakeTail
      /\ \A i \in 1 .. L : At(s, i) = s[i] /\ s[i] \in Block /\ s[i] \in Elements(s)
      /\ \A i \in 0 .. L + 1 : At(s, i) \in Node /\ At(s, i) # None
      /\ \A i, j \in 0 .. L + 1 : At(s, i) = At(s, j) => i = j
      /\ \A b \in Elements(s) : \E i \in 1 .. L : At(s, i) = b
      /\ Elements(s) \subseteq Block
  BY <1>1, AtFacts
<1>3. n \in 0 .. L /\ n \in Nat /\ n >= 1 /\ n <= L
  BY <1>2
<1>4. /\ t \in Seq(Block) /\ Len(t) = L - n /\ Distinct(t)
      /\ Elements(s) = Elements(TakeFirst(s, n)) \cup Elements(t)
  BY <1>1, <1>3, SplitElements
<1>5. \A i \in 1 .. L - n : t[i] = s[i + n]
  BY <1>2, <1>3 DEF DropFirst
<1>6. \A b \in Elements(TakeFirst(s, n)) : \E k \in 1 .. n : b = s[k]
  BY <1>2, <1>3 DEF TakeFirst, Elements
<1>. HIDE DEF t
<1>7. At(t, 0) = FakeHead /\ \A i \in 1 .. (L - n) + 1 : At(t, i) = At(s, i + n)
  <2>1. At(t, 0) = FakeHead
    BY DEF At
  <2>2. ASSUME NEW i \in 1 .. L - n PROVE At(t, i) = At(s, i + n)
    <3>1. i # 0 /\ i # (L - n) + 1 /\ i + n # 0 /\ i + n # L + 1
      BY <1>2, <1>3
    <3>. QED
      BY <3>1, <1>4, <1>5 DEF At
  <2>3. At(t, (L - n) + 1) = At(s, L + 1)
    <3>1. (L - n) + 1 # 0
      BY <1>2, <1>3
    <3>. QED
      BY <3>1, <1>2, <1>4 DEF At
  <2>4. \A i \in 1 .. (L - n) + 1 : i \in 1 .. L - n \/ (i = (L - n) + 1 /\ i + n = L + 1)
    BY <1>2, <1>3
  <2>. QED
    BY <2>1, <2>2, <2>3, <2>4
<1>. HIDE DEF L
<1>8. \A i \in 0 .. L : nx[At(s, i)] = At(s, i + 1) /\ pv[At(s, i + 1)] = At(s, i)
  BY DEF Linked, L
<1>9. \A i \in 0 .. L + 1 : i = 0 \/ i > n => \A k \in 1 .. n : At(s, i) # s[k]
  <2>1. \A k \in 1 .. n : k \in 0 .. L + 1 /\ At(s, k) = s[k] /\ k # 0
    BY <1>2, <1>3
  <2>2. \A i \in 0 .. L + 1 : i = 0 \/ i > n => i \notin 1 .. n
    BY <1>2, <1>3
  <2>. QED
    BY <2>1, <2>2, <1>2
<1>10. ASSUME NEW i \in 0 .. L - n
       PROVE  nx2[At(t, i)] = At(t, i + 1) /\ pv2[At(t, i + 1)] = At(t, i)
  <2>1. CASE i = 0
    <3>1. 1 \in 1 .. (L - n) + 1 /\ 1 + n = n + 1 /\ i + 1 = 1
      BY <2>1, <1>2, <1>3
    <3>. QED
      BY <2>1, <3>1, <1>0, <1>7
  <2>2. CASE i # 0
    <3>0. L \in Nat /\ n \in Nat /\ n >= 1 /\ i \in Nat /\ i >= 1 /\ i <= L - n
      BY <2>2, <1>2, <1>3
    <3>1. /\ i \in 1 .. (L - n) + 1 /\ i + 1 \in 1 .. (L - n) + 1 /\ (i + 1) + n = (i + n) + 1
          /\ i + n \in 0 .. L /\ i + n \in 0 .. L + 1 /\ (i + n) + 1 \in 0 .. L + 1
          /\ i + n > n /\ (i + n) + 1 > n /\ n + 1 \in 0 .. L + 1 /\ (i + n) + 1 # n + 1
          /\ i + n # 0 /\ 0 \in 0 .. L + 1
      BY <3>0
    <3>2. At(t, i) = At(s, i + n) /\ At(t, i + 1) = At(s, (i + n) + 1)
      BY <3>1, <1>7
    <3>3. At(s, i + n) # FakeHead /\ At(s, (i + n) + 1) # At(s, n + 1)
      BY <3>1, <1>2
    <3>4. nx2[At(s, i + n)] = nx[At(s, i + n)]
      BY <3>1, <3>3, <1>0, <1>2, <1>9
    <3>5. pv2[At(s, (i + n) + 1)] = pv[At(s, (i + n) + 1)]
      BY <3>1, <3>3, <1>0, <1>2, <1>9
    <3>. QED
      BY <3>1, <3>2, <3>4, <3>5, <1>8
  <2>. QED
    BY <2>1, <2>2
<1>11. pv2[FakeHead] = None
  <2>1. n + 1 \in 0 .. L + 1 /\ n + 1 # 0 /\ 0 \in 0 .. L + 1
    BY <1>2, <1>3
  <2>2. FakeHead # At(s, n + 1) /\ FakeHead \in Node
    BY <2>1, <1>2 DEF Node
  <2>3. pv2[FakeHead] = pv[FakeHead]
    BY <2>1, <2>2, <1>0, <1>2, <1>9
  <2>. QED
    BY <2>3 DEF Linked
<1>12. nx2[FakeTail] = None
  <2>1. L + 1 \in 0 .. L + 1 /\ L + 1 > n
    BY <1>2, <1>3
  <2>2. FakeTail # FakeHead /\ FakeTail \in Node
    BY NodeAssumption DEF Node
  <2>3. nx2[FakeTail] = nx[FakeTail]
    BY <2>1, <2>2, <1>0, <1>2, <1>9
  <2>. QED
    BY <2>3 DEF Linked
<1>13. ASSUME NEW b \in Block \ Elements(t)
       PROVE  pv2[b] = None /\ nx2[b] = None
  <2>1. CASE \E k \in 1 .. n : b = s[k]
    BY <2>1, <1>0
  <2>2. CASE \A k \in 1 .. n : b # s[k]
    <3>1. b \notin Elements(s)
      BY <2>2, <1>4, <1>6
    <3>2. b # FakeHead /\ b \in Node /\ b # FakeTail
      BY NodeAssumption DEF Node
    <3>3. b # At(s, n + 1)
      <4>1. n + 1 = L + 1 \/ n + 1 \in 1 .. L
        BY <1>2, <1>3
      <4>. QED
        BY <3>1, <3>2, <4>1, <1>2
    <3>4. pv2[b] = pv[b] /\ nx2[b] = nx[b]
      BY <2>2, <3>2, <3>3, <1>0
    <3>. QED
      BY <3>1, <3>4 DEF Linked
  <2>. QED
    BY <2>1, <2>2
<1>. QED
  BY <1>4, <1>10, <1>11, <1>12, <1>13 DEF Linked, t, L

\* What remove does to the links of the i-th block and of its neighbours.
Removed(s, i, nx, pv, nx2, pv2) ==
  /\ nx2[At(s, i - 1)] = At(s, i + 1) /\ pv2[At(s, i + 1)] = At(s, i - 1)
  /\ nx2[s[i]] = None /\ pv2[s[i]] = None
  /\ \A b \in Node : b # At(s, i - 1) /\ b # s[i] => nx2[b] = nx[b]
  /\ \A b \in Node : b # At(s, i + 1) /\ b # s[i] => pv2[b] = pv[b]

\* Links that represented s represent it without its i-th block.
LEMMA RemoveLinks ==
  ASSUME NEW s \in Seq(Block), NEW i \in 1 .. Len(s), NEW nx, NEW pv, NEW nx2, NEW pv2,
         Linked(s, nx, pv), Removed(s, i, nx, pv, nx2, pv2)
  PROVE  Linked(Without(s, {s[i]}), nx2, pv2)
<1>0. /\ nx2[At(s, i - 1)] = At(s, i + 1) /\ pv2[At(s, i + 1)] = At(s, i - 1)
      /\ nx2[s[i]] = None /\ pv2[s[i]] = None
      /\ \A b \in Node : b # At(s, i - 1) /\ b # s[i] => nx2[b] = nx[b]
      /\ \A b \in Node : b # At(s, i + 1) /\ b # s[i] => pv2[b] = pv[b]
  BY DEF Removed
<1>. DEFINE t == Without(s, {s[i]})
            L == Len(s)
            up(k) == IF k < i THEN k ELSE k + 1
<1>1. Distinct(s)
  BY DEF Linked
<1>2. /\ L \in Nat /\ At(s, 0) = FakeHead /\ At(s, L + 1) = FakeTail
      /\ \A k \in 1 .. L : At(s, k) = s[k] /\ s[k] \in Block /\ s[k] \in Elements(s)
      /\ \A k \in 0 .. L + 1 : At(s, k) \in Node /\ At(s, k) # None
      /\ \A j, k \in 0 .. L + 1 : At(s, j) = At(s, k) => j = k
      /\ \A b \in Elements(s) : \E k \in 1 .. L : At(s, k) = b
      /\ Elements(s) \subseteq Block
  BY <1>1, AtFacts
<1>3. i \in Nat /\ i >= 1 /\ i <= L /\ i \in 0 .. L + 1
      /\ i - 1 \in 0 .. L + 1 /\ i + 1 \in 0 .. L + 1
  BY <1>2
<1>4. t \in Seq(Block) /\ Distinct(t) /\ Elements(t) = Elements(s) \ {s[i]}
  BY <1>1, WithoutElements
<1>5. Len(t) = L - 1 /\ \A k \in 1 .. L - 1 : t[k] = IF k < i THEN s[k] ELSE s[k + 1]
  BY <1>1, WithoutOne
<1>. HIDE DEF t, L
<1>6. \A k \in 0 .. L : At(t, k) = At(s, up(k))
  <2>1. At(t, 0) = At(s, up(0))
    BY <1>3 DEF At
  <2>2. ASSUME NEW k \in 1 .. L - 1 PROVE At(t, k) = At(s, up(k))
    <3>1. k # 0 /\ k # (L - 1) + 1 /\ up(k) \in 1 .. L
      BY <1>2, <1>3
    <3>2. At(t, k) = t[k]
      BY <3>1, <1>5 DEF At
    <3>3. t[k] = s[up(k)]
      BY <1>5
    <3>. QED
      BY <3>1, <3>2, <3>3, <1>2
  <2>3. At(t, L) = At(s, up(L))
    <3>1. L # 0 /\ L = (L - 1) + 1 /\ up(L) = L + 1
      BY <1>2, <1>3
    <3>2. At(t, L) = FakeTail
      BY <3>1, <1>5 DEF At
    <3>. QED
      BY <3>1, <3>2, <1>2
  <2>4. \A k \in 0 .. L : k = 0 \/ k \in 1 .. L - 1 \/ k = L
    BY <1>2
  <2>. QED
    BY <2>1, <2>2, <2>3, <2>4
<1>7. \A k \in 0 .. L : nx[At(s, k)] = At(s, k + 1) /\ pv[At(s, k + 1)] = At(s, k)
  BY DEF Linked, L
<1>8. At(s, i) = s[i]
  BY <1>2, <1>3
<1>9. ASSUME NEW k \in 0 .. L - 1
      PROVE  nx2[At(t, k)] = At(t, k + 1) /\ pv2[At(t, k + 1)] = At(t, k)
  <2>0. /\ k \in 0 .. L /\ k + 1 \in 0 .. L /\ up(k) \in 0 .. L + 1 /\ up(k + 1) \in 0 .. L + 1
        /\ up(k) # i /\ up(k + 1) # i
    BY <1>2, <1>3
  <2>1. At(t, k) = At(s, up(k)) /\ At(t, k + 1) = At(s, up(k + 1))
    BY <2>0, <1>6
  <2>2. CASE k = i - 1
    <3>1. up(k) = i - 1 /\ up(k + 1) = i + 1
      BY <2>2, <1>3
    <3>. QED
      BY <2>1, <3>1, <1>0
  <2>3. CASE k # i - 1
    <3>1. up(k) # i - 1 /\ up(k + 1) # i + 1 /\ up(k + 1) = up(k) + 1 /\ up(k) \in 0 .. L
      BY <2>3, <1>2, <1>3
    <3>. HIDE DEF up
    <3>2. At(s, up(k)) # At(s, i - 1) /\ At(s, up(k)) # s[i] /\ At(s, up(k)) \in Node
      BY <2>0, <3>1, <1>2, <1>3, <1>8
    <3>3. At(s, up(k + 1)) # At(s, i + 1) /\ At(s, up(k + 1)) # s[i] /\ At(s, up(k + 1)) \in Node
      BY <2>0, <3>1, <1>2, <1>3, <1>8
    <3>4. nx2[At(s, up(k))] = nx[At(s, up(k))] /\ pv2[At(s, up(k + 1))] = pv[At(s, up(k + 1))]
      BY <3>2, <3>3, <1>0
    <3>. QED
      BY <2>1, <3>1, <3>4, <1>7
  <2>. QED
    BY <2>2, <2>3
<1>10. pv2[FakeHead] = None
  <2>1. 0 \in 0 .. L + 1 /\ i + 1 # 0 /\ i # 0
    BY <1>2, <1>3
  <2>2. FakeHead # At(s, i + 1) /\ FakeHead # s[i] /\ FakeHead \in Node
    BY <2>1, <1>2, <1>3, <1>8
  <2>3. pv2[FakeHead] = pv[FakeHead]
    BY <2>2, <1>0
  <2>. QED
    BY <2>3 DEF Linked
<1>11. nx2[FakeTail] = None
  <2>1. L + 1 \in 0 .. L + 1 /\ i - 1 # L + 1 /\ i # L + 1
    BY <1>2, <1>3
  <2>2. FakeTail # At(s, i - 1) /\ FakeTail # s[i] /\ FakeTail \in Node
    BY <2>1, <1>2, <1>3, <1>8
  <2>3. nx2[FakeTail] = nx[FakeTail]
    BY <2>2, <1>0
  <2>. QED
    BY <2>3 DEF Linked
<1>12. ASSUME NEW b \in Block \ Elements(t)
       PROVE  pv2[b] = None /\ nx2[b] = None
  <2>1. CASE b = s[i]
    BY <2>1, <1>0
  <2>2. CASE b # s[i]
    <3>1. b \notin Elements(s)
      BY <2>2, <1>4
    <3>2. b # FakeHead /\ b \in Node /\ b # FakeTail
      BY NodeAssumption DEF Node
    <3>3. b # At(s, i - 1) /\ b # At(s, i + 1)
      <4>1. (i - 1 = 0 \/ i - 1 \in 1 .. L) /\ (i + 1 = L + 1 \/ i + 1 \in 1 .. L)
        BY <1>2, <1>3
      <4>. QED
        BY <3>1, <3>2, <4>1, <1>2
    <3>4. pv2[b] = pv[b] /\ nx2[b] = nx[b]
      BY <2>2, <3>2, <3>3, <1>0
    <3>. QED
      BY <3>1, <3>4 DEF Linked
  <2>. QED
    BY <2>1, <2>2
<1>. QED
  BY <1>4, <1>5, <1>9, <1>10, <1>11, <1>12 DEF Linked, t

\* What append and append_n do to the links: the blocks of e are linked one behind
\* the other between the last block of s and the fake tail.
Appended(s, e, nx, pv, nx2, pv2) ==
  /\ nx2[At(s, Len(s))] = e[1] /\ pv2[FakeTail] = e[Len(e)]
  /\ \A k \in 1 .. Len(e) : /\ nx2[e[k]] = At(e, k + 1)
                            /\ pv2[e[k]] = IF k = 1 THEN At(s, Len(s)) ELSE e[k - 1]
  /\ \A b \in Node : b # At(s, Len(s)) /\ b \notin Elements(e) => nx2[b] = nx[b]
  /\ \A b \in Node : b # FakeTail /\ b \notin Elements(e) => pv2[b] = pv[b]

\* Links that represented s represent s with the new blocks e behind it.
LEMMA AppendLinks ==
  ASSUME NEW s \in Seq(Block), NEW e \in Seq(Block), Len(e) > 0, Distinct(e),
         Elements(s) \cap Elements(e) = {}, NEW nx, NEW pv, NEW nx2, NEW pv2,
         Linked(s, nx, pv), Appended(s, e, nx, pv, nx2, pv2)
  PROVE  Linked(s \o e, nx2, pv2)
<1>0. /\ nx2[At(s, Len(s))] = e[1] /\ pv2[FakeTail] = e[Len(e)]
      /\ \A k \in 1 .. Len(e) : /\ nx2[e[k]] = At(e, k + 1)
                                /\ pv2[e[k]] = IF k = 1 THEN At(s, Len(s)) ELSE e[k - 1]
      /\ \A b \in Node : b # At(s, Len(s)) /\ b \notin Elements(e) => nx2[b] = nx[b]
      /\ \A b \in Node : b # FakeTail /\ b \notin Elements(e) => pv2[b] = pv[b]
  BY DEF Appended
<1>. DEFINE t == s \o e
            L == Len(s)
            M == Len(e)
<1>1. Distinct(s)
  BY DEF Linked
<1>2. /\ L \in Nat /\ At(s, 0) = FakeHead /\ At(s, L + 1) = FakeTail
      /\ \A k \in 1 .. L : At(s, k) = s[k] /\ s[k] \in Block /\ s[k] \in Elements(s)
      /\ \A k \in 0 .. L + 1 : At(s, k) \in Node /\ At(s, k) # None
      /\ \A j, k \in 0 .. L + 1 : At(s, j) = At(s, k) => j = k
      /\ \A b \in Elements(s) : \E k \in 1 .. L : At(s, k) = b
      /\ Elements(s) \subseteq Block
  BY <1>1, AtFacts
<1>3. /\ M \in Nat /\ M >= 1 /\ At(e, M + 1) = FakeTail
      /\ \A k \in 1 .. M : At(e, k) = e[k] /\ e[k] \in Block /\ e[k] \in Elements(e)
      /\ \A b \in Elements(e) : \E k \in 1 .. M : At(e, k) = b
      /\ Elements(e) \subseteq Block
  BY AtFacts
<1>4. t \in Seq(Block) /\ Len(t) = L + M /\ Distinct(t) /\ Elements(t) = Elements(s) \cup Elements(e)
  BY <1>1, ConcatElements
<1>5. \A k \in 1 .. L + M : t[k] = IF k <= L THEN s[k] ELSE e[k - L]
  BY <1>2, <1>3
<1>. HIDE DEF t, L, M
<1>6. /\ \A k \in 0 .. L : At(t, k) = At(s, k)
      /\ \A k \in 1 .. M + 1 : At(t, L + k) = At(e, k)
  <2>1. At(t, 0) = At(s, 0)
    BY DEF At
  <2>2. ASSUME NEW k \in 1 .. L PROVE At(t, k) = At(s, k)
    <3>1. k # 0 /\ k # (L + M) + 1 /\ k \in 1 .. L + M /\ k <= L
      BY <1>2, <1>3
    <3>2. At(t, k) = t[k]
      BY <3>1, <1>4 DEF At
    <3>. QED
      BY <3>1, <3>2, <1>5, <1>2
  <2>3. ASSUME NEW k \in 1 .. M PROVE At(t, L + k) = At(e, k)
    <3>1. L + k # 0 /\ L + k # (L + M) + 1 /\ L + k \in 1 .. L + M /\ ~(L + k <= L) /\ (L + k) - L = k
      BY <1>2, <1>3
    <3>2. At(t, L + k) = t[L + k]
      BY <3>1, <1>4 DEF At
    <3>. QED
      BY <3>1, <3>2, <1>5, <1>3
  <2>4. At(t, L + (M + 1)) = At(e, M + 1)
    <3>1. L + (M + 1) # 0 /\ L + (M + 1) = (L + M) + 1
      BY <1>2, <1>3
    <3>2. At(t, L + (M + 1)) = FakeTail
      BY <3>1, <1>4 DEF At
    <3>. QED
      BY <3>2, <1>3
  <2>5. (\A k \in 0 .. L : k = 0 \/ k \in 1 .. L) /\ (\A k \in 1 .. M + 1 : k \in 1 .. M \/ k = M + 1)
    BY <1>2, <1>3
  <2>. QED
    BY <2>1, <2>2, <2>3, <2>4, <2>5
<1>7. \A k \in 0 .. L : nx[At(s, k)] = At(s, k + 1) /\ pv[At(s, k + 1)] = At(s, k)
  BY DEF Linked, L
<1>8. \A k \in 0 .. L + 1 : At(s, k) \notin Elements(e)
  <2>1. \A k \in 0 .. L + 1 : k = 0 \/ k = L + 1 \/ k \in 1 .. L
    BY <1>2
  <2>. QED
    BY <2>1, <1>2, <1>3, NodeAssumption, SMTT(30)
<1>9. ASSUME NEW k \in 0 .. L + M
      PROVE  nx2[At(t, k)] = At(t, k + 1) /\ pv2[At(t, k + 1)] = At(t, k)
  <2>1. CASE k < L
    <3>1. /\ k \in 0 .. L /\ k + 1 \in 0 .. L /\ k \in 0 .. L + 1 /\ L \in 0 .. L + 1
          /\ k + 1 \in 0 .. L + 1 /\ L + 1 \in 0 .. L + 1 /\ k # L /\ k + 1 # L + 1
      BY <2>1, <1>2
    <3>2. At(s, k) # At(s, L) /\ At(s, k + 1) # FakeTail
      BY <3>1, <1>2
    <3>3. nx2[At(s, k)] = nx[At(s, k)] /\ pv2[At(s, k + 1)] = pv[At(s, k + 1)]
      BY <3>1, <3>2, <1>0, <1>2, <1>8 DEF L
    <3>. QED
      BY <3>1, <3>3, <1>6, <1>7
  <2>2. CASE k = L
    <3>1. L \in 0 .. L /\ 1 \in 1 .. M + 1 /\ 1 \in 1 .. M
      BY <1>2, <1>3
    <3>2. At(t, k) = At(s, L) /\ At(t, k + 1) = e[1]
      BY <2>2, <3>1, <1>3, <1>6
    <3>. QED
      BY <3>1, <3>2, <1>0 DEF L, M
  <2>3. CASE k > L
    <3>1. PICK j \in 1 .. M : k = L + j
      <4>1. k - L \in 1 .. M /\ k = L + (k - L)
        BY <2>3, <1>2, <1>3
      <4>. QED
        BY <4>1
    <3>2. /\ j \in 1 .. M + 1 /\ j + 1 \in 1 .. M + 1 /\ k + 1 = L + (j + 1)
          /\ (j + 1 = M + 1 => j = M) /\ (j + 1 # M + 1 => j + 1 \in 1 .. M)
          /\ j + 1 # 1 /\ (j + 1) - 1 = j
      BY <3>1, <1>2, <1>3
    <3>3. At(t, k) = e[j] /\ At(t, k + 1) = At(e, j + 1)
      BY <3>1, <3>2, <1>3, <1>6
    <3>4. nx2[e[j]] = At(e, j + 1)
      BY <1>0 DEF M
    <3>5. CASE j + 1 = M + 1
      BY <3>2, <3>3, <3>4, <3>5, <1>0, <1>3 DEF M
    <3>6. CASE j + 1 # M + 1
      <4>1. At(e, j + 1) = e[j + 1] /\ j + 1 \in 1 .. Len(e)
        BY <3>2, <3>6, <1>3 DEF M
      <4>2. pv2[e[j + 1]] = e[j]
        BY <4>1, <3>2, <1>0
      <4>. QED
        BY <3>3, <3>4, <4>1, <4>2
    <3>. QED
      BY <3>5, <3>6
  <2>. QED
    BY <2>1, <2>2, <2>3, <1>2, <1>3
<1>10. pv2[FakeHead] = None
  <2>1. FakeHead # FakeTail /\ FakeHead \notin Elements(e) /\ FakeHead \in Node
    BY <1>3, NodeAssumption DEF Node
  <2>2. pv2[FakeHead] = pv[FakeHead]
    BY <2>1, <1>0
  <2>. QED
    BY <2>2 DEF Linked
<1>11. nx2[FakeTail] = None
  <2>0. L + 1 \in 0 .. L + 1 /\ L \in 0 .. L + 1 /\ L # L + 1
    BY <1>2
  <2>1. FakeTail # At(s, L) /\ FakeTail \notin Elements(e) /\ FakeTail \in Node
    BY <2>0, <1>2, <1>8
  <2>2. nx2[FakeTail] = nx[FakeTail]
    BY <2>1, <1>0 DEF L
  <2>. QED
    BY <2>2 DEF Linked
<1>12. ASSUME NEW b \in Block \ Elements(t)
       PROVE  pv2[b] = None /\ nx2[b] = None
  <2>1. b \notin Elements(s) /\ b \notin Elements(e)
    BY <1>4
  <2>2. b # FakeHead /\ b \in Node /\ b # FakeTail
    BY NodeAssumption DEF Node
  <2>3. b # At(s, L)
    <3>1. L = 0 \/ L \in 1 .. L
      BY <1>2
    <3>. QED
      BY <2>1, <2>2, <3>1, <1>2
  <2>4. pv2[b] = pv[b] /\ nx2[b] = nx[b]
    BY <2>1, <2>2, <2>3, <1>0 DEF L
  <2>. QED
    BY <2>1, <2>4 DEF Linked
<1>. QED
  BY <1>4, <1>9, <1>10, <1>11, <1>12 DEF Linked, t

----------------------------------------------------------------------------

\* get_all_free_blocks over the links nx.
Walk(nx) ==
  LET hop[k \in 0 .. Cardinality(Block)] ==
        IF k = 0 THEN nx[FakeHead]
        ELSE IF hop[k - 1] \in Block THEN nx[hop[k - 1]] ELSE hop[k - 1]
      met == {k \in 0 .. Cardinality(Block) : hop[k] \in Block}
  IN [k \in 1 .. Cardinality(met) |-> hop[k - 1]]

\* A list of distinct blocks is no longer than the pool.
LEMMA ListFits ==
  ASSUME NEW s \in Seq(Block), Distinct(s)
  PROVE  Cardinality(Block) \in Nat /\ Len(s) <= Cardinality(Block)
<1>1. IsFiniteSet(Block) /\ Cardinality(Block) \in Nat
  BY NodeAssumption, FS_CardinalityType
<1>2. Len(s) \in Nat /\ DOMAIN s = 1 .. Len(s) /\ s \in [1 .. Len(s) -> Block]
  OBVIOUS
<1>3. IsFiniteSet(1 .. Len(s)) /\ Cardinality(1 .. Len(s)) = Len(s)
  BY <1>2, IntervalSize
<1>4. IsInjective(s) /\ s \in Injection(1 .. Len(s), Block)
  BY <1>2 DEF Distinct, IsInjective, Injection
<1>5. Cardinality(1 .. Len(s)) <= Cardinality(Block)
  BY <1>1, <1>4, FS_Injection
<1>. QED
  BY <1>1, <1>3, <1>5

\* A walk along the links of s meets the blocks of s in their order.
LEMMA WalkMeets ==
  ASSUME NEW s \in Seq(Block), NEW nx, NEW pv, Linked(s, nx, pv)
  PROVE  Walk(nx) = s
<1>. DEFINE L == Len(s)
            N == Cardinality(Block)
<1>. DEFINE hop[k \in 0 .. N] ==
        IF k = 0 THEN nx[FakeHead]
        ELSE IF hop[k - 1] \in Block THEN nx[hop[k - 1]] ELSE hop[k - 1]
<1>. DEFINE met == {k \in 0 .. N : hop[k] \in Block}
            w == [k \in 0 .. N |-> IF k < L THEN s[k + 1] ELSE FakeTail]
<1>1. Walk(nx) = [k \in 1 .. Cardinality(met) |-> hop[k - 1]]
  BY DEF Walk
<1>2. Distinct(s)
  BY DEF Linked
<1>3. /\ L \in Nat /\ At(s, 0) = FakeHead /\ At(s, L + 1) = FakeTail
      /\ \A k \in 1 .. L : At(s, k) = s[k] /\ s[k] \in Block
  BY <1>2, AtFacts
<1>4. N \in Nat /\ L <= N
  BY <1>2, ListFits
<1>. HIDE DEF N, L
<1>5. \A k \in 0 .. L : nx[At(s, k)] = At(s, k + 1)
  BY DEF Linked, L
<1>6. nx[FakeHead] = w[0]
  <2>1. CASE L = 0
    BY <2>1, <1>3, <1>4, <1>5
  <2>2. CASE L # 0
    BY <2>2, <1>3, <1>4, <1>5
  <2>. QED
    BY <2>1, <2>2
<1>7. ASSUME NEW k \in 1 .. N
      PROVE  w[k] = IF w[k - 1] \in Block THEN nx[w[k - 1]] ELSE w[k - 1]
  <2>0. k \in 0 .. N /\ k - 1 \in 0 .. N
    BY <1>4
  <2>1. CASE k < L
    <3>1. k - 1 < L /\ (k - 1) + 1 = k /\ k \in 1 .. L /\ k \in 0 .. L /\ k + 1 \in 1 .. L
      BY <2>1, <1>3, <1>4
    <3>2. w[k - 1] = s[k] /\ w[k] = s[k + 1]
      BY <2>0, <2>1, <3>1
    <3>. QED
      BY <3>1, <3>2, <1>3, <1>5
  <2>2. CASE k = L
    <3>1. k - 1 < L /\ (k - 1) + 1 = k /\ k \in 1 .. L /\ k \in 0 .. L /\ ~(k < L)
      BY <2>2, <1>3, <1>4
    <3>2. w[k - 1] = s[k] /\ w[k] = FakeTail
      BY <2>0, <3>1
    <3>. QED
      BY <2>2, <3>1, <3>2, <1>3, <1>5
  <2>3. CASE k > L
    <3>1. ~(k - 1 < L) /\ ~(k < L)
      BY <2>3, <1>3, <1>4
    <3>2. w[k - 1] = FakeTail /\ w[k] = FakeTail
      BY <2>0, <3>1
    <3>. QED
      BY <3>2, NodeAssumption
  <2>. QED
    BY <2>1, <2>2, <2>3, <1>3, <1>4
<1>8. w = [k \in 0 .. N |-> IF k = 0 THEN nx[FakeHead]
                            ELSE IF w[k - 1] \in Block THEN nx[w[k - 1]] ELSE w[k - 1]]
  <2>. HIDE DEF w
  <2>1. DOMAIN w = 0 .. N /\ w = [k \in 0 .. N |-> w[k]]
    BY DEF w
  <2>2. \A k \in 0 .. N : k = 0 \/ k \in 1 .. N
    BY <1>4
  <2>. QED
    BY <2>1, <2>2, <1>6, <1>7
<1>9. hop = [k \in 0 .. N |-> IF k = 0 THEN nx[FakeHead]
                              ELSE IF hop[k - 1] \in Block THEN nx[hop[k - 1]] ELSE hop[k - 1]]
  <2>. HIDE DEF w
  <2>. QED
    BY <1>8
<1>. HIDE DEF hop, w
<1>10. \A k \in 0 .. N : hop[k] = w[k]
  <2>. DEFINE S == {k \in 0 .. N : hop[k] = w[k]}
  <2>1. 0 \in S
    BY <1>4, <1>6, <1>9
  <2>2. ASSUME NEW k \in 0 .. N - 1, k \in S PROVE k + 1 \in S
    <3>1. k + 1 \in 1 .. N /\ k + 1 \in 0 .. N /\ k + 1 # 0 /\ (k + 1) - 1 = k
      BY <1>4
    <3>2. hop[k + 1] = IF hop[k] \in Block THEN nx[hop[k]] ELSE hop[k]
      BY <3>1, <1>9
    <3>3. w[k + 1] = IF w[k] \in Block THEN nx[w[k]] ELSE w[k]
      BY <3>1, <1>7
    <3>. QED
      BY <2>2, <3>1, <3>2, <3>3
  <2>. HIDE DEF S
  <2>3. \A k \in 0 .. N : k \in S
    BY <1>4, <2>1, <2>2, SetInduction
  <2>. QED
    BY <2>3 DEF S
<1>11. met = 0 .. L - 1
  BY <1>3, <1>4, <1>10, NodeAssumption DEF w
<1>12. Cardinality(met) = L
  <2>1. Cardinality(0 .. L - 1) = IF 0 > L - 1 THEN 0 ELSE (L - 1) - 0 + 1
    BY <1>3, FS_Interval
  <2>2. (IF 0 > L - 1 THEN 0 ELSE (L - 1) - 0 + 1) = L
    BY <1>3
  <2>. HIDE DEF met
  <2>. QED
    BY <1>11, <2>1, <2>2
<1>13. \A k \in 1 .. L : hop[k - 1] = s[k]
  BY <1>3, <1>4, <1>10 DEF w
<1>14. s = [k \in 1 .. L |-> s[k]]
  BY DEF L
<1>. HIDE DEF met
<1>. QED
  BY <1>1, <1>12, <1>13, <1>14

\* __init__ links the list it is given.
LEMMA InitLinks ==
  ASSUME Init
  PROVE  Linked(InitialOrder, next, prev)
<1>. DEFINE s == InitialOrder
            c == Chain(s)
            L == Len(s)
<1>1. s \in Seq(Block) /\ Distinct(s)
  BY NodeAssumption
<1>2. /\ L \in Nat /\ At(s, 0) = FakeHead /\ At(s, L + 1) = FakeTail
      /\ \A i \in 0 .. L + 1 : At(s, i) \in Node
      /\ \A i, j \in 0 .. L + 1 : At(s, i) = At(s, j) => i = j
      /\ \A k \in 1 .. L : At(s, k) = s[k] /\ s[k] \in Elements(s)
  BY <1>1, AtFacts
<1>3. Len(c) = L + 2 /\ \A i \in 1 .. L + 2 : c[i] = At(s, i - 1)
  BY <1>1, ChainAt
<1>4. /\ next = [b \in Node |-> IF \E i \in 1 .. Len(c) - 1 : c[i] = b
                                THEN c[(CHOOSE i \in 1 .. Len(c) - 1 : c[i] = b) + 1]
                                ELSE None]
      /\ prev = [b \in Node |-> IF \E i \in 2 .. Len(c) : c[i] = b
                                THEN c[(CHOOSE i \in 2 .. Len(c) : c[i] = b) - 1]
                                ELSE None]
  BY DEF Init
<1>. HIDE DEF c, L, s
<1>5. \A i, j \in 1 .. L + 2 : c[i] = c[j] => i = j
  <2>. SUFFICES ASSUME NEW i \in 1 .. L + 2, NEW j \in 1 .. L + 2, c[i] = c[j]
                PROVE  i = j
    OBVIOUS
  <2>1. i - 1 \in 0 .. L + 1 /\ j - 1 \in 0 .. L + 1
    BY <1>2
  <2>2. i - 1 = j - 1
    BY <2>1, <1>2, <1>3
  <2>. QED
    BY <2>2, <1>2
<1>6. \A i \in 1 .. L + 2 : c[i] \in Node
  <2>1. \A i \in 1 .. L + 2 : i - 1 \in 0 .. L + 1
    BY <1>2
  <2>. QED
    BY <2>1, <1>2, <1>3
<1>7. ASSUME NEW i \in 1 .. L + 1
      PROVE  next[c[i]] = c[i + 1] /\ prev[c[i + 1]] = c[i]
  <2>1. /\ i \in 1 .. L + 2 /\ i + 1 \in 1 .. L + 2 /\ (i + 1) - 1 = i
        /\ i \in 1 .. Len(c) - 1 /\ i + 1 \in 2 .. Len(c)
        /\ (\A j \in 1 .. Len(c) - 1 : j \in 1 .. L + 2) /\ (\A j \in 2 .. Len(c) : j \in 1 .. L + 2)
    BY <1>2, <1>3
  <2>2. (CHOOSE j \in 1 .. Len(c) - 1 : c[j] = c[i]) = i
    BY <2>1, <1>5
  <2>3. (CHOOSE j \in 2 .. Len(c) : c[j] = c[i + 1]) = i + 1
    BY <2>1, <1>5
  <2>4. c[i] \in Node /\ c[i + 1] \in Node
    BY <2>1, <1>6
  <2>5. next[c[i]] = c[i + 1]
    BY <1>4, <2>1, <2>2, <2>4
  <2>6. prev[c[i + 1]] = c[(i + 1) - 1]
    BY <1>4, <2>1, <2>3, <2>4
  <2>. QED
    BY <2>1, <2>5, <2>6
<1>8. prev[FakeHead] = None
  <2>1. 1 \in 1 .. L + 2 /\ 1 - 1 = 0 /\ \A j \in 2 .. Len(c) : j \in 1 .. L + 2 /\ j # 1
    BY <1>2, <1>3
  <2>2. c[1] = FakeHead /\ FakeHead \in Node
    BY <2>1, <1>2, <1>3 DEF Node
  <2>. QED
    BY <2>1, <2>2, <1>4, <1>5
<1>9. next[FakeTail] = None
  <2>1. L + 2 \in 1 .. L + 2 /\ (L + 2) - 1 = L + 1 /\ \A j \in 1 .. Len(c) - 1 : j \in 1 .. L + 2 /\ j # L + 2
    BY <1>2, <1>3
  <2>2. c[L + 2] = FakeTail /\ FakeTail \in Node
    BY <2>1, <1>2, <1>3 DEF Node
  <2>. QED
    BY <2>1, <2>2, <1>4, <1>5
<1>10. ASSUME NEW b \in Block \ Elements(s) PROVE prev[b] = None /\ next[b] = None
  <2>1. \A i \in 1 .. L + 2 : i - 1 = 0 \/ i - 1 = L + 1 \/ i - 1 \in 1 .. L
    BY <1>2
  <2>2. \A i \in 1 .. L + 2 : c[i] # b
    BY <2>1, <1>2, <1>3, NodeAssumption
  <2>3. (\A j \in 1 .. Len(c) - 1 : j \in 1 .. L + 2) /\ (\A j \in 2 .. Len(c) : j \in 1 .. L + 2)
    BY <1>2, <1>3
  <2>4. b \in Node
    BY DEF Node
  <2>. QED
    BY <2>2, <2>3, <2>4, <1>4
<1>11. \A i \in 1 .. Len(c) - 1 : next[c[i]] = c[i + 1] /\ prev[c[i + 1]] = c[i]
  <2>1. \A i \in 1 .. Len(c) - 1 : i \in 1 .. L + 1
    BY <1>2, <1>3
  <2>. QED
    BY <2>1, <1>7
<1>12. Linked(s, next, prev)
  BY <1>1, <1>8, <1>9, <1>10, <1>11, LinkedChain DEF c
<1>. QED
  BY <1>12 DEF s

----------------------------------------------------------------------------

\* The links hold the list s and the count its length.
Holds(s) == s \in Seq(Block) /\ Len(s) = numFree /\ Linked(s, next, prev)

\* What a step of EvictionQueue makes of the list s, and what it returns.
Effect(s, t, out) ==
  \/ \E n \in 0 .. Cardinality(Block) :
       n <= Len(s) /\ out = TakeFirst(s, n) /\ t = DropFirst(s, n)
  \/ \E b \in Block : b \in Elements(s) /\ t = Without(s, {b}) /\ out = <<>>
  \/ \E n \in 0 .. Cardinality(Block) : \E bs \in [1 .. n -> Block] :
       Distinct(bs) /\ Elements(bs) \cap Elements(s) = {} /\ t = s \o bs /\ out = <<>>

\* What a linked list says of its first nodes, its last one and a linked block.
LEMMA HoldsFacts ==
  ASSUME NEW s, Holds(s)
  PROVE  /\ s \in Seq(Block) /\ Distinct(s) /\ Len(s) = numFree /\ numFree \in Nat
         /\ Linked(s, next, prev)
         /\ \A i \in 0 .. numFree : next[At(s, i)] = At(s, i + 1) /\ prev[At(s, i + 1)] = At(s, i)
         /\ prev[FakeTail] = At(s, numFree) /\ next[FakeHead] = At(s, 1)
         /\ \A b \in Block : Unlinked(b) <=> b \notin Elements(s)
         /\ numFree <= Cardinality(Block) /\ Cardinality(Block) \in Nat
<1>1. s \in Seq(Block) /\ Distinct(s) /\ Len(s) = numFree /\ numFree \in Nat /\ Linked(s, next, prev)
  BY DEF Holds, Linked
<1>2. \A i \in 0 .. numFree : next[At(s, i)] = At(s, i + 1) /\ prev[At(s, i + 1)] = At(s, i)
  BY <1>1 DEF Linked
<1>3. /\ At(s, 0) = FakeHead /\ At(s, numFree + 1) = FakeTail
      /\ \A i \in 0 .. numFree + 1 : At(s, i) \in Node /\ At(s, i) # None
      /\ \A b \in Elements(s) : \E i \in 1 .. numFree : At(s, i) = b
  BY <1>1, AtFacts
<1>4. prev[FakeTail] = At(s, numFree) /\ next[FakeHead] = At(s, 1)
  <2>1. numFree \in 0 .. numFree /\ 0 \in 0 .. numFree /\ 0 + 1 = 1
    BY <1>1
  <2>. QED
    BY <2>1, <1>2, <1>3
<1>5. ASSUME NEW b \in Block PROVE Unlinked(b) <=> b \notin Elements(s)
  <2>1. CASE b \in Elements(s)
    <3>1. PICK i \in 1 .. numFree : At(s, i) = b
      BY <2>1, <1>3
    <3>2. i \in 0 .. numFree /\ i + 1 \in 0 .. numFree + 1
      BY <1>1
    <3>3. next[b] # None
      BY <3>1, <3>2, <1>2, <1>3
    <3>. QED
      BY <2>1, <3>3 DEF Unlinked
  <2>2. CASE b \notin Elements(s)
    BY <2>2, <1>1 DEF Linked, Unlinked
  <2>. QED
    BY <2>1, <2>2
<1>6. numFree <= Cardinality(Block) /\ Cardinality(Block) \in Nat
  BY <1>1, ListFits
<1>. QED
  BY <1>1, <1>2, <1>4, <1>5, <1>6

\* popleft and popleft_n: with the count right, the walk stays on the list.
LEMMA PopStep ==
  ASSUME TypeOK, NEW s, Holds(s),
         \/ PopLeft
         \/ \E n \in 0 .. Cardinality(Block) : PopLeftN(n)
  PROVE  TypeOK' /\ \E t : Holds(t)' /\ Effect(s, t, ret')
<1>. DEFINE L == numFree
<1>1. /\ s \in Seq(Block) /\ Distinct(s) /\ Len(s) = L /\ L \in Nat /\ Linked(s, next, prev)
      /\ \A i \in 0 .. L : next[At(s, i)] = At(s, i + 1) /\ prev[At(s, i + 1)] = At(s, i)
      /\ next[FakeHead] = At(s, 1) /\ L <= Cardinality(Block) /\ Cardinality(Block) \in Nat
  BY HoldsFacts
<1>2. /\ At(s, 0) = FakeHead /\ At(s, L + 1) = FakeTail
      /\ \A i \in 1 .. L : At(s, i) = s[i] /\ s[i] \in Block
      /\ \A i \in 0 .. L + 1 : At(s, i) \in Node /\ At(s, i) # None
      /\ \A i, j \in 0 .. L + 1 : At(s, i) = At(s, j) => i = j
  BY <1>1, AtFacts
<1>3. TypeOK
  OBVIOUS
<1>4. FakeHead \in Node /\ FakeTail \in Node /\ None \notin Node /\ DOMAIN next = Node /\ DOMAIN prev = Node
  BY <1>3, NodeAssumption DEF TypeOK, Node
<1>5. ASSUME NEW n \in 1 .. L, Linked(DropFirst(s, n), next', prev'), numFree' = L - n,
             ret' = TakeFirst(s, n), next' \in [Node -> Node \cup {None}],
             prev' \in [Node -> Node \cup {None}]
      PROVE  TypeOK' /\ \E t : Holds(t)' /\ Effect(s, t, ret')
  <2>1. n \in 0 .. L /\ n \in 0 .. Cardinality(Block) /\ n <= L /\ L - n \in Nat
    BY <1>1
  <2>2. DropFirst(s, n) \in Seq(Block) /\ Len(DropFirst(s, n)) = L - n /\ TakeFirst(s, n) \in Seq(Block)
    BY <2>1, <1>1, SplitElements, ZenonT(30)
  <2>3. TakeFirst(s, n) \in Seq(Node)
    BY <2>2 DEF Node
  <2>4. TypeOK'
    BY <2>1, <2>3, <1>5 DEF TypeOK
  <2>5. Holds(DropFirst(s, n))'
    BY <2>2, <1>5 DEF Holds
  <2>6. Effect(s, DropFirst(s, n), ret')
    BY <2>1, <1>1, <1>5 DEF Effect
  <2>. QED
    BY <2>4, <2>5, <2>6
<1>6. CASE PopLeft
  <2>. DEFINE first == next[FakeHead]
              second == next[first]
  <2>1. /\ first \notin {FakeTail, None} /\ second # None
        /\ next' = [next EXCEPT ![FakeHead] = second, ![first] = None]
        /\ prev' = [prev EXCEPT ![second] = FakeHead, ![first] = None]
        /\ numFree' = numFree - 1 /\ ret' = <<first>>
    BY <1>6 DEF PopLeft
  <2>2. L # 0
    BY <2>1, <1>1, <1>2
  <2>3. 1 \in 1 .. L /\ 1 \in 0 .. L /\ 1 + 1 = 2 /\ 2 \in 0 .. L + 1 /\ 1 \in 0 .. L + 1 /\ 0 \in 0 .. L + 1
    BY <2>2, <1>1
  <2>4. first = s[1] /\ first = At(s, 1) /\ second = At(s, 2) /\ first \in Node /\ second \in Node
        /\ first # FakeHead /\ second # first /\ second # FakeHead
    BY <2>3, <1>1, <1>2
  <2>. HIDE DEF first, second
  <2>5. /\ next'[FakeHead] = At(s, 1 + 1) /\ prev'[At(s, 1 + 1)] = FakeHead
        /\ next'[s[1]] = None /\ prev'[s[1]] = None
        /\ \A b \in Node : b # FakeHead /\ b # s[1] => next'[b] = next[b]
        /\ \A b \in Node : b # At(s, 1 + 1) /\ b # s[1] => prev'[b] = prev[b]
    BY <2>1, <2>3, <2>4, <1>4
  <2>6. Linked(DropFirst(s, 1), next', prev')
    <3>1. \A k \in 1 .. 1 : k = 1
      OBVIOUS
    <3>2. Popped(s, 1, next, prev, next', prev')
      BY <3>1, <2>5 DEF Popped
    <3>. QED
      BY <3>1, <2>3, <3>2, <1>1, PopLinks
  <2>7. next' \in [Node -> Node \cup {None}] /\ prev' \in [Node -> Node \cup {None}]
    BY <2>1, <2>4, <1>3, <1>4 DEF TypeOK
  <2>8. TakeFirst(s, 1) = <<first>>
    <3>1. TakeFirst(s, 1) = [k \in 1 .. 1 |-> s[k]]
      BY <2>3, <1>1 DEF TakeFirst
    <3>2. <<first>> = [k \in 1 .. 1 |-> first]
      OBVIOUS
    <3>4. \A k \in 1 .. 1 : k = 1
      OBVIOUS
    <3>3. \A k \in 1 .. 1 : s[k] = first
      BY <2>4, <3>4
    <3>. QED
      BY <3>1, <3>2, <3>3
  <2>. QED
    BY <2>1, <2>3, <2>6, <2>7, <2>8, <1>5
<1>7. ASSUME NEW n \in 0 .. Cardinality(Block), PopLeftN(n)
      PROVE  TypeOK' /\ \E t : Holds(t)' /\ Effect(s, t, ret')
  <2>1. CASE n = 0 /\ ret' = <<>> /\ UNCHANGED <<prev, next, numFree>>
    <3>1. TakeFirst(s, 0) = <<>> /\ DropFirst(s, 0) = s
      BY <1>1 DEF TakeFirst, DropFirst
    <3>2. 0 \in 0 .. Cardinality(Block) /\ 0 <= Len(s)
      BY <1>1
    <3>3. Effect(s, s, ret')
      BY <2>1, <3>1, <3>2 DEF Effect
    <3>4. TypeOK'
      BY <2>1, <1>3 DEF TypeOK
    <3>5. Holds(s)'
      BY <2>1 DEF Holds
    <3>. QED
      BY <3>3, <3>4, <3>5
  <2>2. CASE n > 0 /\ numFree >= n /\ numFree' = numFree - n /\
             \E bs \in [1 .. n -> Node] :
               /\ IsWalk(bs)
               /\ next' = [b \in Node |-> IF b = FakeHead /\ next[bs[n]] # None THEN next[bs[n]]
                                     ELSE IF b \in Elements(bs) THEN None ELSE next[b]]
               /\ prev' = [b \in Node |-> IF b = next[bs[n]] THEN FakeHead
                                     ELSE IF b \in Elements(bs) THEN None ELSE prev[b]]
               /\ ret' = bs
    <3>0. n \in 1 .. L /\ n \in Nat /\ n <= L
      BY <2>2, <1>1
    <3>1. PICK bs \in [1 .. n -> Node] :
               /\ IsWalk(bs)
               /\ next' = [b \in Node |-> IF b = FakeHead /\ next[bs[n]] # None THEN next[bs[n]]
                                     ELSE IF b \in Elements(bs) THEN None ELSE next[b]]
               /\ prev' = [b \in Node |-> IF b = next[bs[n]] THEN FakeHead
                                     ELSE IF b \in Elements(bs) THEN None ELSE prev[b]]
               /\ ret' = bs
      BY <2>2
    <3>2. \A k \in 1 .. n : bs[k] = s[k]
      <4>. DEFINE S == {k \in 0 .. n : k = 0 \/ bs[k] = s[k]}
      <4>1. 0 \in S
        BY <3>0
      <4>2. ASSUME NEW k \in 0 .. n - 1, k \in S PROVE k + 1 \in S
        <5>1. k + 1 \in 1 .. n /\ k + 1 \in 0 .. n /\ k \in 0 .. L /\ k + 1 \in 1 .. L
              /\ (k + 1 = 1 <=> k = 0) /\ (k + 1) - 1 = k /\ (k # 0 => k \in 1 .. n /\ k \in 1 .. L)
          BY <3>0, <1>1
        <5>2. bs[k + 1] = next[IF k = 0 THEN FakeHead ELSE bs[k]]
          BY <3>1, <5>1 DEF IsWalk
        <5>3. (IF k = 0 THEN FakeHead ELSE bs[k]) = At(s, k)
          BY <4>2, <5>1, <1>2
        <5>4. bs[k + 1] = s[k + 1]
          BY <5>1, <5>2, <5>3, <1>1, <1>2
        <5>. QED
          BY <5>1, <5>4
      <4>. HIDE DEF S
      <4>3. \A k \in 0 .. n : k \in S
        BY <3>0, <4>1, <4>2, SetInduction
      <4>4. \A k \in 1 .. n : k \in 0 .. n /\ k # 0
        BY <3>0
      <4>. QED
        BY <4>3, <4>4 DEF S
    <3>3. n \in 1 .. n /\ n \in 0 .. L /\ n + 1 \in 0 .. L + 1 /\ 0 \in 0 .. L + 1 /\ n + 1 # 0
      BY <3>0, <1>1
    <3>4. next[bs[n]] = At(s, n + 1)
      BY <3>0, <3>2, <3>3, <1>1, <1>2
    <3>5. At(s, n + 1) \in Node /\ At(s, n + 1) # None /\ At(s, n + 1) # FakeHead
      BY <3>3, <1>2
    <3>6. \A b : b \in Elements(bs) <=> \E k \in 1 .. n : b = s[k]
      BY <3>1, <3>2 DEF Elements
    <3>7. \A k \in 1 .. n : s[k] # FakeHead /\ s[k] # At(s, n + 1) /\ s[k] \in Node
      <4>1. \A k \in 1 .. n : k \in 1 .. L /\ k \in 0 .. L + 1 /\ k # 0 /\ k # n + 1
        BY <3>0, <1>1
      <4>. QED
        BY <4>1, <3>3, <1>2
    <3>8. /\ next'[FakeHead] = At(s, n + 1) /\ prev'[At(s, n + 1)] = FakeHead
          /\ \A k \in 1 .. n : next'[s[k]] = None /\ prev'[s[k]] = None
          /\ \A b \in Node : b # FakeHead /\ (\A k \in 1 .. n : b # s[k]) => next'[b] = next[b]
          /\ \A b \in Node : b # At(s, n + 1) /\ (\A k \in 1 .. n : b # s[k]) => prev'[b] = prev[b]
      <4>1. next' = [b \in Node |-> IF b = FakeHead THEN At(s, n + 1)
                                    ELSE IF b \in Elements(bs) THEN None ELSE next[b]]
        BY <3>1, <3>4, <3>5
      <4>2. prev' = [b \in Node |-> IF b = At(s, n + 1) THEN FakeHead
                                    ELSE IF b \in Elements(bs) THEN None ELSE prev[b]]
        BY <3>1, <3>4
      <4>3. next'[FakeHead] = At(s, n + 1) /\ prev'[At(s, n + 1)] = FakeHead
        BY <4>1, <4>2, <3>5, <1>4
      <4>4. \A k \in 1 .. n : next'[s[k]] = None /\ prev'[s[k]] = None
        BY <4>1, <4>2, <3>6, <3>7
      <4>5. \A b \in Node : b # FakeHead /\ (\A k \in 1 .. n : b # s[k]) => next'[b] = next[b]
        BY <4>1, <3>6
      <4>6. \A b \in Node : b # At(s, n + 1) /\ (\A k \in 1 .. n : b # s[k]) => prev'[b] = prev[b]
        BY <4>2, <3>6
      <4>. QED
        BY <4>3, <4>4, <4>5, <4>6
    <3>9. Linked(DropFirst(s, n), next', prev')
      <4>1. n \in 1 .. Len(s)
        BY <3>0, <1>1
      <4>2. Popped(s, n, next, prev, next', prev')
        BY <3>8 DEF Popped
      <4>. QED
        BY <4>1, <4>2, <1>1, PopLinks
    <3>10. next' \in [Node -> Node \cup {None}] /\ prev' \in [Node -> Node \cup {None}]
      BY <3>1, <3>4, <3>5, <1>3, <1>4 DEF TypeOK
    <3>11. TakeFirst(s, n) = bs
      <4>1. TakeFirst(s, n) = [k \in 1 .. n |-> s[k]]
        BY <3>0, <1>1 DEF TakeFirst
      <4>2. bs = [k \in 1 .. n |-> bs[k]]
        BY <3>1
      <4>. QED
        BY <4>1, <4>2, <3>2
    <3>. QED
      BY <2>2, <3>0, <3>1, <3>9, <3>10, <3>11, <1>5
  <2>. QED
    BY <2>1, <2>2, <1>7 DEF PopLeftN
<1>. QED
  BY <1>6, <1>7

\* remove takes out one block of the list: a block with links is one of it.
LEMMA RemoveStep ==
  ASSUME TypeOK, NEW s, Holds(s), NEW b \in Block, Remove(b)
  PROVE  TypeOK' /\ \E t : Holds(t)' /\ Effect(s, t, ret')
<1>. DEFINE L == numFree
            t == Without(s, {b})
<1>1. /\ s \in Seq(Block) /\ Distinct(s) /\ Len(s) = L /\ L \in Nat /\ Linked(s, next, prev)
      /\ \A i \in 0 .. L : next[At(s, i)] = At(s, i + 1) /\ prev[At(s, i + 1)] = At(s, i)
      /\ (Unlinked(b) <=> b \notin Elements(s))
  BY HoldsFacts
<1>2. /\ At(s, 0) = FakeHead /\ At(s, L + 1) = FakeTail
      /\ \A i \in 1 .. L : At(s, i) = s[i] /\ s[i] \in Block
      /\ \A i \in 0 .. L + 1 : At(s, i) \in Node /\ At(s, i) # None
      /\ \A i, j \in 0 .. L + 1 : At(s, i) = At(s, j) => i = j
      /\ \A e \in Elements(s) : \E i \in 1 .. L : At(s, i) = e
  BY <1>1, AtFacts
<1>3. b \in Elements(s)
  BY <1>1 DEF Remove, Unlinked
<1>4. PICK i \in 1 .. L : At(s, i) = b
  BY <1>2, <1>3
<1>5. /\ i \in 0 .. L /\ i - 1 \in 0 .. L /\ (i - 1) + 1 = i /\ i # 0
      /\ i - 1 \in 0 .. L + 1 /\ i + 1 \in 0 .. L + 1 /\ i \in 0 .. L + 1
      /\ i - 1 # i /\ i + 1 # i
  BY <1>1
<1>6. s[i] = b /\ b \in Node /\ next[b] = At(s, i + 1) /\ prev[b] = At(s, i - 1)
  BY <1>1, <1>2, <1>4, <1>5 DEF Node
<1>7. /\ At(s, i - 1) \in Node /\ At(s, i + 1) \in Node /\ At(s, i - 1) # b /\ At(s, i + 1) # b
  BY <1>2, <1>4, <1>5
<1>8. /\ next' = [next EXCEPT ![At(s, i - 1)] = At(s, i + 1), ![b] = None]
      /\ prev' = [prev EXCEPT ![At(s, i + 1)] = At(s, i - 1), ![b] = None]
      /\ numFree' = numFree - 1 /\ ret' = <<>>
  BY <1>6 DEF Remove
<1>9. next \in [Node -> Node \cup {None}] /\ prev \in [Node -> Node \cup {None}] /\ None \notin Node
  BY NodeAssumption DEF TypeOK, Node
<1>10. Removed(s, i, next, prev, next', prev')
  BY <1>6, <1>7, <1>8, <1>9 DEF Removed
<1>11. Linked(t, next', prev')
  <2>1. i \in 1 .. Len(s)
    BY <1>1
  <2>2. Linked(Without(s, {s[i]}), next', prev')
    BY <2>1, <1>1, <1>10, RemoveLinks
  <2>. QED
    BY <2>2, <1>6
<1>12. t \in Seq(Block)
  BY <1>1, WithoutElements
<1>13. Len(t) = L - 1
  <2>1. i \in 1 .. Len(s)
    BY <1>1
  <2>2. Len(Without(s, {s[i]})) = Len(s) - 1
    BY <2>1, <1>1, WithoutOne
  <2>. QED
    BY <2>2, <1>1, <1>6
<1>14. TypeOK'
  <2>1. next' \in [Node -> Node \cup {None}] /\ prev' \in [Node -> Node \cup {None}]
    BY <1>6, <1>7, <1>8, <1>9
  <2>2. numFree' \in Nat /\ <<>> \in Seq(Node)
    BY <1>1, <1>5, <1>8
  <2>. QED
    BY <2>1, <2>2, <1>8 DEF TypeOK
<1>15. Holds(t)'
  BY <1>8, <1>11, <1>12, <1>13 DEF Holds
<1>16. Effect(s, t, ret')
  BY <1>3, <1>8 DEF Effect
<1>. QED
  BY <1>14, <1>15, <1>16

\* append and append_n put blocks without links behind the last one.
LEMMA AppendStep ==
  ASSUME TypeOK, NEW s, Holds(s), NEW e \in Seq(Block), Len(e) > 0, Distinct(e),
         \A k \in 1 .. Len(e) : Unlinked(e[k]),
         Appended(s, e, next, prev, next', prev'),
         next' \in [Node -> Node \cup {None}], prev' \in [Node -> Node \cup {None}],
         numFree' = numFree + Len(e), ret' = <<>>
  PROVE  TypeOK' /\ \E t : Holds(t)' /\ Effect(s, t, ret')
<1>1. /\ s \in Seq(Block) /\ Distinct(s) /\ Len(s) = numFree /\ numFree \in Nat
      /\ Linked(s, next, prev) /\ \A b \in Block : Unlinked(b) <=> b \notin Elements(s)
  BY HoldsFacts
<1>2. Len(e) \in Nat /\ DOMAIN e = 1 .. Len(e) /\ e \in [1 .. Len(e) -> Block]
  OBVIOUS
<1>3. Elements(s) \cap Elements(e) = {} /\ Elements(e) \cap Elements(s) = {}
  BY <1>1, <1>2 DEF Elements
<1>4. Linked(s \o e, next', prev')
  BY <1>1, <1>3, AppendLinks
<1>5. s \o e \in Seq(Block) /\ Len(s \o e) = numFree + Len(e)
  BY <1>1, ConcatElements
<1>6. Holds(s \o e)'
  BY <1>4, <1>5 DEF Holds
<1>7. Len(e) \in 0 .. Cardinality(Block)
  <2>1. Cardinality(Block) \in Nat /\ Len(e) <= Cardinality(Block)
    BY ListFits
  <2>. QED
    BY <2>1, <1>2
<1>8. Effect(s, s \o e, ret')
  BY <1>2, <1>3, <1>7 DEF Effect
<1>9. TypeOK'
  <2>1. numFree' \in Nat /\ <<>> \in Seq(Node)
    BY <1>1, <1>2
  <2>. QED
    BY <2>1 DEF TypeOK
<1>. QED
  BY <1>6, <1>8, <1>9

\* append is append_n of one block.
LEMMA AppendOneStep ==
  ASSUME TypeOK, NEW s, Holds(s), NEW b \in Block, Append1(b)
  PROVE  TypeOK' /\ \E t : Holds(t)' /\ Effect(s, t, ret')
<1>. DEFINE L == numFree
            e == <<b>>
<1>1. /\ s \in Seq(Block) /\ Distinct(s) /\ Len(s) = L /\ L \in Nat
      /\ prev[FakeTail] = At(s, L) /\ (Unlinked(b) <=> b \notin Elements(s))
  BY HoldsFacts
<1>2. /\ At(s, 0) = FakeHead
      /\ \A i \in 1 .. L : s[i] \in Elements(s) /\ At(s, i) = s[i]
      /\ \A i \in 0 .. L + 1 : At(s, i) \in Node /\ At(s, i) # None
  BY <1>1, AtFacts
<1>3. /\ Unlinked(b)
      /\ next' = [next EXCEPT ![At(s, L)] = b, ![b] = FakeTail]
      /\ prev' = [prev EXCEPT ![b] = At(s, L), ![FakeTail] = b]
      /\ numFree' = L + 1 /\ ret' = <<>>
  BY <1>1 DEF Append1
<1>4. At(s, L) \in Node /\ At(s, L) # b
  <2>1. L \in 0 .. L + 1 /\ (L = 0 \/ L \in 1 .. L)
    BY <1>1
  <2>. QED
    BY <2>1, <1>1, <1>2, <1>3, NodeAssumption
<1>5. /\ next \in [Node -> Node \cup {None}] /\ prev \in [Node -> Node \cup {None}]
      /\ b \in Node /\ FakeTail \in Node /\ b # FakeTail
  BY NodeAssumption DEF TypeOK, Node
<1>6. e \in Seq(Block) /\ Len(e) = 1 /\ e[1] = b /\ DOMAIN e = 1 .. 1
  OBVIOUS
<1>7. Elements(e) = {b} /\ Distinct(e) /\ \A k \in 1 .. Len(e) : k = 1
  BY <1>6 DEF Elements, Distinct
<1>8. At(e, 1 + 1) = FakeTail
  BY <1>6 DEF At
<1>. HIDE DEF e
<1>9. Appended(s, e, next, prev, next', prev')
  <2>1. next'[At(s, L)] = b /\ prev'[FakeTail] = b /\ next'[b] = FakeTail /\ prev'[b] = At(s, L)
    BY <1>3, <1>4, <1>5
  <2>2. \A x \in Node : (x # At(s, L) /\ x # b => next'[x] = next[x]) /\ (x # FakeTail /\ x # b => prev'[x] = prev[x])
    BY <1>3, <1>5
  <2>. QED
    BY <2>1, <2>2, <1>1, <1>6, <1>7, <1>8 DEF Appended
<1>10. next' \in [Node -> Node \cup {None}] /\ prev' \in [Node -> Node \cup {None}]
  BY <1>3, <1>4, <1>5
<1>11. \A k \in 1 .. Len(e) : Unlinked(e[k])
  BY <1>3, <1>6, <1>7
<1>12. Len(e) > 0 /\ numFree' = numFree + Len(e)
  BY <1>3, <1>6
<1>. QED
  BY <1>3, <1>6, <1>7, <1>9, <1>10, <1>11, <1>12, AppendStep

\* append_n links every block to the one before it in its list.
LEMMA AppendNStep ==
  ASSUME TypeOK, NEW s, Holds(s), NEW n \in 0 .. Cardinality(Block),
         NEW e \in [1 .. n -> Block], AppendN(e)
  PROVE  TypeOK' /\ \E t : Holds(t)' /\ Effect(s, t, ret')
<1>. DEFINE L == numFree
            pos(b) == CHOOSE k \in 1 .. n : e[k] = b
<1>1. /\ s \in Seq(Block) /\ Distinct(s) /\ Len(s) = L /\ L \in Nat
      /\ prev[FakeTail] = At(s, L) /\ \A b \in Block : Unlinked(b) <=> b \notin Elements(s)
      /\ Cardinality(Block) \in Nat
  BY HoldsFacts
<1>2. /\ At(s, 0) = FakeHead
      /\ \A i \in 1 .. L : s[i] \in Elements(s) /\ At(s, i) = s[i]
      /\ \A i \in 0 .. L + 1 : At(s, i) \in Node /\ At(s, i) # None
  BY <1>1, AtFacts
<1>3. n \in Nat /\ e \in Seq(Block) /\ Len(e) = n /\ DOMAIN e = 1 .. n
  BY <1>1
<1>4. Distinct(e) /\ (\A k \in 1 .. n : Unlinked(e[k])) /\ ret' = <<>>
  BY <1>3 DEF AppendN
<1>5. CASE n = 0 /\ UNCHANGED <<prev, next, numFree>>
  <2>1. e = <<>> /\ s \o e = s
    BY <1>1, <1>3, <1>5
  <2>2. Holds(s)'
    BY <1>5 DEF Holds
  <2>3. Elements(e) \cap Elements(s) = {}
    BY <1>3, <1>5 DEF Elements
  <2>4. Effect(s, s, ret')
    BY <1>4, <2>1, <2>3 DEF Effect
  <2>5. TypeOK'
    BY <1>4, <1>5 DEF TypeOK
  <2>. QED
    BY <2>2, <2>4, <2>5
<1>6. ASSUME n > 0,
             next' = [b \in Node |->
                       IF b = prev[FakeTail] THEN e[1]
                       ELSE IF b \in Elements(e)
                            THEN IF pos(b) = n THEN FakeTail ELSE e[pos(b) + 1]
                            ELSE next[b]],
             prev' = [b \in Node |->
                       IF b = FakeTail THEN e[n]
                       ELSE IF b \in Elements(e)
                            THEN IF pos(b) = 1 THEN prev[FakeTail] ELSE e[pos(b) - 1]
                            ELSE prev[b]],
             numFree' = numFree + n
      PROVE  TypeOK' /\ \E t : Holds(t)' /\ Effect(s, t, ret')
  <2>1. \A k \in 1 .. n : pos(e[k]) = k /\ e[k] \in Block /\ e[k] \in Elements(e) /\ e[k] \in Node
    BY <1>3, <1>4 DEF Distinct, Elements, Node
  <2>. HIDE DEF pos
  <2>2. \A b \in Elements(e) : \E k \in 1 .. n : b = e[k]
    BY <1>3 DEF Elements
  <2>3. At(s, L) \in Node /\ At(s, L) \notin Elements(e)
    <3>1. L \in 0 .. L + 1 /\ (L = 0 \/ L \in 1 .. L)
      BY <1>1
    <3>2. \A k \in 1 .. n : e[k] # At(s, L)
      BY <2>1, <3>1, <1>1, <1>2, <1>4, NodeAssumption
    <3>. QED
      BY <2>2, <3>1, <3>2, <1>2
  <2>4. FakeTail \in Node /\ FakeTail \notin Elements(e) /\ FakeTail # None
    BY <2>1, <2>2, NodeAssumption DEF Node
  <2>5. 1 \in 1 .. n /\ n \in 1 .. n
    BY <1>3, <1>6
  <2>6. next'[At(s, L)] = e[1] /\ prev'[FakeTail] = e[n]
    BY <2>3, <2>4, <1>1, <1>6
  <2>7. ASSUME NEW k \in 1 .. n
        PROVE  next'[e[k]] = At(e, k + 1) /\ prev'[e[k]] = IF k = 1 THEN At(s, L) ELSE e[k - 1]
    <3>1. e[k] # At(s, L) /\ e[k] # FakeTail /\ e[k] \in Elements(e) /\ e[k] \in Node /\ pos(e[k]) = k
      BY <2>1, <2>3, <2>4
    <3>2. next'[e[k]] = IF k = n THEN FakeTail ELSE e[k + 1]
      BY <3>1, <1>1, <1>6
    <3>3. prev'[e[k]] = IF k = 1 THEN At(s, L) ELSE e[k - 1]
      BY <3>1, <1>1, <1>6
    <3>4. k + 1 # 0 /\ (k + 1 = n + 1 <=> k = n)
      BY <1>3
    <3>5. At(e, k + 1) = IF k = n THEN FakeTail ELSE e[k + 1]
      BY <3>4, <1>3 DEF At
    <3>. QED
      BY <3>2, <3>3, <3>5
  <2>8. \A b \in Node : /\ b # At(s, L) /\ b \notin Elements(e) => next'[b] = next[b]
                        /\ b # FakeTail /\ b \notin Elements(e) => prev'[b] = prev[b]
    BY <1>1, <1>6
  <2>9. Appended(s, e, next, prev, next', prev')
    BY <2>6, <2>7, <2>8, <1>1, <1>3 DEF Appended
  <2>10. \A k \in 1 .. n : /\ (IF k = n THEN FakeTail ELSE e[k + 1]) \in Node
                           /\ (IF k = 1 THEN At(s, L) ELSE e[k - 1]) \in Node
    <3>1. \A k \in 1 .. n : (k # n => k + 1 \in 1 .. n) /\ (k # 1 => k - 1 \in 1 .. n)
      BY <1>3
    <3>. QED
      BY <3>1, <2>1, <2>3, <2>4
  <2>11. next \in [Node -> Node \cup {None}] /\ prev \in [Node -> Node \cup {None}]
    BY DEF TypeOK
  <2>12. ASSUME NEW b \in Node
         PROVE  next'[b] \in Node \cup {None} /\ prev'[b] \in Node \cup {None}
    <3>1. CASE b \in Elements(e)
      <4>1. PICK k \in 1 .. n : b = e[k]
        BY <2>2, <3>1
      <4>2. pos(b) = k
        BY <4>1, <2>1
      <4>. QED
        BY <3>1, <4>2, <2>1, <2>3, <2>4, <2>5, <2>10, <1>1, <1>6
    <3>2. CASE b \notin Elements(e)
      BY <3>2, <2>1, <2>5, <2>11, <1>6
    <3>. QED
      BY <3>1, <3>2
  <2>13. DOMAIN next' = Node /\ DOMAIN prev' = Node
    BY <1>6
  <2>14. next' = [b \in Node |-> next'[b]] /\ prev' = [b \in Node |-> prev'[b]]
    BY <1>6
  <2>15. next' \in [Node -> Node \cup {None}] /\ prev' \in [Node -> Node \cup {None}]
    BY <2>12, <2>14
  <2>. QED
    BY <2>9, <2>15, <1>3, <1>4, <1>6, AppendStep
<1>7. \/ n = 0 /\ UNCHANGED <<prev, next, numFree>>
      \/ /\ n > 0
         /\ next' = [b \in Node |->
                       IF b = prev[FakeTail] THEN e[1]
                       ELSE IF b \in Elements(e)
                            THEN IF pos(b) = n THEN FakeTail ELSE e[pos(b) + 1]
                            ELSE next[b]]
         /\ prev' = [b \in Node |->
                       IF b = FakeTail THEN e[n]
                       ELSE IF b \in Elements(e)
                            THEN IF pos(b) = 1 THEN prev[FakeTail] ELSE e[pos(b) - 1]
                            ELSE prev[b]]
         /\ numFree' = numFree + n
  <2>1. Len(e) = n
    BY <1>3
  <2>. DEFINE at(b) == CHOOSE k \in 1 .. Len(e) : e[k] = b
  <2>2. \/ Len(e) = 0 /\ UNCHANGED <<prev, next, numFree>>
        \/ /\ Len(e) > 0
           /\ next' = [b \in Node |->
                         IF b = prev[FakeTail] THEN e[1]
                         ELSE IF b \in Elements(e)
                              THEN IF at(b) = Len(e) THEN FakeTail ELSE e[at(b) + 1]
                              ELSE next[b]]
           /\ prev' = [b \in Node |->
                         IF b = FakeTail THEN e[Len(e)]
                         ELSE IF b \in Elements(e)
                              THEN IF at(b) = 1 THEN prev[FakeTail] ELSE e[at(b) - 1]
                              ELSE prev[b]]
           /\ numFree' = numFree + Len(e)
    BY DEF AppendN
  <2>3. \A b : at(b) = pos(b)
    BY <2>1
  <2>. HIDE DEF at, pos
  <2>. QED
    BY <2>1, <2>2, <2>3
<1>. HIDE DEF pos
<1>. QED
  BY <1>5, <1>6, <1>7

----------------------------------------------------------------------------

\* Every operation keeps the list linked and does to it what EvictionQueue says.
LEMMA ListStep ==
  ASSUME TypeOK, NEW s, Holds(s), Next
  PROVE  TypeOK' /\ \E t : Holds(t)' /\ Effect(s, t, ret')
<1>1. CASE PopLeft \/ \E n \in 0 .. Cardinality(Block) : PopLeftN(n)
  BY <1>1, PopStep
<1>2. CASE \E b \in Block : Remove(b) \/ Append1(b)
  BY <1>2, RemoveStep, AppendOneStep
<1>3. CASE \E n \in 0 .. Cardinality(Block) : \E bs \in [1 .. n -> Block] : AppendN(bs)
  BY <1>3, AppendNStep
<1>. QED
  BY <1>1, <1>2, <1>3 DEF Next

\* __init__ builds well-typed links that hold the list it was given.
LEMMA ListInit ==
  ASSUME Init
  PROVE  TypeOK /\ Holds(InitialOrder)
<1>. DEFINE c == Chain(InitialOrder)
<1>1. Linked(InitialOrder, next, prev)
  BY InitLinks
<1>2. InitialOrder \in Seq(Block) /\ numFree = Len(InitialOrder) /\ ret = <<>> /\ numFree \in Nat
  BY NodeAssumption DEF Init
<1>3. Len(c) \in Nat /\ \A i \in 1 .. Len(c) : c[i] \in Node
  <2>1. InitialOrder \in Seq(Node) /\ <<FakeHead>> \in Seq(Node) /\ <<FakeTail>> \in Seq(Node)
    BY NodeAssumption DEF Node
  <2>2. <<FakeHead>> \o InitialOrder \in Seq(Node)
    BY <2>1
  <2>3. c \in Seq(Node)
    BY <2>1, <2>2 DEF Chain
  <2>. QED
    BY <2>3
<1>4. /\ next = [b \in Node |-> IF \E i \in 1 .. Len(c) - 1 : c[i] = b
                                THEN c[(CHOOSE i \in 1 .. Len(c) - 1 : c[i] = b) + 1]
                                ELSE None]
      /\ prev = [b \in Node |-> IF \E i \in 2 .. Len(c) : c[i] = b
                                THEN c[(CHOOSE i \in 2 .. Len(c) : c[i] = b) - 1]
                                ELSE None]
  BY DEF Init
<1>. HIDE DEF c
<1>5. ASSUME NEW b \in Node
      PROVE  next[b] \in Node \cup {None} /\ prev[b] \in Node \cup {None}
  <2>1. ASSUME \E i \in 1 .. Len(c) - 1 : c[i] = b PROVE next[b] \in Node
    <3>. DEFINE i == CHOOSE k \in 1 .. Len(c) - 1 : c[k] = b
    <3>1. i \in 1 .. Len(c) - 1
      BY <2>1
    <3>2. next[b] = c[i + 1]
      BY <2>1, <1>4
    <3>. HIDE DEF i
    <3>3. i + 1 \in 1 .. Len(c)
      BY <3>1, <1>3
    <3>. QED
      BY <3>2, <3>3, <1>3
  <2>2. ASSUME ~(\E i \in 1 .. Len(c) - 1 : c[i] = b) PROVE next[b] = None
    BY <2>2, <1>4
  <2>3. ASSUME \E i \in 2 .. Len(c) : c[i] = b PROVE prev[b] \in Node
    <3>. DEFINE i == CHOOSE k \in 2 .. Len(c) : c[k] = b
    <3>1. i \in 2 .. Len(c)
      BY <2>3
    <3>2. prev[b] = c[i - 1]
      BY <2>3, <1>4
    <3>. HIDE DEF i
    <3>3. i - 1 \in 1 .. Len(c)
      BY <3>1, <1>3
    <3>. QED
      BY <3>2, <3>3, <1>3
  <2>4. ASSUME ~(\E i \in 2 .. Len(c) : c[i] = b) PROVE prev[b] = None
    BY <2>4, <1>4
  <2>. QED
    BY <2>1, <2>2, <2>3, <2>4
<1>6. next = [b \in Node |-> next[b]] /\ prev = [b \in Node |-> prev[b]]
  BY <1>4
<1>7. next \in [Node -> Node \cup {None}] /\ prev \in [Node -> Node \cup {None}]
  BY <1>5, <1>6
<1>. QED
  BY <1>1, <1>2, <1>7 DEF TypeOK, Holds

\* The inductive invariant, well-typed links that hold some list, implies both
\* invariants of FreeBlockQueue.
LEMMA ListInvariant == Spec => [](TypeOK /\ WellLinked)
<1>. DEFINE I == TypeOK /\ \E s : Holds(s)
<1>1. Init => I
  BY ListInit
<1>2. I /\ [Next]_vars => I'
  <2>1. ASSUME I, Next PROVE I'
    BY <2>1, ListStep
  <2>2. ASSUME I, UNCHANGED vars PROVE I'
    BY <2>2 DEF TypeOK, Holds, vars
  <2>. QED
    BY <2>1, <2>2
<1>3. ASSUME NEW s, Holds(s) PROVE WellLinked
  <2>1. s \in Seq(Block) /\ Len(s) = numFree /\ Linked(s, next, prev)
    BY <1>3 DEF Holds
  <2>2. s \in [1 .. numFree -> Block]
    BY <2>1
  <2>3. Represents(s)
    BY <2>1, LinkedChain DEF Represents, Unlinked
  <2>. QED
    BY <2>2, <2>3 DEF WellLinked
<1>4. I => TypeOK /\ WellLinked
  BY <1>3
<1>. QED
  BY <1>1, <1>2, <1>4, PTL DEF Spec

\* For every pool and every initial list, links lead to blocks, to the fakes or
\* nowhere and the count of free blocks stays a natural number.
THEOREM TypeCorrect == Spec => []TypeOK
BY ListInvariant, PTL

\* Whatever operations follow each other, the links form one list of distinct blocks
\* of exactly num_free_blocks blocks: the count popleft_n trusts is right.
THEOREM LinksCorrect == Spec => []WellLinked
BY ListInvariant, PTL

\* The operators on queues that EvictionQueue uses are the ones used here.
LEMMA SameOperators ==
  /\ \A S : Abs!Cardinality(S) = Cardinality(S)
  /\ \A s : Abs!Elements(s) = Elements(s) /\ Abs!Distinct(s) = Distinct(s)
  /\ \A s, n : Abs!TakeFirst(s, n) = TakeFirst(s, n) /\ Abs!DropFirst(s, n) = DropFirst(s, n)
  /\ \A s, S : Abs!Without(s, S) = Without(s, S)
<1>1. \A S : Abs!Cardinality(S) = Cardinality(S)
  BY DEF Abs!Cardinality, Cardinality
<1>2. \A s : Abs!Elements(s) = Elements(s)
  BY DEF Abs!Elements, Elements
<1>3. \A s : Abs!Distinct(s) = Distinct(s)
  BY DEF Abs!Distinct, Distinct
<1>4. \A s, n : Abs!TakeFirst(s, n) = TakeFirst(s, n)
  BY DEF Abs!TakeFirst, TakeFirst
<1>5. \A s, n : Abs!DropFirst(s, n) = DropFirst(s, n)
  BY DEF Abs!DropFirst, DropFirst
<1>6. \A s, S : Abs!Without(s, S) = Without(s, S)
  BY DEF Abs!Without, Without, Abs!Kept, Kept, Abs!Rank, Rank, Abs!Cardinality, Cardinality
<1>. QED
  BY <1>1, <1>2, <1>3, <1>4, <1>5, <1>6

\* The linked list implements the eviction queue: for every sequence of calls the
\* blocks come out in the order, and only in the order, EvictionQueue promises.
THEOREM LinksImplementQueue == Spec => ImplementsQueue
<1>. DEFINE I == TypeOK /\ \E s : Holds(s)
<1>1. Init => I /\ Abs!AInit
  <2>. SUFFICES ASSUME Init PROVE I /\ Abs!AInit
    OBVIOUS
  <2>1. TypeOK /\ Holds(InitialOrder)
    BY ListInit
  <2>2. Walk(next) = InitialOrder
    BY <2>1, WalkMeets DEF Holds
  <2>3. GetAllFreeBlocks = InitialOrder
    BY <2>2 DEF GetAllFreeBlocks, Walk
  <2>4. ret = <<>>
    BY DEF Init
  <2>. QED
    BY <2>1, <2>3, <2>4 DEF Abs!AInit
<1>2. I /\ [Next]_vars => I' /\ [Abs!ANext]_(Abs!avars)
  <2>1. ASSUME I, Next PROVE I' /\ Abs!ANext
    <3>1. PICK s : Holds(s)
      BY <2>1
    <3>2. TypeOK' /\ \E t : Holds(t)' /\ Effect(s, t, ret')
      BY <2>1, <3>1, ListStep
    <3>3. PICK t : Holds(t)' /\ Effect(s, t, ret')
      BY <3>2
    <3>4. Walk(next) = s /\ Walk(next') = t
      BY <3>1, <3>3, WalkMeets DEF Holds
    <3>5. GetAllFreeBlocks = s
      BY <3>4 DEF GetAllFreeBlocks, Walk
    <3>6. GetAllFreeBlocks' = t
      BY <3>4 DEF GetAllFreeBlocks, Walk
    <3>7. Abs!ANext
      <4>1. ASSUME NEW n \in 0 .. Cardinality(Block),
                   n <= Len(s), ret' = TakeFirst(s, n), t = DropFirst(s, n)
            PROVE  Abs!APopLeftN(n)
        BY <4>1, <3>5, <3>6, SameOperators DEF Abs!APopLeftN
      <4>2. ASSUME NEW b \in Block, b \in Elements(s), t = Without(s, {b}), ret' = <<>>
            PROVE  Abs!ARemove(b)
        BY <4>2, <3>5, <3>6, SameOperators DEF Abs!ARemove
      <4>3. ASSUME NEW bs, Distinct(bs), Elements(bs) \cap Elements(s) = {},
                   t = s \o bs, ret' = <<>>
            PROVE  Abs!AAppendN(bs)
        BY <4>3, <3>5, <3>6, SameOperators DEF Abs!AAppendN
      <4>. QED
        BY <3>3, <4>1, <4>2, <4>3, SameOperators DEF Effect, Abs!ANext
    <3>. QED
      BY <3>2, <3>3, <3>7
  <2>2. ASSUME I, UNCHANGED vars PROVE I' /\ UNCHANGED Abs!avars
    BY <2>2 DEF TypeOK, Holds, vars, Abs!avars, GetAllFreeBlocks
  <2>. QED
    BY <2>1, <2>2
<1>. QED
  BY <1>1, <1>2, PTL DEF Spec, ImplementsQueue, Abs!ASpec

============================================================================
