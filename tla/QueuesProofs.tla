---------------------------- MODULE QueuesProofs ----------------------------
(***************************************************************************)
(* What the operators of Queues return, for every sequence.                *)
(***************************************************************************)
EXTENDS Queues, FiniteSetTheorems, FunctionTheorems, SequenceTheorems, TLAPS

\* The indexes that are kept form a finite set of positive numbers.
LEMMA KeptFinite ==
  ASSUME NEW T, NEW s \in Seq(T), NEW S
  PROVE  /\ Kept(s, S) \subseteq 1 .. Len(s)
         /\ IsFiniteSet(Kept(s, S))
         /\ Cardinality(Kept(s, S)) \in Nat
<1>1. Kept(s, S) \subseteq 1 .. Len(s)
  BY DEF Kept
<1>2. IsFiniteSet(1 .. Len(s))
  BY FS_Interval
<1>3. IsFiniteSet(Kept(s, S))
  BY <1>1, <1>2, FS_Subset
<1>. QED
  BY <1>1, <1>3, FS_CardinalityType

\* Ranks start at 1, end at the number of kept indexes and increase.
LEMMA RankIncreases ==
  ASSUME NEW T, NEW s \in Seq(T), NEW S
  PROVE  /\ \A i \in Kept(s, S) : Rank(s, S, i) \in 1 .. Cardinality(Kept(s, S))
         /\ \A i, j \in Kept(s, S) : i < j => Rank(s, S, i) < Rank(s, S, j)
<1>. DEFINE K == Kept(s, S)
            upTo(i) == {j \in K : j <= i}
<1>0. K \subseteq Nat /\ IsFiniteSet(K) /\ Cardinality(K) \in Nat
  BY KeptFinite
<1>1. \A i \in K : /\ IsFiniteSet(upTo(i))
                   /\ Cardinality(upTo(i)) \in Nat
                   /\ Cardinality(upTo(i)) <= Cardinality(K)
  <2>. SUFFICES ASSUME NEW i \in K
                PROVE  /\ IsFiniteSet(upTo(i))
                       /\ Cardinality(upTo(i)) \in Nat
                       /\ Cardinality(upTo(i)) <= Cardinality(K)
    OBVIOUS
  <2>1. upTo(i) \in SUBSET K
    OBVIOUS
  <2>. QED
    BY <1>0, <2>1, FS_Subset, FS_CardinalityType
<1>2. \A i \in K : Cardinality(upTo(i)) >= 1
  <2>. SUFFICES ASSUME NEW i \in K PROVE Cardinality(upTo(i)) >= 1
    OBVIOUS
  <2>1. i \in upTo(i)
    BY <1>0
  <2>2. Cardinality(upTo(i)) # 0
    BY <1>1, <2>1, FS_EmptySet
  <2>. QED
    BY <1>1, <2>2, SMTT(30)
<1>3. \A i, j \in K : i < j => Cardinality(upTo(i)) < Cardinality(upTo(j))
  <2>. SUFFICES ASSUME NEW i \in K, NEW j \in K, i < j
                PROVE  Cardinality(upTo(i)) < Cardinality(upTo(j))
    OBVIOUS
  <2>1. upTo(i) \in SUBSET upTo(j)
    BY <1>0
  <2>2. j \in upTo(j) /\ j \notin upTo(i)
    BY <1>0
  <2>3. /\ Cardinality(upTo(i)) <= Cardinality(upTo(j))
        /\ Cardinality(upTo(j)) = Cardinality(upTo(i)) => upTo(j) = upTo(i)
    BY <1>1, <2>1, FS_Subset
  <2>4. upTo(j) # upTo(i)
    BY <2>2
  <2>5. Cardinality(upTo(i)) \in Nat /\ Cardinality(upTo(j)) \in Nat
    BY <1>1
  <2>6. Cardinality(upTo(i)) # Cardinality(upTo(j))
    BY <2>3, <2>4
  <2>. QED
    BY <2>3, <2>5, <2>6
<1>4. \A i \in K : Rank(s, S, i) = Cardinality(upTo(i))
  BY DEF Rank
<1>. HIDE DEF upTo
<1>. QED
  BY <1>0, <1>1, <1>2, <1>3, <1>4

\* Each place of the result comes from exactly one kept index.
LEMMA RankBijective ==
  ASSUME NEW T, NEW s \in Seq(T), NEW S
  PROVE  /\ \A i, j \in Kept(s, S) : Rank(s, S, i) = Rank(s, S, j) => i = j
         /\ \A k \in 1 .. Cardinality(Kept(s, S)) :
              \E i \in Kept(s, S) : Rank(s, S, i) = k
<1>. DEFINE K == Kept(s, S)
            n == Cardinality(K)
            f == [i \in K |-> Rank(s, S, i)]
<1>0. K \subseteq 1 .. Len(s) /\ IsFiniteSet(K) /\ n \in Nat
  BY KeptFinite
<1>1. \A i, j \in K : Rank(s, S, i) = Rank(s, S, j) => i = j
  <2>. SUFFICES ASSUME NEW i \in K, NEW j \in K, Rank(s, S, i) = Rank(s, S, j), i # j
                PROVE  FALSE
    OBVIOUS
  <2>1. i < j \/ j < i
    BY <1>0
  <2>2. Rank(s, S, i) \in 1 .. n /\ Rank(s, S, j) \in 1 .. n
    BY RankIncreases
  <2>3. Rank(s, S, i) < Rank(s, S, j) \/ Rank(s, S, j) < Rank(s, S, i)
    BY <2>1, RankIncreases
  <2>. QED
    BY <2>2, <2>3, <1>0
<1>2. f \in [K -> 1 .. n]
  BY RankIncreases
<1>3. f \in Injection(K, 1 .. n)
  BY <1>1, <1>2 DEF Injection, IsInjective
<1>4. IsFiniteSet(1 .. n) /\ Cardinality(1 .. n) = n
  BY <1>0, FS_Interval
<1>5. f \in Surjection(K, 1 .. n)
  BY <1>3, <1>4, FS_Injection
<1>6. \A k \in 1 .. n : \E i \in K : f[i] = k
  BY <1>5 DEF Surjection
<1>. QED
  BY <1>1, <1>6

\* Without(s, S) is a sequence of the elements of s that are not in S, without
\* repetition when s has none.
LEMMA WithoutElements ==
  ASSUME NEW T, NEW s \in Seq(T), NEW S
  PROVE  /\ Without(s, S) \in Seq(T)
         /\ Len(Without(s, S)) = Cardinality(Kept(s, S))
         /\ Elements(Without(s, S)) = Elements(s) \ S
         /\ Distinct(s) => Distinct(Without(s, S))
<1>. DEFINE K == Kept(s, S)
            n == Cardinality(K)
            at(k) == CHOOSE i \in K : Rank(s, S, i) = k
            w == Without(s, S)
<1>0. K \subseteq 1 .. Len(s) /\ n \in Nat
  BY KeptFinite
<1>1. \A k \in 1 .. n : at(k) \in K /\ Rank(s, S, at(k)) = k
  BY RankBijective
<1>2. \A i \in K : Rank(s, S, i) \in 1 .. n /\ at(Rank(s, S, i)) = i
  BY RankBijective, RankIncreases
<1>3. w = [k \in 1 .. n |-> s[at(k)]]
  BY DEF Without
<1>4. \A i \in K : i \in DOMAIN s /\ s[i] \in T /\ s[i] \notin S
  BY DEF Kept
<1>. HIDE DEF at, n, K, w
<1>5. w \in [1 .. n -> T]
  BY <1>1, <1>3, <1>4
<1>6. w \in Seq(T) /\ Len(w) = n /\ DOMAIN w = 1 .. n
  BY <1>0, <1>5
<1>7. Elements(w) = Elements(s) \ S
  <2>1. ASSUME NEW k \in 1 .. n PROVE w[k] \in Elements(s) \ S
    BY <1>1, <1>3, <1>4 DEF Elements
  <2>2. ASSUME NEW x \in Elements(s) \ S PROVE x \in Elements(w)
    <3>1. PICK i \in DOMAIN s : x = s[i]
      BY DEF Elements
    <3>2. i \in K
      BY <3>1 DEF K, Kept
    <3>3. w[Rank(s, S, i)] = x
      BY <1>2, <1>3, <3>1, <3>2
    <3>. QED
      BY <1>2, <1>6, <3>2, <3>3 DEF Elements
  <2>. QED
    BY <1>6, <2>1, <2>2 DEF Elements
<1>8. ASSUME Distinct(s) PROVE Distinct(w)
  <2>. SUFFICES ASSUME NEW k \in 1 .. n, NEW l \in 1 .. n, w[k] = w[l]
                PROVE  k = l
    BY <1>6 DEF Distinct
  <2>1. at(k) = at(l)
    BY <1>1, <1>3, <1>4, <1>8 DEF Distinct
  <2>. QED
    BY <1>1, <2>1
<1>. QED
  BY <1>6, <1>7, <1>8 DEF w, n, K

\* Appending a sequence of other elements.
LEMMA ConcatElements ==
  ASSUME NEW T, NEW s \in Seq(T), NEW t \in Seq(T)
  PROVE  /\ s \o t \in Seq(T)
         /\ Len(s \o t) = Len(s) + Len(t)
         /\ Elements(s \o t) = Elements(s) \cup Elements(t)
         /\ Distinct(s) /\ Distinct(t) /\ Elements(s) \cap Elements(t) = {}
              => Distinct(s \o t)
<1>1. /\ s \o t \in Seq(T)
      /\ Len(s \o t) = Len(s) + Len(t)
      /\ \A i \in 1 .. Len(s) + Len(t) :
           (s \o t)[i] = IF i <= Len(s) THEN s[i] ELSE t[i - Len(s)]
  OBVIOUS
<1>2. DOMAIN s = 1 .. Len(s) /\ DOMAIN t = 1 .. Len(t)
      /\ DOMAIN (s \o t) = 1 .. Len(s) + Len(t)
  BY <1>1
<1>3. Elements(s \o t) = Elements(s) \cup Elements(t)
  <2>1. ASSUME NEW i \in 1 .. Len(s) + Len(t)
        PROVE  (s \o t)[i] \in Elements(s) \cup Elements(t)
    BY <1>1, <1>2 DEF Elements
  <2>2. ASSUME NEW i \in 1 .. Len(s) PROVE s[i] \in Elements(s \o t)
    BY <1>1, <1>2 DEF Elements
  <2>3. ASSUME NEW i \in 1 .. Len(t) PROVE t[i] \in Elements(s \o t)
    <3>1. i + Len(s) \in 1 .. Len(s) + Len(t) /\ (s \o t)[i + Len(s)] = t[i]
      BY <1>1
    <3>. QED
      BY <1>2, <3>1 DEF Elements
  <2>. QED
    BY <1>2, <2>1, <2>2, <2>3 DEF Elements
<1>4. ASSUME Distinct(s), Distinct(t), Elements(s) \cap Elements(t) = {}
      PROVE  Distinct(s \o t)
  <2>. SUFFICES ASSUME NEW i \in 1 .. Len(s) + Len(t), NEW j \in 1 .. Len(s) + Len(t),
                       (s \o t)[i] = (s \o t)[j]
                PROVE  i = j
    BY <1>2 DEF Distinct
  <2>1. \A k \in 1 .. Len(s), l \in 1 .. Len(t) : s[k] # t[l]
    BY <1>2, <1>4 DEF Elements
  <2>. QED
    BY <1>1, <1>2, <1>4, <2>1, SMTT(30) DEF Distinct
<1>. QED
  BY <1>1, <1>3, <1>4

\* Splitting a sequence after its first n elements.
LEMMA SplitElements ==
  ASSUME NEW T, NEW s \in Seq(T), NEW n \in 0 .. Len(s)
  PROVE  /\ TakeFirst(s, n) \in Seq(T) /\ Len(TakeFirst(s, n)) = n
         /\ DropFirst(s, n) \in Seq(T) /\ Len(DropFirst(s, n)) = Len(s) - n
         /\ Elements(s) = Elements(TakeFirst(s, n)) \cup Elements(DropFirst(s, n))
         /\ Distinct(s) => /\ Distinct(TakeFirst(s, n))
                           /\ Distinct(DropFirst(s, n))
                           /\ Elements(TakeFirst(s, n)) \cap Elements(DropFirst(s, n)) = {}
<1>. DEFINE a == TakeFirst(s, n)
            b == DropFirst(s, n)
<1>1. /\ a \in Seq(T) /\ Len(a) = n /\ DOMAIN a = 1 .. n
      /\ \A i \in 1 .. n : a[i] = s[i]
  BY SubSeqProperties DEF TakeFirst
<1>2. /\ b \in Seq(T) /\ Len(b) = Len(s) - n /\ DOMAIN b = 1 .. Len(s) - n
      /\ \A i \in 1 .. Len(s) - n : b[i] = s[n + i]
  <2>1. n + 1 \in 1 .. Len(s) + 1 /\ Len(s) \in n + 1 - 1 .. Len(s)
    OBVIOUS
  <2>. QED
  BY <2>1, SubSeqProperties DEF DropFirst
<1>3. DOMAIN s = 1 .. Len(s)
  OBVIOUS
<1>. HIDE DEF a, b
<1>4. Elements(s) = Elements(a) \cup Elements(b)
  <2>1. \A i \in 1 .. n : a[i] \in Elements(s)
    BY <1>1, <1>3 DEF Elements
  <2>2. \A i \in 1 .. Len(s) - n : b[i] \in Elements(s)
    <3>. SUFFICES ASSUME NEW i \in 1 .. Len(s) - n PROVE b[i] \in Elements(s)
      OBVIOUS
    <3>1. n + i \in 1 .. Len(s)
      OBVIOUS
    <3>. QED
      BY <1>2, <1>3, <3>1 DEF Elements
  <2>3. \A i \in 1 .. Len(s) : s[i] \in Elements(a) \cup Elements(b)
    <3>. SUFFICES ASSUME NEW i \in 1 .. Len(s)
                  PROVE  s[i] \in Elements(a) \cup Elements(b)
      OBVIOUS
    <3>1. CASE i <= n
      BY <1>1, <3>1 DEF Elements
    <3>2. CASE i > n
      <4>1. i - n \in 1 .. Len(s) - n /\ b[i - n] = s[i]
        BY <1>2, <3>2
      <4>. QED
        BY <1>2, <4>1 DEF Elements
    <3>. QED
      BY <3>1, <3>2
  <2>4. /\ \A i \in DOMAIN a : a[i] \in Elements(s)
        /\ \A i \in DOMAIN b : b[i] \in Elements(s)
        /\ \A i \in DOMAIN s : s[i] \in Elements(a) \cup Elements(b)
    BY <1>1, <1>2, <1>3, <2>1, <2>2, <2>3
  <2>. QED
    BY <2>4, Zenon DEF Elements
<1>5. ASSUME Distinct(s)
      PROVE  Distinct(a) /\ Distinct(b) /\ Elements(a) \cap Elements(b) = {}
  <2>1. Distinct(a)
    BY <1>1, <1>3, <1>5 DEF Distinct
  <2>2. Distinct(b)
    <3>. SUFFICES ASSUME NEW i \in DOMAIN b, NEW j \in DOMAIN b, b[i] = b[j]
                  PROVE  i = j
      BY DEF Distinct
    <3>1. /\ n + i \in DOMAIN s /\ n + j \in DOMAIN s
          /\ b[i] = s[n + i] /\ b[j] = s[n + j]
      BY <1>2, <1>3
    <3>2. n + i = n + j
      BY <1>5, <3>1 DEF Distinct
    <3>. QED
      BY <1>2, <3>2
  <2>3. ASSUME NEW i \in 1 .. n, NEW j \in 1 .. Len(s) - n PROVE a[i] # b[j]
    <3>1. i \in 1 .. Len(s) /\ n + j \in 1 .. Len(s) /\ i # n + j
      OBVIOUS
    <3>. QED
      BY <1>1, <1>2, <1>3, <1>5, <3>1 DEF Distinct
  <2>4. ASSUME NEW x \in Elements(a), NEW y \in Elements(b) PROVE x # y
    <3>1. PICK i \in DOMAIN a : x = a[i]
      BY DEF Elements
    <3>2. PICK j \in DOMAIN b : y = b[j]
      BY DEF Elements
    <3>. QED
      BY <1>1, <1>2, <2>3, <3>1, <3>2
  <2>. QED
    BY <2>1, <2>2, <2>4
<1>. QED
  BY <1>1, <1>2, <1>4, <1>5 DEF a, b

\* Taking distinct elements out of a sequence shortens it by their number.
LEMMA WithoutLength ==
  ASSUME NEW T, NEW s \in Seq(T), Distinct(s), NEW S \in SUBSET Elements(s)
  PROVE  Len(Without(s, S)) = Len(s) - Cardinality(S)
<1>. DEFINE I == {i \in DOMAIN s : s[i] \in S}
            f == [i \in I |-> s[i]]
<1>0. DOMAIN s = 1 .. Len(s) /\ Len(s) \in Nat
  OBVIOUS
<1>1. IsFiniteSet(1 .. Len(s)) /\ Cardinality(1 .. Len(s)) = Len(s)
  <2>1. IsFiniteSet(1 .. Len(s))
        /\ Cardinality(1 .. Len(s)) = IF 1 > Len(s) THEN 0 ELSE Len(s) - 1 + 1
    BY <1>0, FS_Interval, SMTT(30)
  <2>. QED
    BY <1>0, <2>1
<1>2. I \in SUBSET (1 .. Len(s)) /\ IsFiniteSet(I)
  BY <1>0, <1>1, FS_Subset
<1>3. ExistsBijection(I, S)
  <2>1. f \in [I -> S]
    OBVIOUS
  <2>2. \A i, j \in I : f[i] = f[j] => i = j
    BY DEF Distinct
  <2>3. \A x \in S : \E i \in I : f[i] = x
    BY DEF Elements
  <2>4. f \in Bijection(I, S)
    BY <2>1, <2>2, <2>3 DEF Bijection, Injection, Surjection, IsInjective
  <2>. QED
    BY <2>4 DEF ExistsBijection
<1>4. Cardinality(S) = Cardinality(I)
  BY <1>2, <1>3, FS_Bijection
<1>5. Kept(s, S) = (1 .. Len(s)) \ I
  BY <1>0 DEF Kept
<1>6. (1 .. Len(s)) \cap I = I
  BY <1>2
<1>. HIDE DEF I
<1>7. Cardinality((1 .. Len(s)) \ I) =
        Cardinality(1 .. Len(s)) - Cardinality((1 .. Len(s)) \cap I)
  BY <1>1, FS_Difference
<1>8. Len(Without(s, S)) = Cardinality(Kept(s, S))
  BY WithoutElements
<1>. QED
  BY <1>1, <1>4, <1>5, <1>6, <1>7, <1>8

\* Appending a new element keeps a sequence distinct.
LEMMA AppendElements ==
  ASSUME NEW T, NEW s \in Seq(T), Distinct(s), NEW e \in T, e \notin Elements(s)
  PROVE  /\ Distinct(Append(s, e))
         /\ Elements(Append(s, e)) = Elements(s) \cup {e}
<1>. DEFINE u == Append(s, e)
            n == Len(s)
<1>1. /\ n \in Nat /\ DOMAIN s = 1 .. n /\ DOMAIN u = 1 .. n + 1
      /\ u[n + 1] = e /\ \A i \in 1 .. n : u[i] = s[i]
  BY AppendProperties
<1>. HIDE DEF u, n
<1>2. \A i \in DOMAIN s : s[i] # e
  BY DEF Elements
<1>3. \A i \in DOMAIN u : (i = n + 1 /\ u[i] = e) \/ (i \in DOMAIN s /\ u[i] = s[i])
  BY <1>1
<1>4. Distinct(u)
  BY <1>2, <1>3 DEF Distinct
<1>5. \A i \in DOMAIN s : i \in DOMAIN u /\ u[i] = s[i]
  BY <1>1
<1>6. n + 1 \in DOMAIN u /\ u[n + 1] = e
  BY <1>1
<1>7. Elements(u) = Elements(s) \cup {e}
  BY <1>3, <1>5, <1>6 DEF Elements
<1>. QED
  BY <1>4, <1>7 DEF u

----------------------------------------------------------------------------
(* Order                                                                   *)

\* Taking elements out keeps the order of the others.
LEMMA WithoutOrder ==
  ASSUME NEW T, NEW s \in Seq(T), NEW S, NEW i \in DOMAIN s, NEW j \in DOMAIN s,
         i < j, s[i] \notin S, s[j] \notin S
  PROVE  \E k, l \in DOMAIN Without(s, S) :
           k < l /\ Without(s, S)[k] = s[i] /\ Without(s, S)[l] = s[j]
<1>. DEFINE K == Kept(s, S)
            n == Cardinality(K)
            at(k) == CHOOSE m \in K : Rank(s, S, m) = k
            w == Without(s, S)
<1>1. i \in K /\ j \in K
  BY DEF Kept
<1>2. \A m \in K : Rank(s, S, m) \in 1 .. n /\ at(Rank(s, S, m)) = m
  BY RankBijective, RankIncreases
<1>3. w = [k \in 1 .. n |-> s[at(k)]]
  BY DEF Without
<1>4. Rank(s, S, i) < Rank(s, S, j)
  BY <1>1, RankIncreases
<1>. HIDE DEF at, n, K, w
<1>5. w[Rank(s, S, i)] = s[i] /\ w[Rank(s, S, j)] = s[j] /\ DOMAIN w = 1 .. n
  BY <1>1, <1>2, <1>3
<1>. QED
  BY <1>1, <1>2, <1>4, <1>5 DEF w

\* Of two elements in order both are in the queue.
LEMMA BeforeElements ==
  ASSUME NEW q, NEW a, NEW b, Before(q, a, b)
  PROVE  a \in Elements(q) /\ b \in Elements(q)
  BY DEF Before, Elements

\* The order in a queue of two parts.
LEMMA ConcatBefore ==
  ASSUME NEW T, NEW s \in Seq(T), NEW t \in Seq(T), NEW a, NEW b
  PROVE  Before(s \o t, a, b) <=>
           \/ Before(s, a, b) \/ Before(t, a, b)
           \/ a \in Elements(s) /\ b \in Elements(t)
<1>. DEFINE u == s \o t
            L == Len(s)
            M == Len(t)
<1>1. /\ L \in Nat /\ M \in Nat /\ DOMAIN s = 1 .. L /\ DOMAIN t = 1 .. M
      /\ DOMAIN u = 1 .. L + M
      /\ \A i \in 1 .. L + M : u[i] = IF i <= L THEN s[i] ELSE t[i - L]
  OBVIOUS
<1>. HIDE DEF u, L, M
<1>2. /\ \A i \in 1 .. L : i \in 1 .. L + M /\ u[i] = s[i]
      /\ \A i \in 1 .. M : i + L \in 1 .. L + M /\ u[i + L] = t[i]
  <2>1. ASSUME NEW i \in 1 .. L PROVE i \in 1 .. L + M /\ u[i] = s[i]
    BY <1>1
  <2>2. ASSUME NEW i \in 1 .. M PROVE i + L \in 1 .. L + M /\ u[i + L] = t[i]
    <3>1. i + L \in 1 .. L + M /\ ~(i + L <= L) /\ (i + L) - L = i
      BY <1>1
    <3>. QED
      BY <1>1, <3>1
  <2>. QED
    BY <2>1, <2>2
<1>3. ASSUME Before(s, a, b) PROVE Before(u, a, b)
  <2>1. PICK i \in 1 .. L, j \in 1 .. L : i < j /\ s[i] = a /\ s[j] = b
    BY <1>1, <1>3 DEF Before
  <2>. QED
    BY <1>1, <1>2, <2>1 DEF Before
<1>4. ASSUME Before(t, a, b) PROVE Before(u, a, b)
  <2>1. PICK i \in 1 .. M, j \in 1 .. M : i < j /\ t[i] = a /\ t[j] = b
    BY <1>1, <1>4 DEF Before
  <2>2. i + L < j + L
    BY <1>1, <2>1
  <2>3. i + L \in DOMAIN u /\ j + L \in DOMAIN u /\ u[i + L] = a /\ u[j + L] = b
    BY <1>1, <1>2, <2>1
  <2>. QED
    BY <2>2, <2>3 DEF Before
<1>5. ASSUME a \in Elements(s), b \in Elements(t) PROVE Before(u, a, b)
  <2>1. PICK i \in 1 .. L : s[i] = a
    BY <1>1, <1>5 DEF Elements
  <2>2. PICK j \in 1 .. M : t[j] = b
    BY <1>1, <1>5 DEF Elements
  <2>3. i < j + L
    BY <1>1
  <2>4. i \in DOMAIN u /\ j + L \in DOMAIN u /\ u[i] = a /\ u[j + L] = b
    BY <1>1, <1>2, <2>1, <2>2
  <2>. QED
    BY <2>3, <2>4 DEF Before
<1>6. ASSUME Before(u, a, b)
      PROVE  Before(s, a, b) \/ Before(t, a, b) \/ (a \in Elements(s) /\ b \in Elements(t))
  <2>1. PICK i \in 1 .. L + M, j \in 1 .. L + M : i < j /\ u[i] = a /\ u[j] = b
    BY <1>1, <1>6 DEF Before
  <2>2. CASE j <= L
    <3>1. i \in DOMAIN s /\ j \in DOMAIN s /\ s[i] = a /\ s[j] = b
      BY <1>1, <2>1, <2>2
    <3>. QED
      BY <2>1, <3>1 DEF Before
  <2>3. CASE ~(i <= L)
    <3>1. i - L \in 1 .. M /\ j - L \in 1 .. M /\ i - L < j - L /\ ~(j <= L)
      BY <1>1, <2>1, <2>3
    <3>2. t[i - L] = a /\ t[j - L] = b
      BY <1>1, <2>1, <2>3, <3>1
    <3>. QED
      BY <1>1, <3>1, <3>2 DEF Before
  <2>4. CASE i <= L /\ ~(j <= L)
    <3>1. i \in DOMAIN s /\ s[i] = a
      BY <1>1, <2>1, <2>4
    <3>2. j - L \in 1 .. M
      BY <1>1, <2>1, <2>4
    <3>3. t[j - L] = b
      BY <1>1, <2>1, <2>4
    <3>. QED
      BY <1>1, <3>1, <3>2, <3>3 DEF Elements
  <2>. QED
    BY <2>2, <2>3, <2>4
<1>. QED
  BY <1>3, <1>4, <1>5, <1>6 DEF u

\* Taking elements out keeps the order of the others.
LEMMA BeforeWithout ==
  ASSUME NEW T, NEW s \in Seq(T), NEW S, NEW a, NEW b, a \notin S, b \notin S, Before(s, a, b)
  PROVE  Before(Without(s, S), a, b)
<1>1. PICK i \in DOMAIN s, j \in DOMAIN s : i < j /\ s[i] = a /\ s[j] = b
  BY DEF Before
<1>2. i < j /\ s[i] \notin S /\ s[j] \notin S
  BY <1>1
<1>3. \E k, l \in DOMAIN Without(s, S) :
        k < l /\ Without(s, S)[k] = s[i] /\ Without(s, S)[l] = s[j]
  BY <1>2, WithoutOrder
<1>. QED
  BY <1>1, <1>3, Zenon DEF Before

\* So does taking away the first ones, and what stood behind one that stays
\* stays.
LEMMA BeforeDrop ==
  ASSUME NEW T, NEW s \in Seq(T), Distinct(s), NEW n \in 0 .. Len(s),
         NEW a \in Elements(DropFirst(s, n)), NEW b, Before(s, a, b)
  PROVE  Before(DropFirst(s, n), a, b)
<1>. DEFINE d == DropFirst(s, n)
            L == Len(s)
<1>1. /\ L \in Nat /\ n \in Nat /\ DOMAIN s = 1 .. L /\ DOMAIN d = 1 .. L - n
      /\ \A k \in 1 .. L - n : d[k] = s[k + n]
  BY DEF DropFirst
<1>2. PICK i \in 1 .. L, j \in 1 .. L : i < j /\ s[i] = a /\ s[j] = b
  BY <1>1 DEF Before
<1>3. PICK k \in 1 .. L - n : d[k] = a
  BY <1>1 DEF Elements
<1>. HIDE DEF d, L
<1>4. k + n \in 1 .. L /\ s[k + n] = s[i]
  BY <1>1, <1>2, <1>3
<1>5. k + n = i
  BY <1>1, <1>4 DEF Distinct
<1>6. k < j - n /\ j - n \in 1 .. L - n /\ (j - n) + n = j
  BY <1>1, <1>2, <1>5
<1>7. d[j - n] = b
  BY <1>1, <1>2, <1>6
<1>8. Before(d, a, b)
  BY <1>1, <1>3, <1>6, <1>7 DEF Before
<1>. QED
  BY <1>8 DEF d

\* The interval up to n has n members.
LEMMA IntervalSize ==
  ASSUME NEW n \in Nat
  PROVE  IsFiniteSet(1 .. n) /\ Cardinality(1 .. n) = n
<1>1. IsFiniteSet(1 .. n) /\ Cardinality(1 .. n) = IF 1 > n THEN 0 ELSE n - 1 + 1
  BY FS_Interval
<1>. QED
  BY <1>1

\* An element never moves back, and moves forward when one before it goes.
LEMMA WithoutPlace ==
  ASSUME NEW T, NEW s \in Seq(T), NEW S, NEW i \in DOMAIN s, s[i] \notin S
  PROVE  \E k \in DOMAIN Without(s, S) :
           /\ k <= i /\ Without(s, S)[k] = s[i]
           /\ (\E p \in DOMAIN s : p < i /\ s[p] \in S) => k < i
<1>. DEFINE K == Kept(s, S)
            n == Cardinality(K)
            at(k) == CHOOSE m \in K : Rank(s, S, m) = k
            w == Without(s, S)
            U == {j \in K : j <= i}
<1>1. i \in K /\ i \in Nat /\ i >= 1
  BY DEF Kept
<1>2. \A m \in K : Rank(s, S, m) \in 1 .. n /\ at(Rank(s, S, m)) = m
  BY RankBijective, RankIncreases
<1>3. w = [k \in 1 .. n |-> s[at(k)]]
  BY DEF Without
<1>4. K \subseteq 1 .. Len(s) /\ \A p \in K : s[p] \notin S
  BY KeptFinite DEF Kept
<1>5. /\ IsFiniteSet(1 .. i) /\ Cardinality(1 .. i) = i
  BY <1>1, IntervalSize
<1>6. U \in SUBSET (1 .. i)
  BY <1>1, <1>4
<1>7. Rank(s, S, i) = Cardinality(U)
  BY DEF Rank
<1>. HIDE DEF U
<1>8. Cardinality(U) <= i /\ (Cardinality(U) = i => U = 1 .. i) /\ Cardinality(U) \in Nat
  <2>. DEFINE I == 1 .. i
  <2>1. IsFiniteSet(I) /\ Cardinality(I) = i /\ U \in SUBSET I
    BY <1>5, <1>6
  <2>. HIDE DEF I
  <2>2. /\ IsFiniteSet(U) /\ Cardinality(U) <= Cardinality(I)
        /\ Cardinality(I) = Cardinality(U) => I = U
    BY <2>1, FS_Subset
  <2>3. Cardinality(U) \in Nat
    BY <2>2, FS_CardinalityType
  <2>. QED
    BY <2>1, <2>2, <2>3 DEF I
<1>9. ASSUME NEW p \in DOMAIN s, p < i, s[p] \in S PROVE Cardinality(U) < i
  <2>1. p \in 1 .. i /\ p \notin U
    BY <1>1, <1>4, <1>9 DEF U
  <2>. QED
    BY <1>1, <1>8, <2>1
<1>. HIDE DEF at, n, K, w
<1>10. w[Rank(s, S, i)] = s[i] /\ DOMAIN w = 1 .. n /\ Rank(s, S, i) \in DOMAIN w
  BY <1>1, <1>2, <1>3
<1>. QED
  BY <1>7, <1>8, <1>9, <1>10 DEF w

----------------------------------------------------------------------------
(* Induction over an interval, as a fact about sets                        *)

\* A downward closed set of naturals with an upper bound has a largest element.
LEMMA InitialSegmentMax ==
  ASSUME NEW b \in Nat, NEW S \in SUBSET (0 .. b), 0 \in S,
         \A k \in S : \A j \in 0 .. k : j \in S
  PROVE  \E k \in S : \A j \in S : j <= k
<1>0. IsFiniteSet(0 .. b)
  BY FS_Interval
<1>1. IsFiniteSet(S)
  BY <1>0, FS_Subset
<1>. DEFINE m == Cardinality(S) - 1
<1>2. \A k \in S : k <= m
  <2>. SUFFICES ASSUME NEW k \in S PROVE k <= m
    OBVIOUS
  <2>1. k \in Nat /\ (0 .. k) \subseteq S
    OBVIOUS
  <2>2. Cardinality(0 .. k) <= Cardinality(S)
    BY <1>1, <2>1, FS_Subset
  <2>3. Cardinality(0 .. k) = k + 1
    BY <2>1, FS_Interval
  <2>4. Cardinality(S) \in Nat
    BY <1>1, FS_CardinalityType
  <2>. QED
    BY <2>1, <2>2, <2>3, <2>4
<1>3. Cardinality(S) \in Nat
  BY <1>1, FS_CardinalityType
<1>4. m \in Nat
  BY <1>2, <1>3
<1>5. S \subseteq 0 .. m
  BY <1>2, <1>4
<1>6. IsFiniteSet(0 .. m) /\ Cardinality(0 .. m) = m + 1
  BY <1>4, FS_Interval
<1>7. Cardinality(0 .. m) = Cardinality(S)
  BY <1>3, <1>6
<1>8. 0 .. m = S
  BY <1>5, <1>6, <1>7, FS_Subset
<1>9. m \in S
  BY <1>4, <1>8
<1>. QED
  BY <1>2, <1>9

\* A set that contains 0 and, with a number below N, the next one, contains all
\* numbers up to N.
LEMMA SetInduction ==
  ASSUME NEW N \in Nat, NEW S, 0 \in S, \A k \in 0 .. N - 1 : k \in S => k + 1 \in S
  PROVE  \A k \in 0 .. N : k \in S
<1>. DEFINE T == {k \in 0 .. N : \A j \in 0 .. k : j \in S}
<1>1. 0 \in T
  OBVIOUS
<1>2. T \in SUBSET (0 .. N) /\ \A k \in T : \A j \in 0 .. k : j \in T
  OBVIOUS
<1>3. PICK m \in T : \A j \in T : j <= m
  BY <1>1, <1>2, InitialSegmentMax
<1>4. m = N
  <2>. SUFFICES ASSUME m < N PROVE FALSE
    BY <1>3
  <2>1. m + 1 \in S
    BY <1>3
  <2>2. m + 1 \in T
    BY <1>3, <2>1
  <2>. QED
    BY <1>3, <2>2
<1>. QED
  BY <1>3, <1>4

\* A non-empty sequence of numbers has a largest one.
LEMMA LargestExists ==
  ASSUME NEW L \in Nat \ {0}, NEW g \in [1 .. L -> Nat]
  PROVE  \E i \in 1 .. L : \A j \in 1 .. L : g[j] <= g[i]
<1>. DEFINE S == {k \in Nat : \E i \in 1 .. k + 1 : \A j \in 1 .. k + 1 : g[j] <= g[i]}
<1>1. 0 \in S
  <2>1. 1 \in 1 .. L /\ g[1] <= g[1]
    OBVIOUS
  <2>2. \A j \in 1 .. 0 + 1 : j = 1
    OBVIOUS
  <2>. QED
    BY <2>1, <2>2
<1>2. ASSUME NEW k \in 0 .. L - 1 - 1, k \in S PROVE k + 1 \in S
  <2>1. PICK i \in 1 .. k + 1 : \A j \in 1 .. k + 1 : g[j] <= g[i]
    BY <1>2
  <2>2. i \in 1 .. L /\ k + 2 \in 1 .. L /\ k + 1 \in Nat /\ k + 1 + 1 = k + 2
    BY <1>2
  <2>3. \A j \in 1 .. k + 2 : j \in 1 .. k + 1 \/ j = k + 2
    BY <1>2
  <2>4. g[i] \in Nat /\ g[k + 2] \in Nat /\ \A j \in 1 .. k + 1 : g[j] \in Nat
    BY <2>2
  <2>5. CASE g[k + 2] <= g[i]
    <3>1. \A j \in 1 .. k + 2 : g[j] <= g[i]
      BY <2>1, <2>3, <2>5
    <3>. QED
      BY <2>2, <3>1
  <2>6. CASE ~(g[k + 2] <= g[i])
    <3>1. \A j \in 1 .. k + 2 : g[j] <= g[k + 2]
      BY <2>1, <2>3, <2>4, <2>6
    <3>2. k + 2 \in 1 .. k + 2
      BY <1>2
    <3>. QED
      BY <2>2, <3>1, <3>2
  <2>. QED
    BY <2>5, <2>6
<1>3. \A k \in 0 .. L - 1 : k \in S
  <2>. HIDE DEF S
  <2>1. L - 1 \in Nat
    OBVIOUS
  <2>. QED
    BY <1>1, <1>2, <2>1, SetInduction
<1>4. L - 1 \in S
  <2>. HIDE DEF S
  <2>. QED
    BY <1>3, L - 1 \in 0 .. L - 1
<1>5. L - 1 + 1 = L
  OBVIOUS
<1>. QED
  BY <1>4, <1>5

\* Taking one element out moves the ones behind it one place forward.
LEMMA WithoutOne ==
  ASSUME NEW T, NEW s \in Seq(T), Distinct(s), NEW i \in 1 .. Len(s)
  PROVE  /\ Len(Without(s, {s[i]})) = Len(s) - 1
         /\ \A k \in 1 .. Len(s) - 1 :
              Without(s, {s[i]})[k] = IF k < i THEN s[k] ELSE s[k + 1]
<1>. DEFINE L == Len(s)
            S == {s[i]}
            K == Kept(s, S)
<1>0. L \in Nat /\ DOMAIN s = 1 .. L /\ i \in Nat /\ 1 <= i /\ i <= L
  OBVIOUS
<1>1. K = (1 .. L) \ {i}
  BY <1>0 DEF Kept, Distinct
<1>2. IsFiniteSet(1 .. L) /\ Cardinality(1 .. L) = L
  BY <1>0, IntervalSize
<1>3. Cardinality(K) = L - 1
  <2>1. Cardinality((1 .. L) \ {i}) = IF i \in 1 .. L THEN Cardinality(1 .. L) - 1 ELSE Cardinality(1 .. L)
    BY <1>2, FS_RemoveElement, Zenon
  <2>2. i \in 1 .. L
    BY <1>0
  <2>. HIDE DEF K, L
  <2>. QED
    BY <1>1, <1>2, <2>1, <2>2
<1>4. ASSUME NEW k \in 1 .. L - 1
      PROVE  Without(s, S)[k] = IF k < i THEN s[k] ELSE s[k + 1]
  <2>. DEFINE j == IF k < i THEN k ELSE k + 1
              U == {m \in K : m <= j}
  <2>1. k \in Nat /\ j \in Nat /\ j \in 1 .. L /\ j # i /\ (j = k \/ j = k + 1)
    BY <1>0
  <2>2. (k < i => j = k /\ j < i) /\ (~(k < i) => j = k + 1 /\ i < j)
    BY <1>0, <2>1
  <2>. HIDE DEF j
  <2>3. IsFiniteSet(1 .. j) /\ Cardinality(1 .. j) = j
    BY <2>1, IntervalSize
  <2>. HIDE DEF K
  <2>10. Cardinality(U) = k
    <3>1. CASE k < i
      <4>1. U = 1 .. j
        BY <3>1, <1>0, <1>1, <2>1, <2>2
      <4>. QED
        BY <3>1, <4>1, <2>2, <2>3
    <3>2. CASE ~(k < i)
      <4>1. U = (1 .. j) \ {i}
        BY <3>2, <1>0, <1>1, <2>1, <2>2
      <4>2. i \in 1 .. j
        BY <3>2, <1>0, <2>1, <2>2
      <4>3. Cardinality((1 .. j) \ {i}) = j - 1
        BY <2>3, <4>2, FS_RemoveElement
      <4>4. j - 1 = k
        BY <3>2, <2>1, <2>2
      <4>. QED
        BY <4>1, <4>3, <4>4
    <3>. QED
      BY <3>1, <3>2
  <2>4. j \in K
    BY <1>1, <2>1
  <2>5. Rank(s, S, j) = k
    BY <2>10 DEF Rank, K
  <2>. HIDE DEF S, U
  <2>6. \A a, b \in K : Rank(s, S, a) = Rank(s, S, b) => a = b
    BY RankBijective DEF K
  <2>7. (CHOOSE a \in K : Rank(s, S, a) = k) = j
    BY <2>4, <2>5, <2>6
  <2>8. k \in 1 .. Cardinality(K)
    BY <1>3
  <2>9. Without(s, S)[k] = s[j]
    BY <2>7, <2>8 DEF Without, K
  <2>. QED
    BY <2>9 DEF j
<1>5. Len(Without(s, S)) = L - 1
  BY <1>3, WithoutElements
<1>. QED
  BY <1>4, <1>5

=============================================================================
