------------------------------- MODULE Queues -------------------------------
(***************************************************************************)
(* Operators on queues of distinct elements, as EvictionQueue, BlockPool   *)
(* and the scheduler use them.                                             *)
(***************************************************************************)
EXTENDS Naturals, Sequences, FiniteSets

Elements(s) == {s[i] : i \in DOMAIN s}

Distinct(s) == \A i, j \in DOMAIN s : s[i] = s[j] => i = j

\* s without the elements of S, the others in their order.  An index keeps its
\* rank among the kept ones; no recursion, so that it can be reasoned about.
Kept(s, S) == {i \in DOMAIN s : s[i] \notin S}
Rank(s, S, i) == Cardinality({j \in Kept(s, S) : j <= i})
Without(s, S) ==
  [k \in 1 .. Cardinality(Kept(s, S)) |->
     s[CHOOSE i \in Kept(s, S) : Rank(s, S, i) = k]]

\* a stands somewhere before b.
Before(s, a, b) == \E i, j \in DOMAIN s : i < j /\ s[i] = a /\ s[j] = b

TakeFirst(s, n) == SubSeq(s, 1, n)
DropFirst(s, n) == SubSeq(s, n + 1, Len(s))
=============================================================================
