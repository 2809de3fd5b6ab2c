--------------------------- MODULE FreeBlockQueue ---------------------------
(***************************************************************************)
(* FreeKVCacheBlockQueue (vllm/v1/core/kv_cache_utils.py): the free blocks *)
(* of the pool as a doubly linked list threaded through the blocks         *)
(* themselves, between a fake head and a fake tail, with a separate count. *)
(* The loops of popleft_n and append_n are rendered by what they walk: a   *)
(* list of blocks, each the successor of the one before it.                *)
(***************************************************************************)
EXTENDS Queues

CONSTANTS Block,          \* KVCacheBlock objects
          InitialOrder,   \* the list given to __init__, ordered by block id
          FakeHead,       \* fake_free_list_head
          FakeTail,       \* fake_free_list_tail
          None            \* Python's None

VARIABLES prev,           \* prev_free_block of every block
          next,           \* next_free_block of every block
          numFree,        \* num_free_blocks
          ret             \* the list the last call returned

vars == <<prev, next, numFree, ret>>

ASSUME NodeAssumption ==
  /\ IsFiniteSet(Block)
  /\ InitialOrder \in Seq(Block) /\ Distinct(InitialOrder)
  /\ FakeHead \notin Block /\ FakeTail \notin Block /\ None \notin Block
  /\ FakeHead # FakeTail /\ FakeHead # None /\ FakeTail # None

Node == Block \cup {FakeHead, FakeTail}

----------------------------------------------------------------------------

\* The list in the order of its links, both fakes included.
Chain(s) == <<FakeHead>> \o s \o <<FakeTail>>

\* A block the list does not hold has neither link.
Unlinked(b) == prev[b] = None /\ next[b] = None

Init ==
  LET c == Chain(InitialOrder) IN
  /\ next = [b \in Node |-> IF \E i \in 1 .. Len(c) - 1 : c[i] = b
                            THEN c[(CHOOSE i \in 1 .. Len(c) - 1 : c[i] = b) + 1]
                            ELSE None]
  /\ prev = [b \in Node |-> IF \E i \in 2 .. Len(c) : c[i] = b
                            THEN c[(CHOOSE i \in 2 .. Len(c) : c[i] = b) - 1]
                            ELSE None]
  /\ numFree = Len(InitialOrder)
  /\ ret = <<>>

\* Mutant: the empty list is not noticed.
PopLeftUnchecked ==
  LET first == next[FakeHead]
      second == next[first] IN
  /\ next' = [next EXCEPT ![FakeHead] = second, ![first] = None]
  /\ prev' = [prev EXCEPT ![first] = None]
  /\ numFree' = numFree - 1
  /\ ret' = <<first>>

\* Raises when the list is empty, or its first block has no successor.
PopLeft ==
  LET first == next[FakeHead]
      second == next[first] IN
  /\ first \notin {FakeTail, None}
  /\ second # None
  /\ next' = [next EXCEPT ![FakeHead] = second, ![first] = None]
  /\ prev' = [prev EXCEPT ![second] = FakeHead, ![first] = None]
  /\ numFree' = numFree - 1
  /\ ret' = <<first>>

\* bs is what a walk of Len(bs) hops from the fake head meets.
IsWalk(bs) ==
  \A k \in DOMAIN bs : bs[k] = next[IF k = 1 THEN FakeHead ELSE bs[k - 1]]

\* The count is trusted: only num_free_blocks bounds the walk.
PopLeftN(n) ==
  \/ /\ n = 0
     /\ ret' = <<>>
     /\ UNCHANGED <<prev, next, numFree>>
  \/ /\ n > 0
     /\ numFree >= n
     /\ \E bs \in [1 .. n -> Node] :
          LET popped == Elements(bs)
              curr == next[bs[n]] IN
          /\ IsWalk(bs)
          /\ next' = [b \in Node |-> IF b = FakeHead /\ curr # None THEN curr
                                     ELSE IF b \in popped THEN None ELSE next[b]]
          /\ prev' = [b \in Node |-> IF b = curr THEN FakeHead
                                     ELSE IF b \in popped THEN None ELSE prev[b]]
          /\ ret' = bs
     /\ numFree' = numFree - n

\* Mutant: the successor still points back to the removed block.
RemoveOneSided(b) ==
  /\ prev[b] # None /\ next[b] # None
  /\ next' = [next EXCEPT ![prev[b]] = next[b], ![b] = None]
  /\ prev' = [prev EXCEPT ![b] = None]
  /\ numFree' = numFree - 1
  /\ ret' = <<>>

\* Raises when one of the block's links is missing.
Remove(b) ==
  /\ prev[b] # None /\ next[b] # None
  /\ next' = [next EXCEPT ![prev[b]] = next[b], ![b] = None]
  /\ prev' = [prev EXCEPT ![next[b]] = prev[b], ![b] = None]
  /\ numFree' = numFree - 1
  /\ ret' = <<>>

\* Mutant: the block is put first, to be evicted next.
AppendAtFront(b) ==
  LET first == next[FakeHead] IN
  /\ Unlinked(b)
  /\ first # None
  /\ next' = [next EXCEPT ![FakeHead] = b, ![b] = first]
  /\ prev' = [prev EXCEPT ![first] = b, ![b] = FakeHead]
  /\ numFree' = numFree + 1
  /\ ret' = <<>>

\* The caller appends only blocks that left the list.
Append1(b) ==
  LET last == prev[FakeTail] IN
  /\ Unlinked(b)
  /\ last # None
  /\ next' = [next EXCEPT ![last] = b, ![b] = FakeTail]
  /\ prev' = [prev EXCEPT ![b] = last, ![FakeTail] = b]
  /\ numFree' = numFree + 1
  /\ ret' = <<>>

\* append_n links the blocks one behind the other after the last block.
AppendN(bs) ==
  LET n == Len(bs)
      last == prev[FakeTail]
      pos(b) == CHOOSE k \in 1 .. n : bs[k] = b IN
  /\ Distinct(bs)
  /\ \A k \in 1 .. n : Unlinked(bs[k])
  /\ ret' = <<>>
  /\ \/ n = 0 /\ UNCHANGED <<prev, next, numFree>>
     \/ /\ n > 0
        /\ last # None
        /\ next' = [b \in Node |->
                      IF b = last THEN bs[1]
                      ELSE IF b \in Elements(bs)
                           THEN IF pos(b) = n THEN FakeTail ELSE bs[pos(b) + 1]
                           ELSE next[b]]
        /\ prev' = [b \in Node |->
                      IF b = FakeTail THEN bs[n]
                      ELSE IF b \in Elements(bs)
                           THEN IF pos(b) = 1 THEN last ELSE bs[pos(b) - 1]
                           ELSE prev[b]]
        /\ numFree' = numFree + n

\* get_all_free_blocks: follow next_free_block until the fake tail.
GetAllFreeBlocks ==
  LET hop[k \in 0 .. Cardinality(Block)] ==
        IF k = 0 THEN next[FakeHead]
        ELSE IF hop[k - 1] \in Block THEN next[hop[k - 1]] ELSE hop[k - 1]
      met == {k \in 0 .. Cardinality(Block) : hop[k] \in Block}
  IN [k \in 1 .. Cardinality(met) |-> hop[k - 1]]

Next ==
  \/ PopLeft
  \/ \E n \in 0 .. Cardinality(Block) : PopLeftN(n)
  \/ \E b \in Block : Remove(b) \/ Append1(b)
  \/ \E n \in 0 .. Cardinality(Block) : \E bs \in [1 .. n -> Block] : AppendN(bs)

Spec == Init /\ [][Next]_vars

----------------------------------------------------------------------------

\* Links lead to blocks, to the fakes or nowhere, and the count of free blocks
\* never goes below zero: popleft and popleft_n stop at the end of the list.
TypeOK ==
  /\ prev \in [Node -> Node \cup {None}]
  /\ next \in [Node -> Node \cup {None}]
  /\ numFree \in Nat
  /\ ret \in Seq(Node)

\* The links represent the list s: both directions agree along the chain from
\* the fake head to the fake tail, and nothing else is linked.
Represents(s) ==
  LET c == Chain(s) IN
  /\ Distinct(s)
  /\ \A i \in 1 .. Len(c) - 1 : next[c[i]] = c[i + 1] /\ prev[c[i + 1]] = c[i]
  /\ prev[FakeHead] = None /\ next[FakeTail] = None
  /\ \A b \in Block \ Elements(s) : Unlinked(b)

\* However pops, removals and returns interleave, the links form one list of
\* distinct blocks and num_free_blocks is its length: the count popleft_n and
\* the admission test of the KV cache manager trust is never out of sync with
\* the list (kv_cache_utils.py raises "out of sync" only in popleft).
WellLinked == \E s \in [1 .. numFree -> Block] : Represents(s)

\* The pointer operations implement the queue EvictionQueue promises, results
\* included: the blocks come out in exactly the order they were queued.
Abs == INSTANCE EvictionQueue WITH queue <- GetAllFreeBlocks

ImplementsQueue == Abs!ASpec
============================================================================
