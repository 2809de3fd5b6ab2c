--------------------------- MODULE SchedulerProofs ---------------------------
(***************************************************************************)
(* The scheduler for every set of requests, pool, policy and configuration *)
(* of the engine: the queues and the statuses of the requests agree, and   *)
(* first come, first served is kept.                                       *)
(***************************************************************************)
EXTENDS Scheduler, KVCacheManagerProofs

Unfinished == {"WAITING", "RUNNING", "PREEMPTED"}

\* An entry of scheduled and one of a batch.
Grant == [req : Request, n : Int]
Output == [req : Request, pos : Int]

\* The shape of the state, without the bounds of TypeOK.
Shape ==
  /\ status \in [Request -> Statuses]
  /\ computed \in [Request -> Int] /\ placeholders \in [Request -> Int]
  /\ out \in [Request -> Seq(Int)]
  /\ waiting \in Seq(Request) /\ running \in Seq(Request)
  /\ batches \in Seq(Seq(Output))
  /\ pc \in {"idle", "reset", "running", "allocate", "waiting", "finish", "collect",
             "update", "free"}
  /\ budget \in Int /\ idx \in Int
  /\ trying \in Seq(Grant) /\ scheduled \in Seq(Grant)
  /\ reqBlocks = [r \in Request |-> reqBlocks[r]]

\* What the thread relies on at each place: the request blocks are asked for is
\* running, whatever was preempted for it; only running requests are scheduled;
\* an output belongs to a request that has arrived, and to a live one when it is
\* about to be freed.
ControlOK ==
  /\ pc = "allocate" => Len(trying) = 1 /\ trying[1].req \in Elements(running)
  /\ pc \in {"update", "free"} => batches # <<>>
  /\ pc = "free" => batches[1] # <<>> /\ status[Entry.req] \in Unfinished
  /\ pc \notin Scheduling => scheduled = <<>>
  /\ \A i \in DOMAIN scheduled : status[scheduled[i].req] = "RUNNING"
  /\ \A i \in DOMAIN batches : \A j \in DOMAIN batches[i] : status[batches[i][j].req] # "NEW"

Visited(line, r, k) == \E i \in DOMAIN line : i < k /\ line[i] = r

\* The running loop visits a request once although preempting a victim moves
\* the list under its index: what is scheduled lies before the index, and the
\* request blocks are asked for at the index or, if the victim was one the loop
\* had skipped, before it.
LoopOK ==
  /\ pc \notin Scheduling => idx = 1
  /\ \A i, j \in DOMAIN scheduled : scheduled[i].req = scheduled[j].req => i = j
  /\ pc \in {"running", "allocate"} =>
       idx >= 1 /\ \A i \in DOMAIN scheduled : Visited(running, scheduled[i].req, idx)
  /\ pc = "allocate" =>
       /\ Visited(running, trying[1].req, idx + 1)
       /\ \A i \in DOMAIN scheduled : scheduled[i].req # trying[1].req

\* The inductive invariant of the queues.
QInv == Shape /\ ControlOK /\ LoopOK /\ QueuesMatchStatus

----------------------------------------------------------------------------
(* The operations of the request queues                                    *)

\* A request is put into its place in the heap.
LEMMA InsertElements ==
  ASSUME NEW q \in Seq(Request), NEW r \in Request
  PROVE  /\ InsertUrgent(q, r) \in Seq(Request)
         /\ Elements(InsertUrgent(q, r)) = Elements(q) \cup {r}
         /\ Distinct(q) /\ r \notin Elements(q) => Distinct(InsertUrgent(q, r))
<1> DEFINE I == {i \in DOMAIN q : Urgency[q[i]] < Urgency[r]}
           n == Cardinality(I)
           a == TakeFirst(q, n)
           b == DropFirst(q, n)
           c == <<r>>
<1>1. n \in 0 .. Len(q)
  <2>1. Len(q) \in Nat /\ IsFiniteSet(1 .. Len(q)) /\ Cardinality(1 .. Len(q)) = Len(q)
    <3>1. Len(q) \in Nat
      OBVIOUS
    <3>2. IsFiniteSet(1 .. Len(q))
          /\ Cardinality(1 .. Len(q)) = IF 1 > Len(q) THEN 0 ELSE Len(q) - 1 + 1
      BY <3>1, FS_Interval, SMTT(30)
    <3> QED
      BY <3>1, <3>2
  <2>2. I \subseteq 1 .. Len(q)
    OBVIOUS
  <2> HIDE DEF I
  <2>3. IsFiniteSet(I) /\ n <= Len(q)
    BY <2>1, <2>2, FS_Subset
  <2> QED
    BY <2>1, <2>3, FS_CardinalityType
<1>2. InsertUrgent(q, r) = a \o c \o b
  BY DEF InsertUrgent
<1> HIDE DEF n
<1>3. /\ a \in Seq(Request) /\ b \in Seq(Request)
      /\ Elements(q) = Elements(a) \cup Elements(b)
      /\ Distinct(q) => Distinct(a) /\ Distinct(b) /\ Elements(a) \cap Elements(b) = {}
  BY <1>1, SplitElements
<1> HIDE DEF a, b
<1>4. c \in Seq(Request) /\ Elements(c) = {r} /\ Distinct(c)
  BY DEF Elements, Distinct
<1> HIDE DEF c
<1> DEFINE ac == a \o c
<1>5. /\ ac \in Seq(Request) /\ Elements(ac) = Elements(a) \cup {r}
      /\ Distinct(a) /\ r \notin Elements(a) => Distinct(ac)
  BY <1>3, <1>4, ConcatElements
<1>6. InsertUrgent(q, r) = ac \o b
  BY <1>2
<1> HIDE DEF ac
<1>7. /\ ac \o b \in Seq(Request)
      /\ Elements(ac \o b) = Elements(ac) \cup Elements(b)
      /\ Distinct(ac) /\ Distinct(b) /\ Elements(ac) \cap Elements(b) = {}
           => Distinct(ac \o b)
  BY <1>3, <1>5, ConcatElements
<1> QED
  BY <1>3, <1>5, <1>6, <1>7

\* Both policies add and prepend one request and keep the others.
LEMMA QueueElements ==
  ASSUME NEW q \in Seq(Request), NEW r \in Request, Distinct(q), r \notin Elements(q)
  PROVE  /\ AddRequest(q, r) \in Seq(Request) /\ Distinct(AddRequest(q, r))
         /\ Elements(AddRequest(q, r)) = Elements(q) \cup {r}
         /\ PrependRequest(q, r) \in Seq(Request) /\ Distinct(PrependRequest(q, r))
         /\ Elements(PrependRequest(q, r)) = Elements(q) \cup {r}
<1>1. /\ InsertUrgent(q, r) \in Seq(Request) /\ Distinct(InsertUrgent(q, r))
      /\ Elements(InsertUrgent(q, r)) = Elements(q) \cup {r}
  BY InsertElements
<1>2. /\ Append(q, r) \in Seq(Request) /\ Distinct(Append(q, r))
      /\ Elements(Append(q, r)) = Elements(q) \cup {r}
  BY AppendElements
<1>3. /\ <<r>> \o q \in Seq(Request) /\ Distinct(<<r>> \o q)
      /\ Elements(<<r>> \o q) = Elements(q) \cup {r}
  <2> DEFINE c == <<r>>
  <2>1. c \in Seq(Request) /\ Elements(c) = {r} /\ Distinct(c)
    BY DEF Elements, Distinct
  <2> HIDE DEF c
  <2>2. /\ c \o q \in Seq(Request) /\ Distinct(c \o q)
        /\ Elements(c \o q) = Elements(q) \cup {r}
    BY <2>1, ConcatElements
  <2> QED
    BY <2>2 DEF c
<1> QED
  BY <1>1, <1>2, <1>3 DEF AddRequest, PrependRequest

\* A request is taken out of a queue.
LEMMA RemoveElements ==
  ASSUME NEW q \in Seq(Request), NEW r, Distinct(q)
  PROVE  /\ RemoveRequests(q, {r}) \in Seq(Request) /\ Distinct(RemoveRequests(q, {r}))
         /\ Elements(RemoveRequests(q, {r})) = Elements(q) \ {r}
  BY WithoutElements DEF RemoveRequests

\* The last request of a queue is taken off.
LEMMA DropLastElements ==
  ASSUME NEW q \in Seq(Request), q # <<>>, Distinct(q)
  PROVE  /\ TakeFirst(q, Len(q) - 1) \in Seq(Request) /\ Distinct(TakeFirst(q, Len(q) - 1))
         /\ q[Len(q)] \in Request /\ q[Len(q)] \in Elements(q)
         /\ Elements(TakeFirst(q, Len(q) - 1)) = Elements(q) \ {q[Len(q)]}
<1> DEFINE L == Len(q)
           a == TakeFirst(q, L - 1)
<1>1. /\ L \in Nat /\ L >= 1 /\ L - 1 \in 0 .. L /\ DOMAIN q = 1 .. L
      /\ \A i \in 1 .. L : q[i] \in Request
  OBVIOUS
<1>2. a \in Seq(Request) /\ Len(a) = L - 1 /\ \A i \in 1 .. L - 1 : a[i] = q[i]
  BY SubSeqProperties, <1>1 DEF TakeFirst
<1> HIDE DEF a, L
<1>3. DOMAIN a = 1 .. L - 1
  BY <1>1, <1>2
<1>4. Distinct(a)
  BY <1>1, <1>2, <1>3 DEF Distinct
<1>5. q[L] \in Request /\ q[L] \in Elements(q)
  BY <1>1 DEF Elements
<1>6. Elements(a) \subseteq Elements(q) \ {q[L]}
  <2>1. ASSUME NEW i \in 1 .. L - 1 PROVE q[i] \in Elements(q) /\ q[i] # q[L]
    BY <1>1 DEF Elements, Distinct
  <2> QED
    BY <1>2, <1>3, <2>1 DEF Elements
<1>7. Elements(q) \ {q[L]} \subseteq Elements(a)
  <2>1. ASSUME NEW i \in 1 .. L, q[i] # q[L] PROVE q[i] \in Elements(a)
    <3>1. i \in 1 .. L - 1 /\ a[i] = q[i]
      BY <1>1, <1>2, <2>1
    <3> QED
      BY <1>3, <3>1 DEF Elements
  <2> QED
    BY <1>1, <2>1 DEF Elements
<1> QED
  BY <1>2, <1>4, <1>5, <1>6, <1>7 DEF a, L

\* The first request of a queue is taken off.
LEMMA TailElements ==
  ASSUME NEW q \in Seq(Request), q # <<>>, Distinct(q)
  PROVE  /\ Tail(q) \in Seq(Request) /\ Distinct(Tail(q)) /\ q[1] \in Elements(q)
         /\ q[1] \in Request /\ Elements(Tail(q)) = Elements(q) \ {q[1]}
<1> DEFINE L == Len(q)
           a == Tail(q)
<1>1. /\ L \in Nat /\ L >= 1 /\ DOMAIN q = 1 .. L
      /\ \A i \in 1 .. L : q[i] \in Request
  OBVIOUS
<1>2. a \in Seq(Request) /\ Len(a) = L - 1 /\ \A i \in 1 .. L - 1 : a[i] = q[i + 1]
  OBVIOUS
<1> HIDE DEF a, L
<1>3. DOMAIN a = 1 .. L - 1
  BY <1>1, <1>2
<1>4. Distinct(a)
  <2> SUFFICES ASSUME NEW i \in 1 .. L - 1, NEW j \in 1 .. L - 1, q[i + 1] = q[j + 1]
               PROVE  i = j
    BY <1>2, <1>3 DEF Distinct
  <2>1. i + 1 \in 1 .. L /\ j + 1 \in 1 .. L
    BY <1>1
  <2>2. i + 1 = j + 1
    BY <1>1, <2>1 DEF Distinct
  <2> QED
    BY <1>1, <2>2
<1>5. q[1] \in Request /\ q[1] \in Elements(q)
  BY <1>1 DEF Elements
<1>6. Elements(a) \subseteq Elements(q) \ {q[1]}
  <2>1. ASSUME NEW i \in 1 .. L - 1 PROVE q[i + 1] \in Elements(q) /\ q[i + 1] # q[1]
    <3>1. i + 1 \in 1 .. L /\ 1 \in 1 .. L /\ i + 1 # 1
      BY <1>1
    <3> QED
      BY <1>1, <3>1 DEF Elements, Distinct
  <2> QED
    BY <1>2, <1>3, <2>1 DEF Elements
<1>7. Elements(q) \ {q[1]} \subseteq Elements(a)
  <2>1. ASSUME NEW i \in 1 .. L, q[i] # q[1] PROVE q[i] \in Elements(a)
    <3>1. i - 1 \in 1 .. L - 1 /\ i - 1 + 1 = i
      BY <1>1, <2>1
    <3>2. a[i - 1] = q[i]
      BY <1>2, <3>1
    <3> QED
      BY <1>3, <3>1, <3>2 DEF Elements
  <2> QED
    BY <1>1, <2>1 DEF Elements
<1> QED
  BY <1>2, <1>4, <1>5, <1>6, <1>7 DEF a, L

\* The victim of a preemption is running.
LEMMA VictimRuns ==
  ASSUME running \in Seq(Request), running # <<>>
  PROVE  Victim \in Elements(running) /\ Victim \in Request
<1>1. Len(running) \in Nat \ {0} /\ DOMAIN running = 1 .. Len(running)
      /\ \A i \in 1 .. Len(running) : running[i] \in Request
  OBVIOUS
<1>2. CASE Policy = "FCFS"
  <2>1. Len(running) \in DOMAIN running
    BY <1>1
  <2> QED
    BY <1>1, <1>2, <2>1 DEF Victim, Elements
<1>3. CASE Policy # "FCFS"
  <2> DEFINE g == [i \in 1 .. Len(running) |-> Urgency[running[i]]]
  <2>1. g \in [1 .. Len(running) -> Nat]
    BY <1>1, SchedulerAssumption
  <2>2. PICK i \in 1 .. Len(running) : \A j \in 1 .. Len(running) : g[j] <= g[i]
    BY <1>1, <2>1, LargestExists
  <2>3. \E v \in Elements(running) : \A w \in Elements(running) : Urgency[w] <= Urgency[v]
    BY <1>1, <2>2 DEF Elements
  <2>4. Victim \in Elements(running)
    BY <1>3, <2>3 DEF Victim
  <2> QED
    BY <1>1, <2>4 DEF Elements
<1> QED
  BY <1>2, <1>3

----------------------------------------------------------------------------
(* The numbers of schedule() are integers                                  *)

\* Min2 of two integers is one of them.
LEMMA MinFacts ==
  ASSUME NEW a \in Int, NEW b \in Int
  PROVE  Min2(a, b) \in Int /\ Min2(a, b) <= a /\ Min2(a, b) <= b /\ Min2(a, b) \in {a, b}
  BY DEF Min2

\* The prefix cache answers for whole blocks that leave a token to compute.
LEMMA HitLengthBound ==
  ASSUME NEW r \in Request, NEW n \in Nat
  PROVE  HitLength(r, n) \in Nat /\ HitLength(r, n) * BlockSize <= n
<1> DEFINE top == Min2(n \div BlockSize, NumHashes(r))
           ok == {k \in 0 .. top : \A i \in 1 .. k : IsCached(pool, BlockHash(r, i))}
           k0 == CHOOSE k \in ok : \A j \in ok : j <= k
<1>0. BlockSize \in Nat \ {0}
  BY SizeAssumption
<1>1. n \div BlockSize \in Nat /\ (n \div BlockSize) * BlockSize <= n
  BY <1>0, DivFacts
<1>2. NumHashes(r) \in Nat
  BY HashFacts
<1>3. top \in Nat /\ top <= n \div BlockSize
  BY <1>1, <1>2 DEF Min2
<1> HIDE DEF top
<1>4. \E k \in ok : \A j \in ok : j <= k
  <2>1. ok \in SUBSET (0 .. top) /\ 0 \in ok /\ \A k \in ok : \A j \in 0 .. k : j \in ok
    BY <1>3
  <2> QED
    BY <1>3, <2>1, InitialSegmentMax
<1>5. k0 \in ok
  BY <1>4
<1>6. HitLength(r, n) = IF ~EnableCaching THEN 0
                       ELSE IF UseEagle /\ k0 > 0 THEN k0 - 1 ELSE k0
  BY DEF HitLength, top
<1>7. k0 \in 0 .. top
  BY <1>5
<1> HIDE DEF ok, k0
<1>8. HitLength(r, n) \in Nat /\ HitLength(r, n) <= n \div BlockSize
  BY <1>1, <1>3, <1>6, <1>7
<1> DEFINE d == n \div BlockSize
           h == HitLength(r, n)
<1>9. h \in Nat /\ d \in Nat /\ h <= d /\ d * BlockSize <= n
  BY <1>1, <1>8
<1> HIDE DEF d, h
<1>10. h * BlockSize <= d * BlockSize /\ h * BlockSize \in Nat /\ d * BlockSize \in Nat
  BY <1>0, <1>9
<1>11. h * BlockSize <= n
  BY <1>9, <1>10
<1> QED
  BY <1>9, <1>11 DEF h

\* What the waiting loop reads of the prefix cache and gives to a request.
LEMMA PrefillFacts ==
  ASSUME NEW r \in Request, out \in [Request -> Seq(Int)]
  PROVE  /\ NumTokens(r) \in Nat /\ NumTokens(r) >= PromptLen[r] /\ PromptLen[r] >= 1
         /\ Hits(r) = [i \in 1 .. Len(Hits(r)) |-> GetCachedBlock(pool, BlockHash(r, i))]
         /\ Len(Hits(r)) \in Nat
         /\ NumHitTokens(r) \in Nat /\ NumHitTokens(r) <= NumTokens(r) - 1
         /\ NumPrefill(r) \in 1 .. NumTokens(r) - NumHitTokens(r)
<1>1. PromptLen[r] \in Nat /\ PromptLen[r] >= 1
  BY SchedulerAssumption, SizeAssumption
<1>2. Len(out[r]) \in Nat
  OBVIOUS
<1>3. NumTokens(r) \in Nat /\ NumTokens(r) >= PromptLen[r] /\ NumTokens(r) - 1 \in Nat
  BY <1>1, <1>2 DEF NumTokens
<1> DEFINE h == HitLength(r, NumTokens(r) - 1)
<1>4. h \in Nat /\ h * BlockSize <= NumTokens(r) - 1
  BY <1>3, HitLengthBound
<1>5. Hits(r) = [i \in 1 .. h |-> GetCachedBlock(pool, BlockHash(r, i))]
  BY DEF Hits, GetComputedBlocks
<1> HIDE DEF h
<1>6. Len(Hits(r)) = h
  BY <1>4, <1>5
<1>7. NumHitTokens(r) \in Nat /\ NumHitTokens(r) <= NumTokens(r) - 1
  <2>1. NumHitTokens(r) = h * BlockSize
    BY <1>6 DEF NumHitTokens
  <2>2. BlockSize \in Nat
    BY SizeAssumption
  <2>3. h * BlockSize \in Nat
    BY <1>4, <2>2
  <2> QED
    BY <1>4, <2>1, <2>3
<1>8. LongPrefill \in Nat
  BY SchedulerAssumption
<1>9. NumPrefill(r) \in 1 .. NumTokens(r) - NumHitTokens(r)
  BY <1>3, <1>7, <1>8 DEF NumPrefill, Capped
<1> QED
  BY <1>1, <1>3, <1>4, <1>5, <1>6, <1>7, <1>9

\* What the running loop offers a request.
LEMMA NewTokensFacts ==
  ASSUME Shape, NEW r \in Request
  PROVE  NumNewTokens(r) \in Int
<1>1. /\ NumTokens(r) \in Int /\ placeholders[r] \in Int /\ computed[r] \in Int
      /\ budget \in Int /\ MaxModelLen \in Nat /\ LongPrefill \in Nat
  BY PrefillFacts, SizeAssumption, SchedulerAssumption DEF Shape
<1> QED
  BY <1>1 DEF NumNewTokens, Capped, Min2

\* What was scheduled of a request in this step.
LEMMA ScheduledFacts ==
  ASSUME scheduled \in Seq(Grant), NEW r \in Request
  PROVE  \/ NumScheduled(r) = 0 /\ \A i \in DOMAIN scheduled : scheduled[i].req # r
         \/ /\ NumScheduled(r) \in Int
            /\ \E i \in DOMAIN scheduled : scheduled[i] = [req |-> r, n |-> NumScheduled(r)]
<1> DEFINE at == {i \in DOMAIN scheduled : scheduled[i].req = r}
           i0 == CHOOSE i \in at : TRUE
<1>1. CASE at = {}
  BY <1>1 DEF NumScheduled
<1>2. CASE at # {}
  <2>1. i0 \in at
    BY <1>2
  <2>2. NumScheduled(r) = scheduled[i0].n
    BY <1>2 DEF NumScheduled
  <2>3. i0 \in DOMAIN scheduled /\ scheduled[i0].req = r
    BY <2>1
  <2> HIDE DEF i0, at
  <2>4. scheduled[i0] \in Grant
    BY <2>3
  <2>5. scheduled[i0] = [req |-> r, n |-> scheduled[i0].n] /\ scheduled[i0].n \in Int
    BY <2>3, <2>4 DEF Grant
  <2> QED
    BY <2>2, <2>3, <2>5
<1> QED
  BY <1>1, <1>2

----------------------------------------------------------------------------
(* The queues and the statuses                                             *)

\* Initially every queue is empty and no request has arrived.
LEMMA InitQueues == ASSUME Init PROVE QInv
<1>1. Shape
  BY DEF Init, KVInit, Shape, Statuses
<1>2. ControlOK
  BY DEF Init, ControlOK, Scheduling
<1>3. LoopOK
  BY DEF Init, LoopOK, Scheduling
<1>4. QueuesMatchStatus
  <2>1. Elements(running) = {} /\ Elements(waiting) = {}
        /\ Distinct(running) /\ Distinct(waiting)
    BY DEF Init, Elements, Distinct
  <2> QED
    BY <2>1 DEF Init, KVInit, QueuesMatchStatus
<1> QED
  BY <1>1, <1>2, <1>3, <1>4 DEF QInv

\* A request that finishes leaves the queue its status names, and its blocks.
LEMMA LeaveQueue ==
  ASSUME QInv, NEW r \in Request, status[r] \in Unfinished,
         IF status[r] = "RUNNING"
         THEN running' = RemoveRequests(running, {r}) /\ UNCHANGED waiting
         ELSE waiting' = RemoveRequests(waiting, {r}) /\ UNCHANGED running,
         status' = [status EXCEPT ![r] = "FINISHED"],
         Free(r)
  PROVE  /\ running' \in Seq(Request) /\ waiting' \in Seq(Request)
         /\ status' \in [Request -> Statuses]
         /\ reqBlocks' = [s \in Request |-> reqBlocks'[s]]
         /\ QueuesMatchStatus'
<1>1. /\ status \in [Request -> Statuses] /\ reqBlocks = [s \in Request |-> reqBlocks[s]]
      /\ running \in Seq(Request) /\ waiting \in Seq(Request)
      /\ Distinct(running) /\ Distinct(waiting)
  BY DEF QInv, Shape, QueuesMatchStatus
<1>2. /\ status' \in [Request -> Statuses]
      /\ status'[r] = "FINISHED" /\ \A s \in Request : s # r => status'[s] = status[s]
  BY <1>1 DEF Statuses
<1>3. /\ reqBlocks' = [s \in Request |-> reqBlocks'[s]]
      /\ reqBlocks'[r] = <<>> /\ \A s \in Request : s # r => reqBlocks'[s] = reqBlocks[s]
  BY <1>1 DEF Free
<1>4. /\ running' \in Seq(Request) /\ waiting' \in Seq(Request)
      /\ Distinct(running') /\ Distinct(waiting')
      /\ Elements(running') = Elements(running) \ {r}
      /\ Elements(waiting') = Elements(waiting) \ {r}
  <2>1. CASE status[r] = "RUNNING"
    <3>1. r \notin Elements(waiting)
      BY <2>1 DEF QInv, QueuesMatchStatus
    <3>2. running' = RemoveRequests(running, {r}) /\ waiting' = waiting
      BY <2>1
    <3>3. /\ RemoveRequests(running, {r}) \in Seq(Request) /\ Distinct(RemoveRequests(running, {r}))
          /\ Elements(RemoveRequests(running, {r})) = Elements(running) \ {r}
      BY <1>1, RemoveElements
    <3> QED
      BY <1>1, <3>1, <3>2, <3>3
  <2>2. CASE status[r] # "RUNNING"
    <3>1. r \notin Elements(running)
      BY <2>2 DEF QInv, QueuesMatchStatus
    <3>2. waiting' = RemoveRequests(waiting, {r}) /\ running' = running
      BY <2>2
    <3>3. /\ RemoveRequests(waiting, {r}) \in Seq(Request) /\ Distinct(RemoveRequests(waiting, {r}))
          /\ Elements(RemoveRequests(waiting, {r})) = Elements(waiting) \ {r}
      BY <1>1, RemoveElements
    <3> QED
      BY <1>1, <3>1, <3>2, <3>3
  <2> QED
    BY <2>1, <2>2
<1>5. QueuesMatchStatus'
  BY <1>2, <1>3, <1>4 DEF QInv, QueuesMatchStatus
<1> QED
  BY <1>2, <1>3, <1>4, <1>5

\* A preempted request, taken off the running list, is in the waiting queue.
LEMMA PreemptQueues ==
  ASSUME QInv, NEW v \in Request, v \in Elements(running), Preempt(v),
         running' \in Seq(Request), Distinct(running'),
         Elements(running') = Elements(running) \ {v}
  PROVE  /\ waiting' \in Seq(Request)
         /\ status' \in [Request -> Statuses] /\ computed' \in [Request -> Int]
         /\ reqBlocks' = [s \in Request |-> reqBlocks'[s]]
         /\ status'[v] = "PREEMPTED" /\ \A s \in Request : s # v => status'[s] = status[s]
         /\ QueuesMatchStatus'
<1>1. /\ status \in [Request -> Statuses] /\ reqBlocks = [s \in Request |-> reqBlocks[s]]
      /\ waiting \in Seq(Request) /\ Distinct(waiting) /\ computed \in [Request -> Int]
      /\ v \notin Elements(waiting)
  BY DEF QInv, Shape, QueuesMatchStatus
<1>2. /\ status' \in [Request -> Statuses]
      /\ status'[v] = "PREEMPTED" /\ \A s \in Request : s # v => status'[s] = status[s]
  BY <1>1 DEF Statuses, Preempt
<1>3. /\ reqBlocks' = [s \in Request |-> reqBlocks'[s]]
      /\ reqBlocks'[v] = <<>> /\ \A s \in Request : s # v => reqBlocks'[s] = reqBlocks[s]
  BY <1>1 DEF Preempt, Free
<1>4. waiting' \in Seq(Request) /\ Distinct(waiting')
      /\ Elements(waiting') = Elements(waiting) \cup {v}
  BY <1>1, QueueElements DEF Preempt
<1>5. QueuesMatchStatus'
  BY <1>2, <1>3, <1>4 DEF QInv, QueuesMatchStatus
<1>6. computed' \in [Request -> Int]
  BY <1>1 DEF Preempt
<1> QED
  BY <1>2, <1>3, <1>4, <1>5, <1>6

\* An entry leaves the oldest batch.
LEMMA DropEntryFacts ==
  ASSUME NEW T, batches \in Seq(Seq(T)), batches # <<>>, batches[1] # <<>>, DropEntry
  PROVE  /\ batches' \in Seq(Seq(T)) /\ batches' # <<>> /\ Len(batches') = Len(batches)
         /\ \A i \in DOMAIN batches : i # 1 => batches'[i] = batches[i]
         /\ batches'[1] = Tail(batches[1])
         /\ \A i \in DOMAIN batches' : \A j \in DOMAIN batches'[i] :
              \E k \in DOMAIN batches[i] : batches'[i][j] = batches[i][k]
<1> DEFINE S == Seq(T)
           b == batches
           c == batches'
<1>1. Len(b) \in Nat /\ Len(b) >= 1 /\ DOMAIN b = 1 .. Len(b)
  OBVIOUS
<1>2. b[1] \in Seq(T)
  BY <1>1
<1>3. Tail(b[1]) \in Seq(T) /\ Len(Tail(b[1])) = Len(b[1]) - 1
      /\ \A j \in 1 .. Len(b[1]) - 1 : Tail(b[1])[j] = b[1][j + 1]
  BY <1>2
<1>4. c = [b EXCEPT ![1] = Tail(b[1])]
  BY DEF DropEntry
<1>5. b \in Seq(S)
  OBVIOUS
<1>6. Tail(b[1]) \in S
  BY <1>3
<1> HIDE DEF S
<1>7. /\ c \in Seq(S) /\ Len(c) = Len(b) /\ c[1] = Tail(b[1])
      /\ \A i \in DOMAIN b : i # 1 => c[i] = b[i]
  BY <1>1, <1>4, <1>5, <1>6
<1>8. c \in Seq(Seq(T)) /\ c # <<>>
  BY <1>1, <1>7 DEF S
<1>9. ASSUME NEW i \in DOMAIN c, NEW j \in DOMAIN c[i]
      PROVE  \E k \in DOMAIN b[i] : c[i][j] = b[i][k]
  <2>1. i \in DOMAIN b
    BY <1>1, <1>7
  <2>2. CASE i # 1
    BY <1>7, <1>9, <2>1, <2>2
  <2>3. CASE i = 1
    <3>1. j \in 1 .. Len(b[1]) - 1 /\ Len(b[1]) \in Nat
      BY <1>2, <1>3, <1>7, <1>9, <2>3
    <3>2. j + 1 \in DOMAIN b[1] /\ c[1][j] = b[1][j + 1]
      BY <1>2, <1>3, <1>7, <3>1
    <3> QED
      BY <2>3, <3>2
  <2> QED
    BY <2>2, <2>3
<1> QED
  BY <1>7, <1>8, <1>9

\* Steps that only move the thread.
LEMMA MoveQueues ==
  ASSUME QInv,
         UNCHANGED <<reqBlocks, status, computed, out, placeholders, waiting, running,
                     batches, trying, scheduled>>,
         pc' \in {"idle", "reset", "running", "waiting", "finish", "collect", "update"},
         pc \in Scheduling => pc' \in Scheduling,
         pc' = "update" => batches # <<>>,
         pc' = "running" => pc \in {"idle", "running"} /\ idx' >= idx,
         pc' \notin Scheduling => idx' = 1,
         budget' \in Int, idx' \in Int
  PROVE  QInv'
<1>1. Shape'
  BY DEF QInv, Shape
<1>2. ControlOK'
  BY DEF QInv, ControlOK, Scheduling
<1>3. LoopOK'
  <2>1. (\A i, j \in DOMAIN scheduled : scheduled[i].req = scheduled[j].req => i = j)'
    BY DEF QInv, LoopOK
  <2>2. CASE pc' # "running"
    BY <2>1, <2>2 DEF LoopOK
  <2>3. CASE pc' = "running"
    <3>1. idx \in Int /\ idx >= 1 /\ idx' >= idx
      BY <2>3 DEF QInv, Shape, LoopOK, Scheduling
    <3>2. \A i \in DOMAIN scheduled : Visited(running, scheduled[i].req, idx)
      BY <2>3 DEF QInv, ControlOK, LoopOK, Scheduling
    <3>3. running \in Seq(Request)
      BY DEF QInv, Shape
    <3>4. (\A i \in DOMAIN scheduled : Visited(running, scheduled[i].req, idx))'
      BY <3>1, <3>2, <3>3 DEF Visited
    <3> QED
      BY <2>1, <2>3, <3>1, <3>4 DEF LoopOK, Scheduling
  <2> QED
    BY <2>2, <2>3
<1>4. QueuesMatchStatus'
  BY DEF QInv, QueuesMatchStatus
<1> QED
  BY <1>1, <1>2, <1>3, <1>4 DEF QInv

\* add_request.
LEMMA AddQueues ==
  ASSUME QInv, NEW r \in Request, Add(r)
  PROVE  QInv'
<1>1. /\ status \in [Request -> Statuses] /\ status[r] = "NEW"
      /\ waiting \in Seq(Request) /\ Distinct(waiting) /\ r \notin Elements(waiting)
  BY DEF QInv, Shape, QueuesMatchStatus, Add
<1>2. waiting' = AddRequest(waiting, r)
  BY DEF Add
<1>3. /\ waiting' \in Seq(Request) /\ Distinct(waiting')
      /\ Elements(waiting') = Elements(waiting) \cup {r}
  BY <1>1, <1>2, QueueElements
<1>4. /\ status' \in [Request -> Statuses] /\ status'[r] = "WAITING"
      /\ \A s \in Request : s # r => status'[s] = status[s]
  BY <1>1 DEF Add, Statuses
<1>5. Shape'
  BY <1>3, <1>4 DEF QInv, Shape, Add, stepVars, scheduleVars, kvVars
<1>6. ControlOK'
  BY <1>1, <1>4 DEF QInv, ControlOK, Scheduling, Add, stepVars, scheduleVars, Entry
<1>7. QueuesMatchStatus'
  BY <1>1, <1>3, <1>4 DEF QInv, QueuesMatchStatus, Add, kvVars
<1>8. LoopOK'
  BY DEF QInv, ControlOK, LoopOK, Scheduling, Add, stepVars, scheduleVars
<1> QED
  BY <1>5, <1>6, <1>7, <1>8 DEF QInv

\* finish_requests.
LEMMA AbortQueues ==
  ASSUME QInv, NEW r \in Request, Abort(r)
  PROVE  QInv'
<1>1. /\ running' \in Seq(Request) /\ waiting' \in Seq(Request)
      /\ status' \in [Request -> Statuses]
      /\ reqBlocks' = [s \in Request |-> reqBlocks'[s]]
      /\ QueuesMatchStatus'
  BY LeaveQueue DEF Abort, Unfinished
<1>2. \A s \in Request : status'[s] \in {status[s], "FINISHED"}
  BY DEF QInv, Shape, Abort
<1>3. Shape'
  BY <1>1 DEF QInv, Shape, Abort, stepVars, scheduleVars
<1>4. /\ pc' = pc /\ pc \in {"idle", "collect"}
      /\ scheduled' = scheduled /\ batches' = batches /\ idx' = idx
  BY DEF Abort, stepVars, scheduleVars
<1>5. scheduled = <<>>
  BY <1>4 DEF QInv, ControlOK, Scheduling
<1>6. \A i \in DOMAIN batches : \A j \in DOMAIN batches[i] : status'[batches[i][j].req] # "NEW"
  <2> SUFFICES ASSUME NEW i \in DOMAIN batches, NEW j \in DOMAIN batches[i]
               PROVE  status'[batches[i][j].req] # "NEW"
    OBVIOUS
  <2>1. batches[i][j] \in Output
    BY SMTT(30) DEF QInv, Shape
  <2>2. batches[i][j].req \in Request
    BY <2>1 DEF Output
  <2>3. status[batches[i][j].req] # "NEW"
    BY DEF QInv, ControlOK
  <2> QED
    BY <1>2, <2>2, <2>3
<1>7. ControlOK'
  BY <1>4, <1>5, <1>6 DEF ControlOK, Scheduling
<1>8. LoopOK'
  BY <1>4, <1>5 DEF QInv, LoopOK, Scheduling
<1> QED
  BY <1>1, <1>3, <1>7, <1>8 DEF QInv

\* The loop of reset_prefix_cache.
LEMMA ResetPreemptQueues ==
  ASSUME QInv, ResetPreempt
  PROVE  QInv'
<1> DEFINE r == running[Len(running)]
<1>1. running \in Seq(Request) /\ running # <<>> /\ Distinct(running)
  BY DEF QInv, Shape, QueuesMatchStatus, ResetPreempt
<1>2. /\ r \in Request /\ r \in Elements(running)
      /\ running' \in Seq(Request) /\ Distinct(running')
      /\ Elements(running') = Elements(running) \ {r}
  BY <1>1, DropLastElements DEF ResetPreempt
<1>3. /\ Preempt(r) /\ placeholders' = [placeholders EXCEPT ![r] = 0]
      /\ pc = "reset" /\ UNCHANGED <<out, batches, pc, budget, idx, trying, scheduled>>
  BY DEF ResetPreempt, stepVars, scheduleVars
<1> HIDE DEF r
<1>4. /\ waiting' \in Seq(Request)
      /\ status' \in [Request -> Statuses] /\ computed' \in [Request -> Int]
      /\ reqBlocks' = [s \in Request |-> reqBlocks'[s]]
      /\ status'[r] = "PREEMPTED" /\ \A s \in Request : s # r => status'[s] = status[s]
      /\ QueuesMatchStatus'
  BY <1>2, <1>3, PreemptQueues
<1>5. placeholders' \in [Request -> Int]
  BY <1>2, <1>3 DEF QInv, Shape
<1>6. Shape'
  BY <1>2, <1>3, <1>4, <1>5 DEF QInv, Shape
<1>7. ControlOK'
  <2>1. scheduled = <<>>
    BY <1>3 DEF QInv, ControlOK, Scheduling
  <2>2. ASSUME NEW i \in DOMAIN batches, NEW j \in DOMAIN batches[i]
        PROVE  status'[batches[i][j].req] # "NEW"
    <3>1. batches[i][j] \in Output
      BY DEF QInv, Shape
    <3>2. batches[i][j].req \in Request
      BY <3>1 DEF Output
    <3>3. status[batches[i][j].req] # "NEW"
      BY DEF QInv, ControlOK
    <3> QED
      BY <1>4, <3>2, <3>3
  <2> QED
    BY <1>3, <2>1, <2>2 DEF ControlOK, Scheduling
<1>8. LoopOK'
  BY <1>3 DEF QInv, ControlOK, LoopOK, Scheduling
<1> QED
  BY <1>4, <1>6, <1>7, <1>8 DEF QInv

\* allocate_slots touches one table only.
LEMMA AllocateTables ==
  ASSUME reqBlocks = [s \in Request |-> reqBlocks[s]], NEW r \in Request,
         NEW hits, NEW c, NEW n, Allocate(r, hits, c, n)
  PROVE  /\ reqBlocks' = [s \in Request |-> reqBlocks'[s]]
         /\ \A s \in Request : s # r => reqBlocks'[s] = reqBlocks[s]
<1>1. \/ reqBlocks' = reqBlocks
      \/ \E t : reqBlocks' = [reqBlocks EXCEPT ![r] = t]
  BY Zenon DEF Allocate, AllocateSlots
<1>2. ASSUME NEW t, reqBlocks' = [reqBlocks EXCEPT ![r] = t]
      PROVE  /\ reqBlocks' = [s \in Request |-> reqBlocks'[s]]
             /\ \A s \in Request : s # r => reqBlocks'[s] = reqBlocks[s]
  BY <1>2
<1> QED
  BY <1>1, <1>2

\* The request blocks are asked for.
LEMMA TryingFacts ==
  ASSUME QInv, pc = "allocate"
  PROVE  /\ Len(trying) = 1 /\ trying[1] \in Grant
         /\ trying[1].req \in Request /\ trying[1].n \in Int
         /\ trying[1].req \in Elements(running) /\ status[trying[1].req] = "RUNNING"
<1>1. trying \in Seq(Grant) /\ Len(trying) = 1 /\ trying[1].req \in Elements(running)
  BY DEF QInv, Shape, ControlOK
<1>2. trying[1] \in Grant
  BY <1>1
<1>3. trying[1].req \in Request /\ trying[1].n \in Int
  BY <1>2 DEF Grant
<1> QED
  BY <1>1, <1>2, <1>3 DEF QInv, QueuesMatchStatus

\* The running loop settles on a request and a number of tokens.
LEMMA TryRunningQueues ==
  ASSUME QInv, NEW r \in Request, TryRunning(r)
  PROVE  QInv'
<1>1. /\ running \in Seq(Request) /\ idx \in Int /\ idx <= Len(running) /\ r = running[idx]
      /\ pc = "running" /\ pc' = "allocate"
      /\ trying' = <<[req |-> r, n |-> NumNewTokens(r)]>>
      /\ UNCHANGED <<reqBlocks, status, computed, out, placeholders, waiting, running,
                     batches, idx, budget, scheduled>>
  BY DEF QInv, Shape, TryRunning, Visiting, kvVars, reqVars, queueVars
<1>2. NumNewTokens(r) \in Int
  BY NewTokensFacts DEF QInv
<1>3. [req |-> r, n |-> NumNewTokens(r)] \in Grant
  BY <1>2 DEF Grant
<1>4. trying' \in Seq(Grant) /\ Len(trying') = 1 /\ trying'[1].req = r
  BY <1>1, <1>3
<1>5. /\ r \in Elements(running) /\ Visited(running, r, idx + 1)
      /\ \A i \in DOMAIN scheduled : scheduled[i].req # r
  <2>1. idx \in DOMAIN running
    BY <1>1 DEF QInv, LoopOK
  <2>2. ASSUME NEW i \in DOMAIN scheduled, scheduled[i].req = r PROVE FALSE
    <3>1. PICK k \in DOMAIN running : k < idx /\ running[k] = r
      BY <1>1, <2>2 DEF QInv, LoopOK, Visited
    <3>2. k = idx
      BY <1>1, <2>1, <3>1 DEF QInv, QueuesMatchStatus, Distinct
    <3> QED
      BY <1>1, <3>1, <3>2
  <2>3. idx < idx + 1
    BY <1>1
  <2> QED
    BY <1>1, <2>1, <2>2, <2>3 DEF Elements, Visited
<1>6. Shape'
  BY <1>1, <1>4 DEF QInv, Shape
<1>7. ControlOK'
  BY <1>1, <1>4, <1>5 DEF QInv, ControlOK, Scheduling
<1>8. LoopOK'
  BY <1>1, <1>4, <1>5 DEF QInv, LoopOK, Scheduling, Visited
<1>9. QueuesMatchStatus'
  BY <1>1 DEF QInv, QueuesMatchStatus
<1> QED
  BY <1>6, <1>7, <1>8, <1>9 DEF QInv

\* A request is given tokens.
LEMMA GrantFacts ==
  ASSUME scheduled \in Seq(Grant), NEW g \in Grant, scheduled' = Append(scheduled, g)
  PROVE  /\ scheduled' \in Seq(Grant) /\ Len(scheduled') = Len(scheduled) + 1
         /\ \A i \in DOMAIN scheduled : i \in DOMAIN scheduled' /\ scheduled'[i] = scheduled[i]
         /\ scheduled'[Len(scheduled) + 1] = g
         /\ \A i \in DOMAIN scheduled' :
              \/ i \in DOMAIN scheduled /\ scheduled'[i] = scheduled[i]
              \/ i = Len(scheduled) + 1 /\ scheduled'[i] = g
         /\ LoopOK /\ (\A i \in DOMAIN scheduled : scheduled[i].req # g.req) =>
              \A i, j \in DOMAIN scheduled' : scheduled'[i].req = scheduled'[j].req => i = j
<1> DEFINE L == Len(scheduled)
<1>1. L \in Nat /\ DOMAIN scheduled = 1 .. L
  OBVIOUS
<1>2. /\ scheduled' \in Seq(Grant) /\ Len(scheduled') = L + 1
      /\ \A i \in 1 .. L : scheduled'[i] = scheduled[i]
      /\ scheduled'[L + 1] = g
  BY AppendProperties
<1>3. DOMAIN scheduled' = 1 .. L + 1
  BY <1>2
<1> HIDE DEF L
<1>4. \A i \in DOMAIN scheduled' : \/ i \in DOMAIN scheduled /\ scheduled'[i] = scheduled[i]
                                   \/ i = L + 1 /\ scheduled'[i] = g
  BY <1>1, <1>2, <1>3
<1>5. ASSUME LoopOK, \A i \in DOMAIN scheduled : scheduled[i].req # g.req,
             NEW i \in DOMAIN scheduled', NEW j \in DOMAIN scheduled',
             scheduled'[i].req = scheduled'[j].req
      PROVE  i = j
  BY <1>4, <1>5 DEF LoopOK
<1>6. \A i \in DOMAIN scheduled : i \in DOMAIN scheduled' /\ scheduled'[i] = scheduled[i]
  BY <1>1, <1>2, <1>3
<1> QED
  BY <1>2, <1>4, <1>5, <1>6 DEF L

\* allocate_slots succeeds for the running request.
LEMMA ScheduleRunningQueues ==
  ASSUME QInv, ScheduleRunning
  PROVE  QInv'
<1> DEFINE r == trying[1].req
           n == trying[1].n
           g == trying[1]
<1>1. /\ pc = "allocate" /\ pc' = "running"
      /\ Allocate(r, <<>>, computed[r], n)
      /\ scheduled' = Append(scheduled, g)
      /\ budget' = budget - n /\ idx' = idx + 1 /\ trying' = <<>>
      /\ UNCHANGED <<status, computed, out, placeholders, waiting, running, batches>>
  BY DEF ScheduleRunning, reqVars, queueVars
<1>2. g \in Grant /\ r \in Request /\ n \in Int /\ r \in Elements(running) /\ status[r] = "RUNNING"
  BY <1>1, TryingFacts
<1>3. Visited(running, r, idx + 1) /\ \A i \in DOMAIN scheduled : scheduled[i].req # g.req
  BY <1>1 DEF QInv, LoopOK
<1>4. /\ scheduled \in Seq(Grant) /\ idx \in Int /\ budget \in Int /\ LoopOK
      /\ reqBlocks = [s \in Request |-> reqBlocks[s]] /\ running \in Seq(Request)
  BY DEF QInv, Shape
<1>5. /\ reqBlocks' = [s \in Request |-> reqBlocks'[s]]
      /\ \A s \in Request : s # r => reqBlocks'[s] = reqBlocks[s]
  BY <1>1, <1>2, <1>4, AllocateTables
<1> HIDE DEF g
<1>6. /\ scheduled' \in Seq(Grant)
      /\ \A i \in DOMAIN scheduled' : \/ i \in DOMAIN scheduled /\ scheduled'[i] = scheduled[i]
                                      \/ scheduled'[i] = g
      /\ \A i, j \in DOMAIN scheduled' : scheduled'[i].req = scheduled'[j].req => i = j
  BY <1>1, <1>2, <1>3, <1>4, GrantFacts
<1>7. g.req = r
  BY DEF g
<1> HIDE DEF r, n
<1>8. Shape'
  <2>1. trying' \in Seq(Grant)
    BY <1>1
  <2> QED
    BY <1>1, <1>2, <1>4, <1>5, <1>6, <2>1 DEF QInv, Shape
<1>9. ControlOK'
  BY <1>1, <1>2, <1>6, <1>7 DEF QInv, ControlOK, Scheduling
<1>10. LoopOK'
  <2>1. \A i \in DOMAIN scheduled : Visited(running, scheduled[i].req, idx)
    BY <1>1 DEF QInv, LoopOK
  <2>2. \A i \in DOMAIN scheduled : Visited(running, scheduled[i].req, idx + 1)
    BY <1>4, <2>1 DEF Visited
  <2>3. \A i \in DOMAIN scheduled' : Visited(running, scheduled'[i].req, idx + 1)
    BY <1>3, <1>6, <1>7, <2>2
  <2>4. (\A i \in DOMAIN scheduled : Visited(running, scheduled[i].req, idx))'
    BY <1>1, <2>3 DEF Visited
  <2>5. idx' >= 1
    BY <1>1, <1>4 DEF LoopOK
  <2> QED
    BY <1>1, <1>6, <2>4, <2>5 DEF LoopOK, Scheduling
<1>11. QueuesMatchStatus'
  BY <1>1, <1>2, <1>5 DEF QInv, QueuesMatchStatus
<1> QED
  BY <1>8, <1>9, <1>10, <1>11 DEF QInv

\* Taking a request out of a list moves the others forward, past its place.
LEMMA VisitedWithout ==
  ASSUME NEW q \in Seq(Request), NEW v, NEW s, s # v, NEW m \in Int, Visited(q, s, m)
  PROVE  /\ Visited(RemoveRequests(q, {v}), s, m)
         /\ Visited(q, v, m) => Visited(RemoveRequests(q, {v}), s, m - 1)
<1> DEFINE w == RemoveRequests(q, {v})
<1>1. w \in Seq(Request)
  BY WithoutElements DEF RemoveRequests
<1>2. (\A k \in DOMAIN q : k \in Int) /\ \A l \in DOMAIN w : l \in Int
  BY <1>1
<1> HIDE DEF w
<1>3. ASSUME NEW k \in DOMAIN q, q[k] = s
      PROVE  \E l \in DOMAIN w :
               /\ l <= k /\ w[l] = s
               /\ (\E p \in DOMAIN q : p < k /\ q[p] = v) => l < k
  <2>1. q[k] \notin {v}
    BY <1>3
  <2>2. PICK l \in DOMAIN w :
           /\ l <= k /\ w[l] = q[k]
           /\ (\E p \in DOMAIN q : p < k /\ q[p] \in {v}) => l < k
    BY <2>1, WithoutPlace DEF RemoveRequests, w
  <2>3. l <= k /\ w[l] = s
    BY <1>3, <2>2
  <2>4. (\E p \in DOMAIN q : p < k /\ q[p] = v) => l < k
    BY <2>2
  <2> QED
    BY <2>3, <2>4
<1>4. PICK k \in Int : k \in DOMAIN q /\ k < m /\ q[k] = s
  BY <1>2, Zenon DEF Visited
<1>5. PICK l \in Int :
        /\ l \in DOMAIN w /\ l <= k /\ w[l] = s
        /\ \A p \in Int : p \in DOMAIN q /\ p < k /\ q[p] = v => l < k
  BY <1>2, <1>3, <1>4, Zenon
<1>6. l < m
  BY <1>4, <1>5
<1>7. Visited(w, s, m)
  BY <1>5, <1>6, Zenon DEF Visited
<1>8. ASSUME Visited(q, v, m) PROVE Visited(w, s, m - 1)
  <2>1. PICK p \in Int : p \in DOMAIN q /\ p < m /\ q[p] = v
    BY <1>2, <1>8, Zenon DEF Visited
  <2>2. p # k
    BY <1>4, <2>1
  <2>3. p < k => l < k
    BY <1>5, <2>1
  <2>4. l < m - 1
    BY <1>4, <1>5, <2>1, <2>2, <2>3
  <2> QED
    BY <1>5, <2>4, Zenon DEF Visited
<1> QED
  BY <1>7, <1>8 DEF w

\* A victim is preempted for the request blocks are asked for.
LEMMA PreemptVictimQueues ==
  ASSUME QInv, PreemptVictim
  PROVE  /\ QInv'
         /\ Victim \in Request /\ Victim \in Elements(running)
         /\ \A s \in Request : s # Victim => status'[s] = status[s]
         /\ \A i \in DOMAIN scheduled' : /\ scheduled'[i].req # Victim
                                         /\ \E k \in DOMAIN scheduled : scheduled[k] = scheduled'[i]
<1> DEFINE v == Victim
           r == trying[1].req
           undone == {i \in DOMAIN scheduled : scheduled[i].req = v}
           given == {scheduled[i] : i \in undone}
<1>1. /\ pc = "allocate" /\ Preempt(v)
      /\ running' = RemoveRequests(running, {v})
      /\ scheduled' = RemoveRequests(scheduled, given)
      /\ budget' = IF undone = {} THEN budget
                   ELSE budget + scheduled[CHOOSE i \in undone : TRUE].n
      /\ idx' = IF undone = {} THEN idx ELSE idx - 1
      /\ IF v = r THEN pc' = "finish" /\ trying' = <<>> ELSE UNCHANGED <<pc, trying>>
      /\ UNCHANGED <<out, placeholders, batches>>
  BY DEF PreemptVictim
<1>2. /\ r \in Request /\ r \in Elements(running) /\ status[r] = "RUNNING"
      /\ Len(trying) = 1 /\ trying \in Seq(Grant)
  BY <1>1, TryingFacts DEF QInv, Shape
<1>3. /\ running \in Seq(Request) /\ Distinct(running) /\ scheduled \in Seq(Grant)
      /\ idx \in Int /\ budget \in Int /\ idx >= 1
      /\ \A i \in DOMAIN scheduled : Visited(running, scheduled[i].req, idx)
      /\ Visited(running, r, idx + 1) /\ \A i \in DOMAIN scheduled : scheduled[i].req # r
      /\ \A i, j \in DOMAIN scheduled : scheduled[i].req = scheduled[j].req => i = j
      /\ \A i \in DOMAIN scheduled : status[scheduled[i].req] = "RUNNING"
  BY <1>1 DEF QInv, Shape, LoopOK, ControlOK, QueuesMatchStatus
<1>4. running # <<>>
  BY <1>2 DEF Elements
<1>5. v \in Request /\ v \in Elements(running)
  BY <1>3, <1>4, VictimRuns
<1> HIDE DEF v, r
<1>6. /\ running' \in Seq(Request) /\ Distinct(running')
      /\ Elements(running') = Elements(running) \ {v}
  BY <1>1, <1>3, RemoveElements
<1>7. /\ waiting' \in Seq(Request)
      /\ status' \in [Request -> Statuses] /\ computed' \in [Request -> Int]
      /\ reqBlocks' = [s \in Request |-> reqBlocks'[s]]
      /\ status'[v] = "PREEMPTED" /\ \A s \in Request : s # v => status'[s] = status[s]
      /\ QueuesMatchStatus'
  BY <1>1, <1>5, <1>6, PreemptQueues
<1>8. scheduled' \in Seq(Grant) /\ Elements(scheduled') = Elements(scheduled) \ given
  BY <1>1, <1>3, WithoutElements DEF RemoveRequests
<1>9. Distinct(scheduled')
  <2>1. Distinct(scheduled)
    BY <1>3 DEF Distinct
  <2> QED
    BY <1>1, <1>3, <2>1, WithoutElements DEF RemoveRequests
<1>10. ASSUME NEW i \in DOMAIN scheduled'
       PROVE  scheduled'[i].req # v /\ \E k \in DOMAIN scheduled : scheduled[k] = scheduled'[i]
  <2>1. scheduled'[i] \in Elements(scheduled) \ given
    BY <1>8, Zenon DEF Elements
  <2>2. PICK k \in DOMAIN scheduled : scheduled[k] = scheduled'[i]
    BY <2>1, Zenon DEF Elements
  <2>3. k \notin undone
    BY <2>1, <2>2
  <2> QED
    BY <2>2, <2>3
<1>11. \A i, j \in DOMAIN scheduled' : scheduled'[i].req = scheduled'[j].req => i = j
  <2> SUFFICES ASSUME NEW i \in DOMAIN scheduled', NEW j \in DOMAIN scheduled',
                      scheduled'[i].req = scheduled'[j].req
               PROVE  i = j
    OBVIOUS
  <2>1. PICK k \in DOMAIN scheduled : scheduled[k] = scheduled'[i]
    BY <1>10
  <2>2. PICK l \in DOMAIN scheduled : scheduled[l] = scheduled'[j]
    BY <1>10
  <2>3. k = l
    BY <1>3, <2>1, <2>2
  <2>4. scheduled'[i] = scheduled'[j]
    BY <2>1, <2>2, <2>3
  <2> QED
    BY <1>9, <2>4 DEF Distinct
<1>12. undone # {} => Visited(running, v, idx)
  BY <1>3
<1>13. budget' \in Int
  <2>1. CASE undone = {}
    BY <1>1, <1>3, <2>1
  <2>2. CASE undone # {}
    <3> DEFINE i0 == CHOOSE i \in undone : TRUE
    <3>1. i0 \in undone
      BY <2>2
    <3> HIDE DEF i0
    <3>2. scheduled[i0] \in Grant
      BY <1>3, <3>1
    <3>3. scheduled[i0].n \in Int
      BY <3>2 DEF Grant
    <3>4. budget' = budget + scheduled[i0].n
      BY <1>1, <2>2 DEF i0
    <3> QED
      BY <1>3, <3>3, <3>4
  <2> QED
    BY <2>1, <2>2
<1> HIDE DEF undone, given
<1> DEFINE d == IF undone = {} THEN 0 ELSE 1
<1>14. /\ idx' \in Int /\ idx' >= 1
       /\ idx - d = idx' /\ (idx + 1) - d = idx' + 1
  <2>1. ASSUME Visited(running, v, idx) PROVE idx >= 2
    BY <1>3, <2>1 DEF Visited
  <2>2. idx' \in Int /\ idx' >= 1 /\ idx \in Int /\ idx' = idx - d
    BY <1>1, <1>3, <1>12, <2>1
  <2> QED
    BY <2>2
<1> HIDE DEF d
<1>15. ASSUME NEW s, s # v, NEW m \in {idx, idx + 1}, Visited(running, s, m)
       PROVE  Visited(running', s, m - d)
  <2>1. m \in Int
    BY <1>3
  <2>2. CASE undone = {}
    <3>1. m - d = m
      BY <2>1, <2>2 DEF d
    <3> QED
      BY <1>1, <1>3, <1>15, <2>1, <3>1, VisitedWithout
  <2>3. CASE undone # {}
    <3>1. m - d = m - 1
      BY <2>3 DEF d
    <3>2. Visited(running, v, m)
      BY <1>3, <1>12, <1>15, <2>3 DEF Visited
    <3> QED
      BY <1>1, <1>3, <1>15, <2>1, <3>1, <3>2, VisitedWithout
  <2> QED
    BY <2>2, <2>3
<1>16. \A i \in DOMAIN scheduled' : Visited(running', scheduled'[i].req, idx')
  <2> SUFFICES ASSUME NEW i \in DOMAIN scheduled'
               PROVE  Visited(running', scheduled'[i].req, idx')
    OBVIOUS
  <2>1. scheduled'[i].req # v /\ Visited(running, scheduled'[i].req, idx)
    BY <1>3, <1>10
  <2>2. Visited(running', scheduled'[i].req, idx - d)
    BY <1>15, <2>1
  <2> QED
    BY <1>14, <2>2
<1>17. Shape'
  <2>1. trying' \in Seq(Grant) /\ pc' \in {"allocate", "finish"}
    <3>1. CASE v = r
      BY <1>1, <3>1
    <3>2. CASE v # r
      <4>1. pc' = pc /\ trying' = trying /\ pc = "allocate"
        BY <1>1, <3>2
      <4> QED
        BY <1>2, <4>1
    <3> QED
      BY <3>1, <3>2
  <2> QED
    BY <1>1, <1>6, <1>7, <1>8, <1>13, <1>14, <2>1 DEF QInv, Shape
<1>18. \A i \in DOMAIN scheduled' : status'[scheduled'[i].req] = "RUNNING"
  <2> SUFFICES ASSUME NEW i \in DOMAIN scheduled'
               PROVE  status'[scheduled'[i].req] = "RUNNING"
    OBVIOUS
  <2>1. scheduled'[i] \in Grant
    BY <1>8
  <2>2. scheduled'[i].req \in Request
    BY <2>1 DEF Grant
  <2>3. status[scheduled'[i].req] = "RUNNING" /\ scheduled'[i].req # v
    <3>1. PICK k \in DOMAIN scheduled : scheduled[k] = scheduled'[i]
      BY <1>10
    <3>2. status[scheduled[k].req] = "RUNNING"
      BY <1>3
    <3> QED
      BY <1>10, <3>1, <3>2
  <2> QED
    BY <1>7, <2>2, <2>3
<1>19. \A i \in DOMAIN batches : \A j \in DOMAIN batches[i] : status'[batches[i][j].req] # "NEW"
  <2> SUFFICES ASSUME NEW i \in DOMAIN batches, NEW j \in DOMAIN batches[i]
               PROVE  status'[batches[i][j].req] # "NEW"
    OBVIOUS
  <2>1. batches[i][j] \in Output
    BY DEF QInv, Shape
  <2>2. batches[i][j].req \in Request
    BY <2>1 DEF Output
  <2>3. status[batches[i][j].req] # "NEW"
    BY DEF QInv, ControlOK
  <2> QED
    BY <1>7, <2>2, <2>3
<1>20. ControlOK' /\ LoopOK'
  <2>1. CASE v = r
    <3>1. pc' = "finish" /\ batches' = batches
      BY <1>1, <2>1
    <3> QED
      BY <3>1, <1>11, <1>18, <1>19 DEF ControlOK, LoopOK, Scheduling
  <2>2. CASE v # r
    <3>1. pc' = "allocate" /\ trying' = trying /\ batches' = batches
      BY <1>1, <2>2
    <3>2. trying[1].req = r
      BY DEF r
    <3>3. Visited(running', r, idx' + 1)
      <4>1. Visited(running, r, idx + 1) /\ r # v /\ idx + 1 \in {idx, idx + 1}
        BY <1>3, <2>2
      <4> DEFINE m == idx + 1
      <4>2. m \in {idx, idx + 1} /\ Visited(running, r, m)
        BY <4>1, Zenon
      <4>3. m - d = idx' + 1
        BY <1>14
      <4> HIDE DEF m
      <4>4. Visited(running', r, m - d)
        BY <1>15, <4>1, <4>2
      <4> QED
        BY <4>3, <4>4
    <3>4. \A i \in DOMAIN scheduled' : scheduled'[i].req # r
      BY <1>3, <1>10
    <3>5. r \in Elements(running')
      BY <1>2, <1>6, <2>2
    <3>6. ControlOK'
      BY <1>2, <1>18, <1>19, <3>1, <3>2, <3>5 DEF ControlOK, Scheduling
    <3>7. LoopOK'
      BY <1>11, <1>14, <1>16, <3>1, <3>2, <3>3, <3>4 DEF LoopOK, Scheduling
    <3> QED
      BY <3>6, <3>7
  <2> QED
    BY <2>1, <2>2
<1> QED
  BY <1>5, <1>7, <1>10, <1>17, <1>20 DEF QInv, v

\* A waiting request is admitted.
LEMMA ScheduleWaitingQueues ==
  ASSUME QInv, NEW r \in Request, ScheduleWaiting(r)
  PROVE  QInv'
<1> DEFINE n == Min2(NumPrefill(r), budget)
           g == [req |-> r, n |-> n]
<1>1. /\ pc = "waiting" /\ pc' = "waiting"
      /\ waiting # <<>> /\ r = waiting[1]
      /\ Allocate(r, Hits(r), NumHitTokens(r), n)
      /\ waiting' = Tail(waiting) /\ running' = Append(running, r)
      /\ status' = [status EXCEPT ![r] = "RUNNING"]
      /\ computed' = [computed EXCEPT ![r] = NumHitTokens(r)]
      /\ scheduled' = Append(scheduled, g) /\ budget' = budget - n
      /\ UNCHANGED <<out, placeholders, batches, idx, trying>>
  BY DEF ScheduleWaiting, Admissible
<1>2. /\ status \in [Request -> Statuses] /\ computed \in [Request -> Int]
      /\ running \in Seq(Request) /\ Distinct(running) /\ waiting \in Seq(Request)
      /\ Distinct(waiting) /\ scheduled \in Seq(Grant) /\ budget \in Int
      /\ reqBlocks = [s \in Request |-> reqBlocks[s]] /\ LoopOK
      /\ \A i \in DOMAIN scheduled : status[scheduled[i].req] = "RUNNING"
  BY DEF QInv, Shape, QueuesMatchStatus, ControlOK
<1>3. NumHitTokens(r) \in Int /\ n \in Int
  <2>1. NumHitTokens(r) \in Int /\ NumPrefill(r) \in Int
    BY PrefillFacts DEF QInv, Shape
  <2> QED
    BY <1>2, <2>1, MinFacts
<1>4. g \in Grant
  BY <1>3 DEF Grant
<1> HIDE DEF n
<1>5. /\ waiting' \in Seq(Request) /\ Distinct(waiting') /\ r \in Elements(waiting)
      /\ Elements(waiting') = Elements(waiting) \ {r}
  BY <1>1, <1>2, TailElements
<1>6. status[r] \in {"WAITING", "PREEMPTED"} /\ r \notin Elements(running)
  BY <1>5 DEF QInv, QueuesMatchStatus
<1>7. /\ running' \in Seq(Request) /\ Distinct(running')
      /\ Elements(running') = Elements(running) \cup {r}
  BY <1>1, <1>2, <1>6, AppendElements
<1>8. \A i \in DOMAIN scheduled : scheduled[i].req # r
  BY <1>2, <1>6
<1>9. g.req = r
  OBVIOUS
<1> HIDE DEF g
<1>10. /\ scheduled' \in Seq(Grant)
       /\ \A i \in DOMAIN scheduled' : \/ i \in DOMAIN scheduled /\ scheduled'[i] = scheduled[i]
                                       \/ scheduled'[i] = g
       /\ \A i, j \in DOMAIN scheduled' : scheduled'[i].req = scheduled'[j].req => i = j
  BY <1>1, <1>2, <1>4, <1>8, <1>9, GrantFacts, SMTT(30)
<1>11. /\ reqBlocks' = [s \in Request |-> reqBlocks'[s]]
       /\ \A s \in Request : s # r => reqBlocks'[s] = reqBlocks[s]
  BY <1>1, <1>2, AllocateTables
<1>12. /\ status' \in [Request -> Statuses] /\ status'[r] = "RUNNING"
       /\ \A s \in Request : s # r => status'[s] = status[s]
  BY <1>1, <1>2 DEF Statuses
<1>13. computed' \in [Request -> Int]
  BY <1>1, <1>2, <1>3
<1>14. Shape'
  <2>1. budget' \in Int
    BY <1>1, <1>2, <1>3
  <2> QED
    BY <1>1, <2>1, <1>5, <1>7, <1>10, <1>11, <1>12, <1>13 DEF QInv, Shape
<1>15. \A i \in DOMAIN scheduled' : status'[scheduled'[i].req] = "RUNNING"
  <2> SUFFICES ASSUME NEW i \in DOMAIN scheduled'
               PROVE  status'[scheduled'[i].req] = "RUNNING"
    OBVIOUS
  <2>1. scheduled'[i] \in Grant
    BY <1>10
  <2>2. scheduled'[i].req \in Request
    BY <2>1 DEF Grant
  <2> QED
    BY <1>2, <1>9, <1>10, <1>12, <2>2
<1>16. \A i \in DOMAIN batches : \A j \in DOMAIN batches[i] : status'[batches[i][j].req] # "NEW"
  <2> SUFFICES ASSUME NEW i \in DOMAIN batches, NEW j \in DOMAIN batches[i]
               PROVE  status'[batches[i][j].req] # "NEW"
    OBVIOUS
  <2>1. batches[i][j] \in Output
    BY SMTT(30) DEF QInv, Shape
  <2>2. batches[i][j].req \in Request
    BY <2>1 DEF Output
  <2>3. status[batches[i][j].req] # "NEW"
    BY DEF QInv, ControlOK
  <2> QED
    BY <1>12, <2>2, <2>3
<1>17. ControlOK' /\ LoopOK'
  BY <1>1, <1>10, <1>15, <1>16 DEF ControlOK, LoopOK, Scheduling
<1>18. QueuesMatchStatus'
  BY <1>5, <1>6, <1>7, <1>11, <1>12 DEF QInv, QueuesMatchStatus
<1> QED
  BY <1>14, <1>17, <1>18 DEF QInv

\* The batch is dispatched.
LEMMA FinishScheduleQueues ==
  ASSUME QInv, FinishSchedule
  PROVE  /\ QInv'
         /\ Len(batches') = Len(batches) + 1 /\ DOMAIN batches = 1 .. Len(batches)
         /\ \A i \in DOMAIN batches : batches'[i] = batches[i]
         /\ batches'[Len(batches) + 1] = [i \in DOMAIN scheduled |->
              [req |-> scheduled[i].req, pos |-> SampledPosition(scheduled[i].req)]]
         /\ \A r \in Request : NumScheduled(r) \in Int
<1> DEFINE b == [i \in DOMAIN scheduled |->
                  [req |-> scheduled[i].req, pos |-> SampledPosition(scheduled[i].req)]]
           L == Len(batches)
<1>1. /\ pc = "finish" /\ pc' \in {"collect", "idle"}
      /\ computed' = [r \in Request |-> computed[r] + NumScheduled(r)]
      /\ placeholders' = [r \in Request |-> PlaceholdersAfter(r)]
      /\ batches' = Append(batches, b)
      /\ idx' = 1 /\ budget' = 0 /\ scheduled' = <<>>
      /\ UNCHANGED <<reqBlocks, status, out, waiting, running, trying>>
  BY DEF FinishSchedule, kvVars
<1>2. /\ computed \in [Request -> Int] /\ placeholders \in [Request -> Int]
      /\ out \in [Request -> Seq(Int)] /\ scheduled \in Seq(Grant)
      /\ batches \in Seq(Seq(Output))
      /\ \A i \in DOMAIN scheduled : status[scheduled[i].req] = "RUNNING"
      /\ \A i \in DOMAIN batches : \A j \in DOMAIN batches[i] : status[batches[i][j].req] # "NEW"
  BY DEF QInv, Shape, ControlOK
<1>3. ASSUME NEW r \in Request PROVE NumScheduled(r) \in Int
  <2>1. NumScheduled(r) = 0 \/ NumScheduled(r) \in Int
    BY <1>2, ScheduledFacts
  <2> QED
    BY <2>1
<1>4. ASSUME NEW r \in Request
      PROVE  /\ computed[r] + NumScheduled(r) \in Int /\ PlaceholdersAfter(r) \in Int
             /\ SampledPosition(r) \in Int
  <2>1. NumScheduled(r) \in Int /\ computed[r] \in Int /\ placeholders[r] \in Int
    BY <1>2, <1>3
  <2> QED
    BY <2>1 DEF PlaceholdersAfter, SampledPosition
<1>5. b \in Seq(Output) /\ \A i \in DOMAIN b : status[b[i].req] = "RUNNING"
  <2>1. DOMAIN scheduled = 1 .. Len(scheduled) /\ Len(scheduled) \in Nat
    BY <1>2
  <2>2. ASSUME NEW i \in DOMAIN scheduled
        PROVE  b[i] \in Output /\ b[i].req = scheduled[i].req
    <3>1. scheduled[i] \in Grant
      BY <1>2
    <3>2. scheduled[i].req \in Request
      BY <3>1 DEF Grant
    <3>3. SampledPosition(scheduled[i].req) \in Int
      BY <1>4, <3>2
    <3> QED
      BY <3>2, <3>3 DEF Output
  <2>3. DOMAIN b = 1 .. Len(scheduled)
    BY <2>1
  <2>4. b = [i \in 1 .. Len(scheduled) |-> b[i]]
    BY <2>1
  <2> HIDE DEF b
  <2>5. b \in Seq(Output)
    BY <2>1, <2>2, <2>3, <2>4
  <2> QED
    BY <1>2, <2>1, <2>2, <2>3, <2>5
<1> HIDE DEF b
<1>6. /\ batches' \in Seq(Seq(Output)) /\ Len(batches') = L + 1
      /\ DOMAIN batches = 1 .. L /\ L \in Nat
      /\ \A i \in 1 .. L : batches'[i] = batches[i]
      /\ batches'[L + 1] = b
  <2> DEFINE S == Seq(Output)
  <2>1. batches \in Seq(S) /\ b \in S
    BY <1>2, <1>5
  <2> HIDE DEF S
  <2>2. /\ batches' \in Seq(S) /\ Len(batches') = L + 1
        /\ DOMAIN batches = 1 .. L /\ L \in Nat
        /\ \A i \in 1 .. L : batches'[i] = batches[i]
        /\ batches'[L + 1] = b
    BY <1>1, <2>1, AppendProperties
  <2> QED
    BY <2>2 DEF S
<1>7. DOMAIN batches' = 1 .. L + 1
  BY <1>6
<1> HIDE DEF L
<1>8. \A i \in DOMAIN batches' : \A j \in DOMAIN batches'[i] : status[batches'[i][j].req] # "NEW"
  <2> SUFFICES ASSUME NEW i \in 1 .. L + 1, NEW j \in DOMAIN batches'[i]
               PROVE  status[batches'[i][j].req] # "NEW"
    BY <1>7
  <2>1. CASE i \in 1 .. L
    <3>1. batches'[i] = batches[i]
      BY <1>6, <2>1
    <3>2. i \in DOMAIN batches
      BY <1>6, <2>1
    <3>3. j \in DOMAIN batches[i]
      BY <3>1
    <3>. QED
      BY <1>2, <3>1, <3>2, <3>3
  <2>2. CASE i = L + 1
    BY <1>5, <1>6, <2>2
  <2> QED
    BY <1>6, <2>1, <2>2
<1>9. Shape'
  BY <1>1, <1>4, <1>6 DEF QInv, Shape
<1>10. ControlOK' /\ LoopOK'
  BY <1>1, <1>8 DEF ControlOK, LoopOK, Scheduling
<1>11. QueuesMatchStatus'
  BY <1>1 DEF QInv, QueuesMatchStatus
<1> QED
  BY <1>3, <1>6, <1>9, <1>10, <1>11 DEF QInv, L, b

\* The output update_from_output is at.
LEMMA EntryFacts ==
  ASSUME QInv, HasEntry \/ pc = "free"
  PROVE  /\ batches \in Seq(Seq(Output)) /\ batches # <<>> /\ batches[1] # <<>>
         /\ 1 \in DOMAIN batches /\ 1 \in DOMAIN batches[1]
         /\ Entry \in Output /\ Entry.req \in Request /\ Entry.pos \in Int
         /\ status[Entry.req] \in Statuses \ {"NEW"}
         /\ pc \notin Scheduling /\ scheduled = <<>> /\ idx = 1
<1>1. batches \in Seq(Seq(Output)) /\ batches # <<>> /\ batches[1] # <<>>
  BY DEF QInv, Shape, ControlOK, HasEntry
<1>2. 1 \in DOMAIN batches /\ batches[1] \in Seq(Output)
  BY <1>1
<1>3. 1 \in DOMAIN batches[1] /\ Entry \in Output
  BY <1>1, <1>2 DEF Entry
<1>4. Entry.req \in Request /\ Entry.pos \in Int
  BY <1>3 DEF Output
<1>5. status[Entry.req] # "NEW"
  BY <1>2, <1>3 DEF QInv, ControlOK, Entry
<1>6. status[Entry.req] \in Statuses
  BY <1>4 DEF QInv, Shape
<1>7. pc \notin Scheduling
  BY DEF HasEntry, Scheduling
<1>8. scheduled = <<>> /\ idx = 1
  BY <1>7 DEF QInv, ControlOK, LoopOK
<1> QED
  BY <1>1, <1>2, <1>3, <1>4, <1>5, <1>6, <1>7, <1>8

\* An output is used up and its request stays where it is.
LEMMA OutputQueues ==
  ASSUME QInv, HasEntry, DropEntry,
         UNCHANGED <<reqBlocks, status, computed, waiting, running, pc, idx, budget,
                     trying, scheduled>>,
         out' \in [Request -> Seq(Int)], placeholders' \in [Request -> Int]
  PROVE  QInv'
<1>1. batches \in Seq(Seq(Output)) /\ batches # <<>> /\ batches[1] # <<>>
      /\ pc = "update" /\ scheduled = <<>> /\ idx = 1
  BY EntryFacts DEF HasEntry
<1>2. /\ batches' \in Seq(Seq(Output)) /\ batches' # <<>> /\ Len(batches') = Len(batches)
      /\ \A i \in DOMAIN batches' : \A j \in DOMAIN batches'[i] :
           \E k \in DOMAIN batches[i] : batches'[i][j] = batches[i][k]
  BY <1>1, DropEntryFacts
<1>3. DOMAIN batches' = DOMAIN batches
  BY <1>1, <1>2
<1>4. \A i \in DOMAIN batches' : \A j \in DOMAIN batches'[i] : status[batches'[i][j].req] # "NEW"
  BY <1>2, <1>3 DEF QInv, ControlOK
<1>5. Shape'
  BY <1>2 DEF QInv, Shape
<1>6. ControlOK' /\ LoopOK'
  BY <1>1, <1>2, <1>4 DEF ControlOK, LoopOK, Scheduling
<1>7. QueuesMatchStatus'
  BY DEF QInv, QueuesMatchStatus
<1> QED
  BY <1>5, <1>6, <1>7 DEF QInv

\* _update_request_with_output.
LEMMA TakeOutputQueues ==
  ASSUME QInv, NEW eos \in BOOLEAN, TakeOutput(eos)
  PROVE  QInv'
<1> DEFINE r == Entry.req
<1>1. /\ HasEntry /\ ~IsMoot /\ pc = "update"
      /\ out' = [out EXCEPT ![r] = Append(@, Entry.pos)]
      /\ placeholders' = [placeholders EXCEPT ![r] = IF AsyncScheduling THEN @ - 1 ELSE @]
      /\ IF CheckStop(r, eos) THEN pc' = "free" /\ UNCHANGED batches
                              ELSE DropEntry /\ UNCHANGED pc
      /\ UNCHANGED <<status, computed, waiting, running, idx, budget, trying, scheduled>>
  BY DEF TakeOutput, HasEntry, queueVars, scheduleVars
<1>2. reqBlocks' = reqBlocks
  BY DEF TakeOutput, CacheComputed, kvVars
<1>3. /\ r \in Request /\ Entry.pos \in Int /\ status[r] \in Unfinished
      /\ batches # <<>> /\ batches[1] # <<>> /\ scheduled = <<>> /\ idx = 1
  BY <1>1, EntryFacts DEF IsMoot, Unfinished, Statuses
<1>4. Entry = batches[1][1] /\ r = batches[1][1].req
  BY DEF Entry
<1> HIDE DEF r
<1>5. out' \in [Request -> Seq(Int)]
  BY <1>1, <1>3 DEF QInv, Shape
<1>6. placeholders' \in [Request -> Int]
  BY <1>1, <1>3 DEF QInv, Shape
<1>7. CASE CheckStop(r, eos)
  <2>1. pc' = "free" /\ batches' = batches
    BY <1>1, <1>7
  <2>2. Shape'
    BY <1>1, <1>2, <1>5, <1>6, <2>1 DEF QInv, Shape
  <2>3. Entry' = Entry
    BY <2>1 DEF Entry
  <2>4. ControlOK'
    BY <1>1, <1>3, <1>4, <2>1, <2>3 DEF QInv, ControlOK, Scheduling
  <2>5. LoopOK'
    BY <1>1, <1>3, <2>1 DEF LoopOK, Scheduling
  <2>6. QueuesMatchStatus'
    BY <1>1, <1>2 DEF QInv, QueuesMatchStatus
  <2> QED
    BY <2>2, <2>4, <2>5, <2>6 DEF QInv
<1>8. CASE ~CheckStop(r, eos)
  BY <1>1, <1>2, <1>5, <1>6, <1>8, OutputQueues
<1> QED
  BY <1>7, <1>8

\* A request that stopped is freed.
LEMMA FreeStoppedQueues ==
  ASSUME QInv, FreeStopped
  PROVE  QInv'
<1> DEFINE r == Entry.req
<1>1. /\ pc = "free" /\ pc' = "update" /\ DropEntry
      /\ status' = [status EXCEPT ![r] = "FINISHED"] /\ Free(r)
      /\ IF status[r] = "RUNNING"
         THEN running' = RemoveRequests(running, {r}) /\ UNCHANGED waiting
         ELSE waiting' = RemoveRequests(waiting, {r}) /\ UNCHANGED running
      /\ UNCHANGED <<computed, out, placeholders, idx, budget, trying, scheduled>>
  BY DEF FreeStopped, scheduleVars
<1>2. /\ batches \in Seq(Seq(Output)) /\ batches # <<>> /\ batches[1] # <<>> /\ r \in Request
      /\ scheduled = <<>> /\ idx = 1
  BY <1>1, EntryFacts
<1>3. status[r] \in Unfinished
  BY <1>1 DEF QInv, ControlOK
<1> HIDE DEF r
<1>4. /\ running' \in Seq(Request) /\ waiting' \in Seq(Request)
      /\ status' \in [Request -> Statuses]
      /\ reqBlocks' = [s \in Request |-> reqBlocks'[s]]
      /\ QueuesMatchStatus'
  BY <1>1, <1>2, <1>3, LeaveQueue
<1>5. /\ batches' \in Seq(Seq(Output)) /\ batches' # <<>> /\ Len(batches') = Len(batches)
      /\ \A i \in DOMAIN batches' : \A j \in DOMAIN batches'[i] :
           \E k \in DOMAIN batches[i] : batches'[i][j] = batches[i][k]
  BY <1>1, <1>2, DropEntryFacts
<1>6. \A i \in DOMAIN batches' : \A j \in DOMAIN batches'[i] : status'[batches'[i][j].req] # "NEW"
  <2> SUFFICES ASSUME NEW i \in DOMAIN batches', NEW j \in DOMAIN batches'[i]
               PROVE  status'[batches'[i][j].req] # "NEW"
    OBVIOUS
  <2>1. i \in DOMAIN batches
    BY <1>2, <1>5
  <2>2. PICK k \in DOMAIN batches[i] : batches'[i][j] = batches[i][k]
    BY <1>5
  <2>3. batches[i][k] \in Output
    BY <1>2, <2>1
  <2>4. batches[i][k].req \in Request
    BY <2>3 DEF Output
  <2>5. status[batches[i][k].req] # "NEW"
    BY <2>1 DEF QInv, ControlOK
  <2>6. status \in [Request -> Statuses]
    BY DEF QInv, Shape
  <2> QED
    BY <1>1, <2>2, <2>4, <2>5, <2>6
<1>7. Shape'
  BY <1>1, <1>4, <1>5 DEF QInv, Shape
<1>8. ControlOK' /\ LoopOK'
  BY <1>1, <1>2, <1>5, <1>6 DEF ControlOK, LoopOK, Scheduling
<1> QED
  BY <1>4, <1>7, <1>8 DEF QInv

\* The oldest batch is done.
LEMMA EndUpdateQueues ==
  ASSUME QInv, EndUpdate
  PROVE  /\ QInv'
         /\ batches \in Seq(Seq(Output)) /\ Len(batches) \in Nat \ {0}
         /\ Len(batches') = Len(batches) - 1
         /\ \A i \in 1 .. Len(batches) - 1 : batches'[i] = batches[i + 1]
<1> DEFINE S == Seq(Output)
           L == Len(batches)
<1>1. /\ pc = "update" /\ pc' = "idle" /\ batches' = Tail(batches)
      /\ UNCHANGED <<reqBlocks, status, computed, out, placeholders, waiting, running,
                     idx, budget, trying, scheduled>>
  BY DEF EndUpdate, kvVars, reqVars, queueVars, scheduleVars
<1>2. batches \in Seq(S) /\ batches # <<>> /\ scheduled = <<>> /\ idx = 1
  BY <1>1 DEF QInv, Shape, ControlOK, LoopOK, Scheduling
<1> HIDE DEF S
<1>3. L \in Nat \ {0} /\ DOMAIN batches = 1 .. L
  BY <1>2
<1>4. /\ batches' \in Seq(S) /\ Len(batches') = L - 1
      /\ \A i \in 1 .. L - 1 : batches'[i] = batches[i + 1]
  BY <1>1, <1>2
<1> HIDE DEF L
<1>5. DOMAIN batches' = 1 .. L - 1
  BY <1>4, <1>3
<1>6. \A i \in DOMAIN batches' : \A j \in DOMAIN batches'[i] : status[batches'[i][j].req] # "NEW"
  <2> SUFFICES ASSUME NEW i \in 1 .. L - 1, NEW j \in DOMAIN batches'[i]
               PROVE  status[batches'[i][j].req] # "NEW"
    BY <1>5
  <2>1. i + 1 \in DOMAIN batches /\ batches'[i] = batches[i + 1]
    BY <1>3, <1>4
  <2> QED
    BY <2>1 DEF QInv, ControlOK
<1>7. Shape'
  BY <1>1, <1>4 DEF QInv, Shape, S
<1>8. ControlOK' /\ LoopOK'
  BY <1>1, <1>2, <1>6 DEF ControlOK, LoopOK, Scheduling
<1>9. QueuesMatchStatus'
  BY <1>1 DEF QInv, QueuesMatchStatus
<1> QED
  BY <1>2, <1>3, <1>4, <1>7, <1>8, <1>9 DEF QInv, L, S

\* Every step keeps the queues and the statuses together.
LEMMA NextQueues ==
  ASSUME QInv, [Next]_vars
  PROVE  QInv'
<1>1. ASSUME NEW r \in Request, Add(r) PROVE QInv'
  BY <1>1, AddQueues
<1>2. ASSUME NEW r \in Request, Abort(r) PROVE QInv'
  BY <1>2, AbortQueues
<1>3. ASSUME NEW resetRunning \in BOOLEAN, StartReset(resetRunning) PROVE QInv'
  <2>1. pc = "idle" /\ pc' \in {"idle", "reset"}
        /\ UNCHANGED <<reqBlocks, status, computed, out, placeholders, waiting, running,
                       batches, trying, scheduled, budget, idx>>
    BY <1>3 DEF StartReset, Reset, kvVars, reqVars, queueVars, scheduleVars
  <2>2. idx = 1 /\ budget \in Int
    BY <2>1 DEF QInv, Shape, LoopOK, Scheduling
  <2> QED
    BY <2>1, <2>2, MoveQueues DEF Scheduling
<1>4. CASE ResetPreempt
  BY <1>4, ResetPreemptQueues
<1>5. CASE ResetFinish
  <2>1. pc = "reset" /\ pc' = "idle"
        /\ UNCHANGED <<reqBlocks, status, computed, out, placeholders, waiting, running,
                       batches, trying, scheduled, budget, idx>>
    BY <1>5 DEF ResetFinish, Reset, reqVars, queueVars, scheduleVars
  <2>2. idx = 1 /\ budget \in Int
    BY <2>1 DEF QInv, Shape, LoopOK, Scheduling
  <2> QED
    BY <2>1, <2>2, MoveQueues DEF Scheduling
<1>6. CASE StepStart
  <2>1. pc = "idle" /\ pc' = "running" /\ budget' = TokenBudget
        /\ UNCHANGED <<reqBlocks, status, computed, out, placeholders, waiting, running,
                       batches, trying, scheduled, idx>>
    BY <1>6 DEF StepStart, kvVars, reqVars, queueVars
  <2>2. idx = 1 /\ TokenBudget \in Int
    BY <2>1, SchedulerAssumption DEF QInv, LoopOK, Scheduling
  <2> QED
    BY <2>1, <2>2, MoveQueues DEF Scheduling
<1>7. CASE StepDrain
  <2>1. pc = "idle" /\ pc' = "collect"
        /\ UNCHANGED <<reqBlocks, status, computed, out, placeholders, waiting, running,
                       batches, trying, scheduled, budget, idx>>
    BY <1>7 DEF StepDrain, kvVars, reqVars, queueVars, scheduleVars
  <2>2. idx = 1 /\ budget \in Int
    BY <2>1 DEF QInv, Shape, LoopOK, Scheduling
  <2> QED
    BY <2>1, <2>2, MoveQueues DEF Scheduling
<1>8. ASSUME NEW r \in Request, SkipRunning(r) PROVE QInv'
  <2>1. pc = "running" /\ pc' = "running" /\ idx' = idx + 1
        /\ UNCHANGED <<reqBlocks, status, computed, out, placeholders, waiting, running,
                       batches, trying, scheduled, budget>>
    BY <1>8 DEF SkipRunning, Visiting, kvVars, reqVars, queueVars
  <2>2. idx \in Int /\ budget \in Int
    BY DEF QInv, Shape
  <2>3. idx' \in Int /\ idx' >= idx
    BY <2>1, <2>2
  <2> QED
    BY <2>1, <2>2, <2>3, MoveQueues DEF Scheduling
<1>9. ASSUME NEW r \in Request, TryRunning(r) PROVE QInv'
  BY <1>9, TryRunningQueues
<1>10. CASE ScheduleRunning
  BY <1>10, ScheduleRunningQueues
<1>11. CASE PreemptVictim
  BY <1>11, PreemptVictimQueues
<1>12. CASE EndRunning
  <2>1. pc = "running" /\ pc' \in {"finish", "waiting"}
        /\ UNCHANGED <<reqBlocks, status, computed, out, placeholders, waiting, running,
                       batches, trying, scheduled, budget, idx>>
    BY <1>12 DEF EndRunning, kvVars, reqVars, queueVars, scheduleVars
  <2>2. idx \in Int /\ budget \in Int
    BY DEF QInv, Shape
  <2> QED
    BY <2>1, <2>2, MoveQueues DEF Scheduling
<1>13. ASSUME NEW r \in Request, ScheduleWaiting(r) PROVE QInv'
  BY <1>13, ScheduleWaitingQueues
<1>14. CASE EndWaiting
  <2>1. pc = "waiting" /\ pc' = "finish"
        /\ UNCHANGED <<reqBlocks, status, computed, out, placeholders, waiting, running,
                       batches, trying, scheduled, budget, idx>>
    BY <1>14 DEF EndWaiting, kvVars, reqVars, queueVars, scheduleVars
  <2>2. idx \in Int /\ budget \in Int
    BY DEF QInv, Shape
  <2> QED
    BY <2>1, <2>2, MoveQueues DEF Scheduling
<1>15. CASE FinishSchedule
  BY <1>15, FinishScheduleQueues
<1>16. CASE Collect
  <2>1. pc = "collect" /\ pc' = "update" /\ batches # <<>>
        /\ UNCHANGED <<reqBlocks, status, computed, out, placeholders, waiting, running,
                       batches, trying, scheduled, budget, idx>>
    BY <1>16 DEF Collect, kvVars, reqVars, queueVars, scheduleVars
  <2>2. idx = 1 /\ budget \in Int
    BY <2>1 DEF QInv, Shape, LoopOK, Scheduling
  <2> QED
    BY <2>1, <2>2, MoveQueues DEF Scheduling
<1>17. CASE SkipOutput
  <2>1. out \in [Request -> Seq(Int)] /\ placeholders \in [Request -> Int]
    BY DEF QInv, Shape
  <2> QED
    BY <1>17, <2>1, OutputQueues DEF SkipOutput, kvVars, reqVars, queueVars, scheduleVars
<1>18. CASE DiscardOutput
  <2>1. out \in [Request -> Seq(Int)] /\ placeholders \in [Request -> Int]
    BY DEF QInv, Shape
  <2> QED
    BY <1>18, <2>1, OutputQueues DEF DiscardOutput, kvVars, queueVars, scheduleVars
<1>19. ASSUME NEW eos \in BOOLEAN, TakeOutput(eos) PROVE QInv'
  BY <1>19, TakeOutputQueues
<1>20. CASE FreeStopped
  BY <1>20, FreeStoppedQueues
<1>21. CASE EndUpdate
  BY <1>21, EndUpdateQueues
<1>22. CASE UNCHANGED vars
  <2>1. /\ UNCHANGED <<reqBlocks, status, computed, out, placeholders, waiting, running,
                       batches, pc, trying, scheduled, budget, idx>>
        /\ Entry' = Entry
    BY <1>22 DEF vars, kvVars, reqVars, queueVars, stepVars, scheduleVars, Entry
  <2> QED
    BY <2>1, SMTT(30) DEF QInv, Shape, ControlOK, LoopOK, QueuesMatchStatus
<1> QED
  BY <1>1, <1>2, <1>3, <1>4, <1>5, <1>6, <1>7, <1>8, <1>9, <1>10, <1>11, <1>12, <1>13,
     <1>14, <1>15, <1>16, <1>17, <1>18, <1>19, <1>20, <1>21, <1>22, Zenon
     DEF Next, Client, Engine

\* The inductive invariant holds of every behaviour.
LEMMA QueuesInvariant == Spec => []QInv
<1>1. Init => QInv
  BY InitQueues
<1>2. QInv /\ [Next]_vars => QInv'
  BY NextQueues
<1> QED
  BY <1>1, <1>2, PTL DEF Spec

\* Every live request is in exactly one queue, once, and its status says which;
\* only running requests hold blocks.  This holds of every engine, whatever
\* aborts, stops, preemptions and resets cross each other (scheduler.py,
\* schedule, update_from_output and finish_requests).
THEOREM QueuesCorrect == Spec => []QueuesMatchStatus
<1>1. QInv => QueuesMatchStatus
  BY DEF QInv
<1> QED
  BY <1>1, QueuesInvariant, PTL

----------------------------------------------------------------------------
(* First come, first served                                                *)

\* Taking a request out keeps the order of the others.
LEMMA WithoutBefore ==
  ASSUME NEW q \in Seq(Request), NEW v, NEW a, NEW b, a # v, b # v, Before(q, a, b)
  PROVE  Before(RemoveRequests(q, {v}), a, b)
BY BeforeWithout DEF RemoveRequests

\* The order between the live requests survives the step.
Keeps(q, w) ==
  \A a, b \in Elements(q) \cap Elements(w) : Before(q, a, b) => Before(w, a, b)

\* A finished request leaves; the order of the others stays.
LEMMA LeaveOrder ==
  ASSUME QInv, NEW r \in Request, status[r] \in Unfinished,
         IF status[r] = "RUNNING"
         THEN running' = RemoveRequests(running, {r}) /\ UNCHANGED waiting
         ELSE waiting' = RemoveRequests(waiting, {r}) /\ UNCHANGED running
  PROVE  Keeps(Line, Line')
<1>1. /\ running \in Seq(Request) /\ waiting \in Seq(Request)
      /\ Distinct(running) /\ Distinct(waiting)
  BY DEF QInv, Shape, QueuesMatchStatus
<1>2. /\ running' \in Seq(Request) /\ waiting' \in Seq(Request)
      /\ Elements(running') = Elements(running) \ {r}
      /\ Elements(waiting') = Elements(waiting) \ {r}
      /\ \A a, b : a # r /\ b # r /\ Before(running, a, b) => Before(running', a, b)
      /\ \A a, b : a # r /\ b # r /\ Before(waiting, a, b) => Before(waiting', a, b)
  <2>1. CASE status[r] = "RUNNING"
    <3>1. r \notin Elements(waiting)
      BY <2>1 DEF QInv, QueuesMatchStatus
    <3>2. running' = RemoveRequests(running, {r}) /\ waiting' = waiting
      BY <2>1
    <3>3. RemoveRequests(running, {r}) \in Seq(Request)
          /\ Elements(RemoveRequests(running, {r})) = Elements(running) \ {r}
      BY <1>1, RemoveElements
    <3>4. \A a, b : a # r /\ b # r /\ Before(running, a, b)
                      => Before(RemoveRequests(running, {r}), a, b)
      BY <1>1, WithoutBefore
    <3> QED
      BY <1>1, <3>1, <3>2, <3>3, <3>4
  <2>2. CASE status[r] # "RUNNING"
    <3>1. r \notin Elements(running)
      BY <2>2 DEF QInv, QueuesMatchStatus
    <3>2. waiting' = RemoveRequests(waiting, {r}) /\ running' = running
      BY <2>2
    <3>3. RemoveRequests(waiting, {r}) \in Seq(Request)
          /\ Elements(RemoveRequests(waiting, {r})) = Elements(waiting) \ {r}
      BY <1>1, RemoveElements
    <3>4. \A a, b : a # r /\ b # r /\ Before(waiting, a, b)
                      => Before(RemoveRequests(waiting, {r}), a, b)
      BY <1>1, WithoutBefore
    <3> QED
      BY <1>1, <3>1, <3>2, <3>3, <3>4
  <2> QED
    BY <2>1, <2>2
<1>3. Elements(Line') = Elements(running') \cup Elements(waiting')
  BY <1>2, ConcatElements DEF Line
<1> SUFFICES ASSUME NEW a \in Elements(Line'), NEW b \in Elements(Line'), Before(Line, a, b)
             PROVE  Before(Line', a, b)
  BY DEF Keeps
<1>4. a # r /\ b # r
  BY <1>2, <1>3
<1>5. \/ Before(running, a, b) \/ Before(waiting, a, b)
      \/ a \in Elements(running) /\ b \in Elements(waiting)
  BY <1>1, ConcatBefore DEF Line
<1>6. \/ Before(running', a, b) \/ Before(waiting', a, b)
      \/ a \in Elements(running') /\ b \in Elements(waiting')
  BY <1>2, <1>4, <1>5
<1> QED
  BY <1>2, <1>6, ConcatBefore DEF Line

\* The last running request moves to the head of the waiting queue.
LEMMA PreemptOrder ==
  ASSUME NEW v \in Request, running \in Seq(Request), waiting \in Seq(Request),
         running # <<>>, Distinct(running), v = running[Len(running)],
         running' \in Seq(Request), Elements(running') = Elements(running) \ {v},
         \A a, b : a # v /\ b # v /\ Before(running, a, b) => Before(running', a, b),
         NEW c \in Seq(Request), Elements(c) = {v}, waiting' = c \o waiting
  PROVE  Keeps(Line, Line')
<1> SUFFICES ASSUME NEW a, NEW b, Before(Line, a, b) PROVE Before(Line', a, b)
  BY DEF Keeps
<1>3. /\ waiting' \in Seq(Request) /\ v \in Elements(waiting')
      /\ Elements(waiting) \subseteq Elements(waiting')
  <2>1. c \o waiting \in Seq(Request) /\ Elements(c \o waiting) = Elements(c) \cup Elements(waiting)
    BY ConcatElements
  <2> QED
    BY <2>1
<1>4. /\ Before(waiting, a, b) => Before(waiting', a, b)
      /\ a = v /\ b \in Elements(waiting) => Before(waiting', a, b)
  <2>1. Before(c \o waiting, a, b) <=>
          \/ Before(c, a, b) \/ Before(waiting, a, b)
          \/ a \in Elements(c) /\ b \in Elements(waiting)
    BY ConcatBefore
  <2> QED
    BY <2>1
<1>5. Before(running, a, b) => a # v
  <2> SUFFICES ASSUME Before(running, v, b) PROVE FALSE
    OBVIOUS
  <2> DEFINE L == Len(running)
  <2>1. L \in Nat /\ L >= 1 /\ DOMAIN running = 1 .. L /\ running[L] = v
    OBVIOUS
  <2> HIDE DEF L
  <2>2. PICK i \in 1 .. L, j \in 1 .. L : i < j /\ running[i] = v
    BY <2>1 DEF Before
  <2>3. i = L
    <3>1. i \in DOMAIN running /\ L \in DOMAIN running /\ running[i] = running[L]
      BY <2>1, <2>2
    <3> QED
      BY <3>1, Zenon DEF Distinct
  <2> QED
    BY <2>1, <2>2, <2>3
<1>6. \/ Before(running, a, b) \/ Before(waiting, a, b)
      \/ a \in Elements(running) /\ b \in Elements(waiting)
  BY ConcatBefore DEF Line
<1>7. \/ Before(running', a, b) \/ Before(waiting', a, b)
      \/ a \in Elements(running') /\ b \in Elements(waiting')
  <2>1. CASE Before(running, a, b)
    <3>1. a # v /\ a \in Elements(running)
      BY <1>5, <2>1, BeforeElements
    <3> QED
      BY <1>3, <2>1, <3>1
  <2>2. CASE Before(waiting, a, b)
    BY <1>4, <2>2
  <2>3. CASE a \in Elements(running) /\ b \in Elements(waiting)
    BY <1>3, <1>4, <2>3
  <2> QED
    BY <1>6, <2>1, <2>2, <2>3
<1> QED
  BY <1>3, <1>7, ConcatBefore DEF Line

\* The first waiting request moves to the end of the running list.
LEMMA AdmitOrder ==
  ASSUME running \in Seq(Request), waiting \in Seq(Request), waiting # <<>>,
         NEW r \in Request, r = waiting[1],
         running' = Append(running, r), waiting' = Tail(waiting)
  PROVE  Keeps(Line, Line')
<1> SUFFICES ASSUME NEW a, NEW b, Before(Line, a, b) PROVE Before(Line', a, b)
  BY DEF Keeps
<1> DEFINE c == <<r>>
           L == Len(waiting)
<1>1. c \in Seq(Request) /\ Elements(c) = {r}
  BY DEF Elements
<1>2. running' = running \o c
  OBVIOUS
<1>3. /\ waiting' \in Seq(Request) /\ Len(waiting') = L - 1
      /\ \A i \in 1 .. L - 1 : waiting'[i] = waiting[i + 1]
  OBVIOUS
<1>4. L \in Nat /\ L >= 1 /\ DOMAIN waiting = 1 .. L
  OBVIOUS
<1> HIDE DEF c, L
<1>5. DOMAIN waiting' = 1 .. L - 1
  BY <1>3, <1>4
<1>6. /\ running' \in Seq(Request) /\ Elements(running') = Elements(running) \cup {r}
  BY <1>1, <1>2, ConcatElements
<1>7. /\ Before(running, a, b) => Before(running', a, b)
      /\ a \in Elements(running) /\ b = r => Before(running', a, b)
  BY <1>1, <1>2, ConcatBefore
<1>8. ASSUME NEW j \in 2 .. L PROVE j - 1 \in DOMAIN waiting' /\ waiting'[j - 1] = waiting[j]
  <2>1. j - 1 \in 1 .. L - 1 /\ (j - 1) + 1 = j
    BY <1>4
  <2> QED
    BY <1>3, <1>5, <2>1
<1>9. b \in Elements(waiting) => b = r \/ b \in Elements(waiting')
  <2> SUFFICES ASSUME NEW j \in 1 .. L, b = waiting[j], b # r PROVE b \in Elements(waiting')
    BY <1>4 DEF Elements
  <2>1. j \in 2 .. L
    BY <1>4
  <2> QED
    BY <1>8, <2>1 DEF Elements
<1>10. Before(waiting, a, b) => Before(waiting', a, b) \/ (a = r /\ b \in Elements(waiting'))
  <2> SUFFICES ASSUME NEW i \in 1 .. L, NEW j \in 1 .. L, i < j, waiting[i] = a, waiting[j] = b
               PROVE  Before(waiting', a, b) \/ (a = r /\ b \in Elements(waiting'))
    BY <1>4 DEF Before
  <2>1. j \in 2 .. L
    BY <1>4
  <2>2. CASE i = 1
    BY <1>8, <2>1, <2>2 DEF Elements
  <2>3. CASE i # 1
    <3>1. i \in 2 .. L /\ i - 1 < j - 1
      BY <1>4, <2>3
    <3> QED
      BY <1>8, <2>1, <3>1 DEF Before
  <2> QED
    BY <2>2, <2>3
<1>11. \/ Before(running, a, b) \/ Before(waiting, a, b)
       \/ a \in Elements(running) /\ b \in Elements(waiting)
  BY ConcatBefore DEF Line
<1>12. \/ Before(running', a, b) \/ Before(waiting', a, b)
       \/ a \in Elements(running') /\ b \in Elements(waiting')
  BY <1>6, <1>7, <1>9, <1>10, <1>11
<1> QED
  BY <1>3, <1>6, <1>12, ConcatBefore DEF Line

\* Every step of a first come, first served engine keeps the order.
LEMMA NextKeepsOrder ==
  ASSUME QInv, [Next]_vars, Policy = "FCFS"
  PROVE  Keeps(Line, Line')
<1>1. /\ running \in Seq(Request) /\ waiting \in Seq(Request)
      /\ Distinct(running) /\ Distinct(waiting)
  BY DEF QInv, Shape, QueuesMatchStatus
<1>2. ASSUME UNCHANGED <<running, waiting>> PROVE Keeps(Line, Line')
  BY <1>2 DEF Keeps, Line
<1>3. ASSUME NEW r \in Request, Add(r) PROVE Keeps(Line, Line')
  <2> DEFINE c == <<r>>
  <2>1. c \in Seq(Request)
    OBVIOUS
  <2>2. running' = running /\ waiting' = Append(waiting, r)
    BY <1>3 DEF Add, AddRequest
  <2>3. waiting' = waiting \o c
    BY <1>1, <2>2
  <2> HIDE DEF c
  <2>4. waiting' \in Seq(Request) /\ Elements(waiting) \subseteq Elements(waiting')
    BY <1>1, <2>1, <2>3, ConcatElements
  <2> SUFFICES ASSUME NEW a, NEW b, Before(Line, a, b) PROVE Before(Line', a, b)
    BY DEF Keeps
  <2>5. \/ Before(running, a, b) \/ Before(waiting, a, b)
        \/ a \in Elements(running) /\ b \in Elements(waiting)
    BY <1>1, ConcatBefore DEF Line
  <2>6. Before(waiting, a, b) => Before(waiting', a, b)
    BY <1>1, <2>1, <2>3, ConcatBefore
  <2>7. \/ Before(running', a, b) \/ Before(waiting', a, b)
        \/ a \in Elements(running') /\ b \in Elements(waiting')
    BY <2>2, <2>4, <2>5, <2>6
  <2> QED
    BY <1>1, <2>2, <2>4, <2>7, ConcatBefore DEF Line
<1>4. ASSUME NEW r \in Request, Abort(r) PROVE Keeps(Line, Line')
  BY <1>4, LeaveOrder DEF Abort, Unfinished
<1>5. CASE FreeStopped
  <2> DEFINE r == Entry.req
  <2>1. r \in Request /\ status[r] \in Unfinished
    BY <1>5, EntryFacts DEF FreeStopped, QInv, ControlOK
  <2>2. IF status[r] = "RUNNING"
        THEN running' = RemoveRequests(running, {r}) /\ UNCHANGED waiting
        ELSE waiting' = RemoveRequests(waiting, {r}) /\ UNCHANGED running
    BY <1>5 DEF FreeStopped
  <2> HIDE DEF r
  <2> QED
    BY <2>1, <2>2, LeaveOrder
<1>6. CASE ResetPreempt
  <2> DEFINE L == Len(running)
             v == running[L]
             c == <<v>>
  <2>1. running # <<>> /\ running' = TakeFirst(running, L - 1) /\ waiting' = c \o waiting
    BY <1>6 DEF ResetPreempt, Preempt, PrependRequest
  <2>2. /\ v \in Request /\ running' \in Seq(Request)
        /\ Elements(running') = Elements(running) \ {v}
    BY <1>1, <2>1, DropLastElements
  <2>3. L \in Nat /\ L >= 1 /\ DOMAIN running = 1 .. L
    BY <1>1, <2>1
  <2>4. Len(running') = L - 1 /\ \A i \in 1 .. L - 1 : running'[i] = running[i]
    BY <1>1, <2>1, <2>3, SubSeqProperties DEF TakeFirst
  <2>5. ASSUME NEW a, NEW b, a # v, b # v, Before(running, a, b) PROVE Before(running', a, b)
    <3>1. PICK i \in 1 .. L, j \in 1 .. L : i < j /\ running[i] = a /\ running[j] = b
      BY <2>3, <2>5 DEF Before
    <3> HIDE DEF L
    <3>2. j # L
      BY <2>5, <3>1
    <3>3. i \in 1 .. L - 1 /\ j \in 1 .. L - 1
      BY <2>3, <3>1, <3>2
    <3>4. DOMAIN running' = 1 .. L - 1
      BY <2>2, <2>3, <2>4
    <3> QED
      BY <2>4, <3>1, <3>3, <3>4 DEF Before
  <2>6. c \in Seq(Request) /\ Elements(c) = {v}
    BY <2>2 DEF Elements
  <2>7. v = running[Len(running)]
    OBVIOUS
  <2> HIDE DEF v, c, L
  <2> QED
    BY <1>1, <2>1, <2>2, <2>5, <2>6, <2>7, PreemptOrder
<1>7. CASE PreemptVictim
  <2> DEFINE v == Victim
             c == <<v>>
  <2>1. v \in Request /\ v \in Elements(running)
    BY <1>7, PreemptVictimQueues
  <2>2. running # <<>>
    BY <2>1 DEF Elements
  <2>3. /\ running' = RemoveRequests(running, {v}) /\ waiting' = c \o waiting
        /\ v = running[Len(running)]
    BY <1>7 DEF PreemptVictim, Preempt, PrependRequest, Victim
  <2>4. c \in Seq(Request) /\ Elements(c) = {v}
    BY <2>1 DEF Elements
  <2> HIDE DEF v, c
  <2>5. running' \in Seq(Request) /\ Elements(running') = Elements(running) \ {v}
    BY <1>1, <2>3, RemoveElements
  <2>6. \A a, b : a # v /\ b # v /\ Before(running, a, b) => Before(running', a, b)
    BY <1>1, <2>3, WithoutBefore
  <2> QED
    BY <1>1, <2>1, <2>2, <2>3, <2>4, <2>5, <2>6, PreemptOrder
<1>8. ASSUME NEW r \in Request, ScheduleWaiting(r) PROVE Keeps(Line, Line')
  BY <1>1, <1>8, AdmitOrder DEF ScheduleWaiting, Admissible
<1>9. ASSUME \/ \E resetRunning \in BOOLEAN : StartReset(resetRunning)
             \/ ResetFinish \/ StepStart \/ StepDrain
             \/ \E r \in Request : SkipRunning(r) \/ TryRunning(r)
             \/ ScheduleRunning \/ EndRunning \/ EndWaiting \/ FinishSchedule
             \/ Collect \/ SkipOutput \/ DiscardOutput
             \/ \E eos \in BOOLEAN : TakeOutput(eos)
             \/ EndUpdate \/ UNCHANGED vars
      PROVE  UNCHANGED <<running, waiting>>
  BY <1>9, Zenon
     DEF StartReset, ResetFinish, StepStart, StepDrain, SkipRunning, TryRunning,
         ScheduleRunning, EndRunning, EndWaiting, FinishSchedule, Collect, SkipOutput,
         DiscardOutput, TakeOutput, EndUpdate, vars, queueVars
<1> QED
  BY <1>2, <1>3, <1>4, <1>5, <1>6, <1>7, <1>8, <1>9, Zenon DEF Next, Client, Engine

\* First come, first served: no step of any engine under that policy swaps two
\* live requests in the running list followed by the waiting queue, so a
\* preempted request resumes where its arrival put it (_preempt_request and
\* prepend_request).
THEOREM OrderCorrect == Spec => OrderKept
<1> DEFINE Step == Policy = "FCFS" => Keeps(Line, Line')
<1>1. QInv /\ [Next]_vars => [Step]_vars
  BY NextKeepsOrder
<1>2. [Step]_vars => [Policy = "FCFS" =>
                        \A r, s \in Elements(Line) \cap Elements(Line') :
                          Before(Line, r, s) => Before(Line', r, s)]_vars
  BY DEF Keeps
<1> HIDE DEF Step
<1>3. Spec => [][Step]_vars
  BY <1>1, QueuesInvariant, PTL DEF Spec
<1> QED
  BY <1>2, <1>3, PTL DEF OrderKept
=============================================================================
