----------------------- MODULE SchedulerEngineProofs ------------------------
(***************************************************************************)
(* The scheduler as an engine.                                             *)
(*                                                                         *)
(* It is the caller of the KV cache manager: every step of it is a step    *)
(* the manager's contract allows, so everything proved of the manager      *)
(* holds of the engine, its own counters stay in their bounds, and under   *)
(* first come, first served what the prefix cache offers is computed       *)
(* before the next step may hit it.                                        *)
(*                                                                         *)
(* And it returns tokens: those of a request come back once each and in    *)
(* order, whatever batches are in flight and whatever is preempted,        *)
(* aborted and resumed meanwhile.                                          *)
(***************************************************************************)
EXTENDS SchedulerProofs

\* min_tokens leaves room in max_model_len.  Without it check_stop returns
\* before its length test and a request outgrows max_model_len.
LengthsFit == \A r \in Request : PromptLen[r] + MinTokens[r] <= MaxModelLen

\* With asynchronous scheduling the executor runs two batches at a time, unless
\* there are pipeline stages (max_concurrent_batches).  One flag per request
\* cannot drop the tokens of two batches that reset_prefix_cache leaves behind.
ResetsFit == AsyncScheduling /\ MaxResets > 0 => BatchQueueSize <= 2

\* A request that may still get tokens: not one that just stopped.
Live(r) == status[r] \in Unfinished /\ ~(pc = "free" /\ r = Entry.req)

\* n more tokens of r may be computed.
Fits(r, n) ==
  /\ computed[r] + n <= MaxModelLen - 1
  /\ computed[r] + n <= NumTokens(r) + placeholders[r]

\* The tokens the block table of r has slots for.
Slots(r) == Len(reqBlocks[r]) * BlockSize

\* The counters of a request: it has not reached its limits yet, is computed
\* no further than it has tokens or placeholders, and, when it runs, no further
\* than its block table reaches.
CountersOK(r) ==
  /\ status[r] = "NEW" => Len(out[r]) = 0
  /\ Live(r) => Len(out[r]) < MaxTokens[r] /\ NumTokens(r) <= MaxModelLen - 1
  /\ placeholders[r] >= 0 /\ (~AsyncScheduling => placeholders[r] = 0)
  /\ computed[r] >= 0 /\ Fits(r, 0)
  /\ status[r] = "RUNNING" => reqBlocks[r] # <<>> /\ computed[r] <= Slots(r)

\* The batches in flight that will return a token of r.
Awaited(r) ==
  {i \in DOMAIN batches : \E j \in DOMAIN batches[i] :
     batches[i][j].req = r /\ batches[i][j].pos > 0}

\* There is a placeholder for each of them, or the flag that drops one.
AwaitedOK(r) ==
  AsyncScheduling /\ Live(r) =>
    Cardinality(Awaited(r)) <= placeholders[r] + (IF discard[r] THEN 1 ELSE 0)

\* What this step gave a request: some tokens, and slots for them.
GrantOK(g) == g.n >= 1 /\ Fits(g.req, g.n) /\ computed[g.req] + g.n <= Slots(g.req)
TryOK == pc = "allocate" => trying[1].n >= 1 /\ Fits(trying[1].req, trying[1].n)

\* A batch has one entry per request, and a step starts only when there is room
\* for its batch.
BatchesOK ==
  /\ \A i \in DOMAIN batches : \A j, k \in DOMAIN batches[i] :
       batches[i][j].req = batches[i][k].req => j = k
  /\ \A i \in DOMAIN batches : \A j \in DOMAIN batches[i] : batches[i][j].pos >= 0
  /\ Len(batches) <= BatchQueueSize
  /\ pc \in {"idle", "reset"} \cup Scheduling => Len(batches) < BatchQueueSize

\* The inductive invariant of the scheduler over the KV cache manager.
KInv ==
  /\ QInv /\ Inv
  /\ \A r \in Request : CountersOK(r) /\ AwaitedOK(r)
  /\ \A i \in DOMAIN scheduled : GrantOK(scheduled[i])
  /\ TryOK /\ BatchesOK
  /\ discard \in [Request -> BOOLEAN]
  /\ pc = "reset" => resets \in 1 .. MaxResets
  /\ resets \in 0 .. MaxResets

----------------------------------------------------------------------------

\* The types the arithmetic below needs.
LEMMA Types ==
  ASSUME KInv
  PROVE  /\ status \in [Request -> Statuses]
         /\ computed \in [Request -> Int] /\ placeholders \in [Request -> Int]
         /\ out \in [Request -> Seq(Int)]
         /\ waiting \in Seq(Request) /\ running \in Seq(Request)
         /\ batches \in Seq(Seq(Output)) /\ Len(batches) \in Nat
         /\ budget \in Int /\ idx \in Int
         /\ trying \in Seq(Grant) /\ scheduled \in Seq(Grant)
         /\ reqBlocks \in [Request -> Seq(Block)]
         /\ BlockSize \in Nat \ {0} /\ MaxModelLen \in Nat /\ BatchQueueSize \in Nat
         /\ \A r \in Request :
              /\ computed[r] \in Int /\ placeholders[r] \in Int /\ Len(out[r]) \in Nat
              /\ NumTokens(r) \in Nat /\ NumTokens(r) >= 1
              /\ Len(reqBlocks[r]) \in Nat /\ Slots(r) \in Nat
              /\ PromptLen[r] \in Nat /\ MaxTokens[r] \in Nat /\ MinTokens[r] \in Nat
<1>1. /\ status \in [Request -> Statuses]
      /\ computed \in [Request -> Int] /\ placeholders \in [Request -> Int]
      /\ out \in [Request -> Seq(Int)]
      /\ waiting \in Seq(Request) /\ running \in Seq(Request)
      /\ batches \in Seq(Seq(Output)) /\ Len(batches) \in Nat
      /\ budget \in Int /\ idx \in Int
      /\ trying \in Seq(Grant) /\ scheduled \in Seq(Grant)
      /\ reqBlocks \in [Request -> Seq(Block)]
  BY DEF KInv, QInv, Shape, Inv, Sound, Typed
<1>2. BlockSize \in Nat \ {0} /\ MaxModelLen \in Nat /\ BatchQueueSize \in Nat
  BY SizeAssumption, SchedulerAssumption
<1>3. ASSUME NEW r \in Request
      PROVE  /\ computed[r] \in Int /\ placeholders[r] \in Int /\ Len(out[r]) \in Nat
             /\ NumTokens(r) \in Nat /\ NumTokens(r) >= 1
             /\ Len(reqBlocks[r]) \in Nat /\ Slots(r) \in Nat
             /\ PromptLen[r] \in Nat /\ MaxTokens[r] \in Nat /\ MinTokens[r] \in Nat
  <2>1. PromptLen[r] \in Nat /\ PromptLen[r] >= 1 /\ MaxTokens[r] \in Nat /\ MinTokens[r] \in Nat
    BY SchedulerAssumption, <1>2
  <2>2. computed[r] \in Int /\ placeholders[r] \in Int /\ Len(out[r]) \in Nat
    BY <1>1
  <2>3. Len(reqBlocks[r]) \in Nat
    BY <1>1
  <2>4. Slots(r) \in Nat
    BY <1>2, <2>3 DEF Slots
  <2>. QED
    BY <2>1, <2>2, <2>3, <2>4 DEF NumTokens
<1>. QED
  BY <1>1, <1>2, <1>3

\* A request the step leaves alone keeps its counters in order.
LEMMA CountersKept ==
  ASSUME NEW r \in Request, CountersOK(r),
         status'[r] = status[r], computed'[r] = computed[r], out'[r] = out[r],
         placeholders'[r] = placeholders[r], reqBlocks'[r] = reqBlocks[r],
         Live(r)' => Live(r)
  PROVE  CountersOK(r)'
<1>1. NumTokens(r)' = NumTokens(r) /\ Slots(r)' = Slots(r)
  BY DEF NumTokens, Slots
<1>2. Fits(r, 0)' <=> Fits(r, 0)
  BY <1>1 DEF Fits
<1>. QED
  BY <1>1, <1>2, Zenon DEF CountersOK

\* So does what the step gave such a request.
LEMMA GrantKept ==
  ASSUME NEW g \in Grant, GrantOK(g),
         computed'[g.req] = computed[g.req], out'[g.req] = out[g.req],
         placeholders'[g.req] = placeholders[g.req], reqBlocks'[g.req] = reqBlocks[g.req]
  PROVE  GrantOK(g)'
<1>. DEFINE r == g.req
            n == g.n
<1>1. NumTokens(r)' = NumTokens(r) /\ Slots(r)' = Slots(r)
  BY DEF NumTokens, Slots
<1>2. n >= 1 /\ Fits(r, n) /\ computed[r] + n <= Slots(r)
  BY DEF GrantOK
<1>3. Fits(r, n)' <=> Fits(r, n)
  BY <1>1 DEF Fits
<1>. QED
  BY <1>1, <1>2, <1>3 DEF GrantOK

\* What is scheduled after a step is in order if each grant in it is.
LEMMA GrantsFollow ==
  ASSUME scheduled' \in Seq(Grant),
         \A g \in Grant : (\E i \in DOMAIN scheduled' : scheduled'[i] = g) => GrantOK(g)'
  PROVE  (\A i \in DOMAIN scheduled : GrantOK(scheduled[i]))'
<1>. SUFFICES ASSUME NEW i \in DOMAIN scheduled'
              PROVE  GrantOK(scheduled[i])'
  OBVIOUS
<1>1. PICK g \in Grant : g = scheduled'[i]
  OBVIOUS
<1>2. GrantOK(g)'
  BY <1>1
<1>. QED
  BY <1>1, <1>2 DEF GrantOK, Fits, Slots, NumTokens

\* The awaited batches are a finite set, no larger than the queue.
LEMMA AwaitedFinite ==
  ASSUME NEW r, batches \in Seq(Seq(Output))
  PROVE  /\ IsFiniteSet(Awaited(r)) /\ Cardinality(Awaited(r)) \in Nat
         /\ Awaited(r) \subseteq 1 .. Len(batches)
         /\ Cardinality(Awaited(r)) <= Len(batches)
<1>1. Len(batches) \in Nat /\ DOMAIN batches = 1 .. Len(batches)
  OBVIOUS
<1>2. Awaited(r) \subseteq 1 .. Len(batches)
  BY <1>1 DEF Awaited
<1>3. IsFiniteSet(1 .. Len(batches)) /\ Cardinality(1 .. Len(batches)) = Len(batches)
  BY <1>1, IntervalSize
<1>4. IsFiniteSet(Awaited(r)) /\ Cardinality(Awaited(r)) <= Cardinality(1 .. Len(batches))
  BY <1>2, <1>3, FS_Subset
<1>. QED
  BY <1>2, <1>3, <1>4, FS_CardinalityType

\* A request loses no placeholder and gains no awaited batch: the account holds.
LEMMA AwaitedKept ==
  ASSUME NEW r \in Request, AwaitedOK(r), batches \in Seq(Seq(Output)),
         Awaited(r)' \subseteq Awaited(r), Live(r)' => Live(r),
         placeholders'[r] = placeholders[r], placeholders[r] \in Int,
         discard'[r] = discard[r]
  PROVE  AwaitedOK(r)'
<1>1. /\ IsFiniteSet(Awaited(r)) /\ Cardinality(Awaited(r)) \in Nat
  BY AwaitedFinite
<1>2. IsFiniteSet(Awaited(r)') /\ Cardinality(Awaited(r)') <= Cardinality(Awaited(r))
  BY <1>1, FS_Subset
<1>3. Cardinality(Awaited(r)') \in Nat
  BY <1>2, FS_CardinalityType
<1>. SUFFICES ASSUME AsyncScheduling, Live(r)'
              PROVE  Cardinality(Awaited(r)') <= placeholders'[r] + (IF discard'[r] THEN 1 ELSE 0)
  BY DEF AwaitedOK
<1>4. Cardinality(Awaited(r)) <= placeholders[r] + (IF discard[r] THEN 1 ELSE 0)
  BY DEF AwaitedOK
<1>. QED
  BY <1>1, <1>2, <1>3, <1>4

----------------------------------------------------------------------------
(* One lemma per action: the step is a step of the KV cache manager and    *)
(* evicts nothing by itself, and the invariant is kept.                    *)

\* The actions that move the thread and touch neither requests nor batches.
LEMMA MoveKV ==
  ASSUME KInv, QInv', [KVStep]_kvVars,
         UNCHANGED <<reqBlocks, status, computed, out, placeholders, discard, batches,
                     scheduled>>,
         pc # "free", pc' # "free", pc' # "allocate" \/ TryOK',
         pc' \in {"idle", "reset"} \cup Scheduling => pc \in {"idle", "reset"} \cup Scheduling,
         resets' \in 0 .. MaxResets, pc' = "reset" => resets' \in 1 .. MaxResets
  PROVE  KInv'
<1>1. Inv'
  BY CallerSound DEF KInv
<1>2. ASSUME NEW r \in Request
      PROVE  CountersOK(r)' /\ AwaitedOK(r)'
  <2>1. CountersOK(r) /\ AwaitedOK(r)
    BY DEF KInv
  <2>2. Live(r)' => Live(r)
    BY DEF Live
  <2>3. CountersOK(r)'
    BY <2>1, <2>2, CountersKept
  <2>4. Awaited(r)' \subseteq Awaited(r)
    BY DEF Awaited
  <2>. QED
    BY <2>1, <2>2, <2>3, <2>4, AwaitedKept, Types
<1>3. (\A i \in DOMAIN scheduled : GrantOK(scheduled[i]))'
  <2>1. \A i \in DOMAIN scheduled : scheduled[i] \in Grant /\ GrantOK(scheduled[i])
    BY Types DEF KInv
  <2>2. ASSUME NEW i \in DOMAIN scheduled
        PROVE  GrantOK(scheduled[i])'
    <3>. DEFINE g == scheduled[i]
    <3>1. g \in Grant /\ GrantOK(g) /\ g' = g
      BY <2>1
    <3>2. g.n >= 1 /\ Fits(g.req, g.n) /\ computed[g.req] + g.n <= Slots(g.req)
      BY <3>1 DEF GrantOK
    <3>. QED
      BY <3>1, <3>2 DEF GrantOK, Fits, Slots, NumTokens
  <2>. QED
    BY <2>2
<1>4. TryOK'
  BY DEF TryOK
<1>5. BatchesOK'
  BY DEF KInv, BatchesOK
<1>. QED
  BY <1>1, <1>2, <1>3, <1>4, <1>5 DEF KInv

\* A new request: no batch has an entry of it yet.
LEMMA AddKV ==
  ASSUME KInv, NEW r \in Request, Add(r)
  PROVE  KInv' /\ [KVStep]_kvVars
<1>1. /\ pc = "idle" /\ status[r] = "NEW" /\ status' = [status EXCEPT ![r] = "WAITING"]
      /\ UNCHANGED <<pool, reqBlocks, numCached, error, computed, out, placeholders,
                     discard, batches, pc, trying, scheduled, resets>>
  BY DEF Add, kvVars, stepVars, scheduleVars
<1>2. QInv'
  BY AddQueues DEF KInv
<1>3. UNCHANGED kvVars
  BY <1>1 DEF kvVars
<1>4. Inv'
  BY <1>3, CallerSound DEF KInv
<1>5. status' \in [Request -> Statuses] /\ \A s \in Request : s # r => status'[s] = status[s]
  BY <1>1, Types DEF Statuses
<1>6. \A s \in Request : Awaited(s)' = Awaited(s)
  BY <1>1 DEF Awaited
<1>7. Awaited(r) = {}
  BY <1>1 DEF Awaited, KInv, QInv, ControlOK
<1>8. ASSUME NEW s \in Request, s # r
      PROVE  CountersOK(s)' /\ AwaitedOK(s)'
  <2>1. CountersOK(s) /\ AwaitedOK(s)
    BY DEF KInv
  <2>2. Live(s)' => Live(s)
    BY <1>1, <1>5, <1>8 DEF Live
  <2>3. CountersOK(s)'
    BY <1>1, <1>5, <1>8, <2>1, <2>2, CountersKept
  <2>. QED
    BY <1>1, <1>6, <2>1, <2>2, <2>3, AwaitedKept, Types
<1>9. CountersOK(r)' /\ AwaitedOK(r)'
  <2>1. CountersOK(r) /\ Len(out[r]) = 0
    BY <1>1 DEF KInv, CountersOK
  <2>2. /\ NumTokens(r)' = NumTokens(r) /\ NumTokens(r) = PromptLen[r]
        /\ PromptLen[r] <= MaxModelLen - 1 /\ MaxTokens[r] > 0
    BY <1>1, <2>1, SchedulerAssumption, Types, SMTT(30) DEF NumTokens
  <2>3. Fits(r, 0)' <=> Fits(r, 0)
    BY <1>1, <2>2 DEF Fits
  <2>4. status'[r] = "WAITING"
    BY <1>1, Types
  <2>5. CountersOK(r)'
    BY <1>1, <2>1, <2>2, <2>3, <2>4 DEF CountersOK
  <2>6. Cardinality(Awaited(r)') = 0
    BY <1>6, <1>7, FS_EmptySet
  <2>7. placeholders'[r] \in Int /\ placeholders'[r] >= 0
    BY <1>1, <2>1, Types DEF CountersOK
  <2>. QED
    BY <2>5, <2>6, <2>7 DEF AwaitedOK
<1>10. (\A i \in DOMAIN scheduled : GrantOK(scheduled[i]))' /\ TryOK' /\ BatchesOK'
  <2>1. scheduled = <<>>
    BY <1>1 DEF KInv, QInv, ControlOK, Scheduling
  <2>. QED
    BY <1>1, <2>1 DEF KInv, TryOK, BatchesOK
<1>. QED
  BY <1>1, <1>2, <1>3, <1>4, <1>8, <1>9, <1>10 DEF KInv

\* A request leaves: aborted, or freed because it stopped.
LEMMA LeaveKV ==
  ASSUME KInv, QInv', NEW r \in Request, status[r] \in Unfinished, Free(r),
         status' = [status EXCEPT ![r] = "FINISHED"],
         UNCHANGED <<computed, out, placeholders, discard, scheduled, resets>>,
         \A s \in Request : Awaited(s)' \subseteq Awaited(s),
         \A s \in Request : s # r /\ Live(s)' => Live(s),
         pc \notin Scheduling, pc' \notin Scheduling, pc' # "reset",
         BatchesOK'
  PROVE  KInv' /\ [KVStep]_kvVars
<1>1. [KVStep]_kvVars
  BY DEF KVStep
<1>2. Inv'
  BY <1>1, CallerSound DEF KInv
<1>3. /\ status' \in [Request -> Statuses] /\ status'[r] = "FINISHED"
      /\ \A s \in Request : s # r => status'[s] = status[s] /\ reqBlocks'[s] = reqBlocks[s]
  BY Types DEF Free, Statuses
<1>4. ~Live(r)'
  BY <1>3 DEF Live, Unfinished
<1>5. ASSUME NEW s \in Request
      PROVE  CountersOK(s)' /\ AwaitedOK(s)'
  <2>1. CountersOK(s) /\ AwaitedOK(s)
    BY DEF KInv
  <2>2. CASE s # r
    <3>1. CountersOK(s)'
      BY <1>3, <2>1, <2>2, CountersKept
    <3>. QED
      BY <2>1, <2>2, <3>1, AwaitedKept, Types
  <2>3. CASE s = r
    <3>1. AwaitedOK(r)'
      BY <1>4 DEF AwaitedOK
    <3>2. Fits(r, 0)' <=> Fits(r, 0)
      BY DEF Fits, NumTokens
    <3>3. CountersOK(r)'
      BY <1>3, <1>4, <2>1, <2>3, <3>2 DEF CountersOK
    <3>. QED
      BY <2>3, <3>1, <3>3
  <2>. QED
    BY <2>2, <2>3
<1>6. (\A i \in DOMAIN scheduled : GrantOK(scheduled[i]))' /\ TryOK'
  <2>1. scheduled = <<>>
    BY DEF KInv, QInv, ControlOK
  <2>. QED
    BY <2>1 DEF TryOK, Scheduling
<1>. QED
  BY <1>1, <1>2, <1>5, <1>6 DEF KInv

\* An abort, between steps or while the oldest batch runs.
LEMMA AbortKV ==
  ASSUME KInv, NEW r \in Request, Abort(r)
  PROVE  KInv' /\ [KVStep]_kvVars
<1>1. /\ pc \in {"idle", "collect"} /\ status[r] \in Unfinished /\ Free(r)
      /\ status' = [status EXCEPT ![r] = "FINISHED"]
      /\ UNCHANGED <<computed, out, placeholders, discard, batches, pc, scheduled, resets>>
  BY DEF Abort, Unfinished, stepVars, scheduleVars
<1>2. QInv'
  BY AbortQueues DEF KInv
<1>3. \A s \in Request : Awaited(s)' = Awaited(s)
  BY <1>1 DEF Awaited
<1>4. \A s \in Request : s # r /\ Live(s)' => Live(s)
  <2>1. \A s \in Request : s # r => status'[s] = status[s]
    BY <1>1, Types
  <2>. QED
    BY <1>1, <2>1 DEF Live
<1>5. BatchesOK'
  BY <1>1 DEF KInv, BatchesOK
<1>. QED
  BY <1>1, <1>2, <1>3, <1>4, <1>5, LeaveKV DEF Scheduling

\* Dropping the entry at hand: no batch is awaited that was not, and if it
\* carries a token, the oldest batch is no longer awaited for it.
LEMMA DropAwaited ==
  ASSUME QInv, BatchesOK, HasEntry \/ pc = "free", DropEntry
  PROVE  /\ \A s \in Request : Awaited(s)' \subseteq Awaited(s)
         /\ \A s \in Request : s = Entry.req /\ Entry.pos > 0 =>
              1 \in Awaited(s) /\ 1 \notin Awaited(s)'
         /\ pc' \notin {"idle", "reset"} \cup Scheduling => BatchesOK'
<1>. DEFINE b == batches[1]
            e == Entry
<1>1. /\ batches \in Seq(Seq(Output)) /\ batches # <<>> /\ b # <<>> /\ b \in Seq(Output)
      /\ 1 \in DOMAIN batches /\ 1 \in DOMAIN b /\ e = b[1]
  BY EntryFacts DEF Entry
<1>2. /\ batches' \in Seq(Seq(Output)) /\ Len(batches') = Len(batches)
      /\ \A i \in DOMAIN batches : i # 1 => batches'[i] = batches[i]
      /\ batches'[1] = Tail(b)
      /\ \A i \in DOMAIN batches' : \A j \in DOMAIN batches'[i] :
           \E k \in DOMAIN batches[i] : batches'[i][j] = batches[i][k]
  BY <1>1, DropEntryFacts
<1>3. DOMAIN batches' = DOMAIN batches
  BY <1>1, <1>2
<1>4. ASSUME NEW s \in Request PROVE Awaited(s)' \subseteq Awaited(s)
  <2>. SUFFICES ASSUME NEW i \in Awaited(s)' PROVE i \in Awaited(s)
    OBVIOUS
  <2>1. PICK j \in DOMAIN batches'[i] : batches'[i][j].req = s /\ batches'[i][j].pos > 0
    BY DEF Awaited
  <2>2. i \in DOMAIN batches' /\ i \in DOMAIN batches
    BY <1>3 DEF Awaited
  <2>3. PICK k \in DOMAIN batches[i] : batches'[i][j] = batches[i][k]
    BY <1>2, <2>1, <2>2
  <2>. QED
    BY <2>1, <2>2, <2>3 DEF Awaited
<1>5. /\ Len(b) \in Nat /\ DOMAIN b = 1 .. Len(b) /\ Tail(b) \in Seq(Output)
      /\ DOMAIN Tail(b) = 1 .. Len(b) - 1
      /\ \A j \in 1 .. Len(b) - 1 : Tail(b)[j] = b[j + 1]
  BY <1>1
<1>6. \A j, k \in DOMAIN b : b[j].req = b[k].req => j = k
  BY <1>1 DEF BatchesOK
<1>. HIDE DEF b, e
<1>7. \A j, k \in 1 .. Len(b) - 1 : Tail(b)[j].req = Tail(b)[k].req => j = k
  <2>. SUFFICES ASSUME NEW j \in 1 .. Len(b) - 1, NEW k \in 1 .. Len(b) - 1,
                       Tail(b)[j].req = Tail(b)[k].req
                PROVE  j = k
    OBVIOUS
  <2>1. j + 1 \in DOMAIN b /\ k + 1 \in DOMAIN b
    BY <1>5
  <2>2. b[j + 1].req = b[k + 1].req
    BY <1>5
  <2>3. j + 1 = k + 1
    BY <1>6, <2>1, <2>2
  <2>. QED
    BY <2>3
<1>8. \A j \in DOMAIN Tail(b) : Tail(b)[j].req # e.req
  <2>. SUFFICES ASSUME NEW j \in 1 .. Len(b) - 1
                PROVE  Tail(b)[j].req # e.req
    BY <1>5
  <2>1. j + 1 \in DOMAIN b /\ j + 1 # 1
    BY <1>5
  <2>. QED
    BY <1>1, <1>5, <1>6, <2>1
<1>9. ASSUME NEW s \in Request, s = Entry.req, Entry.pos > 0
      PROVE  1 \in Awaited(s) /\ 1 \notin Awaited(s)'
  <2>1. \A j \in DOMAIN batches'[1] : batches'[1][j].req # s
    BY <1>2, <1>8, <1>9 DEF e
  <2>2. 1 \notin Awaited(s)'
    BY <2>1 DEF Awaited
  <2>3. batches[1][1].req = s /\ batches[1][1].pos > 0
    BY <1>9 DEF Entry
  <2>. QED
    BY <1>1, <2>2, <2>3 DEF Awaited, b
<1>10. ASSUME NEW i \in DOMAIN batches'
       PROVE  \A j, k \in DOMAIN batches'[i] : batches'[i][j].req = batches'[i][k].req => j = k
  <2>1. CASE i = 1
    <3>1. batches'[i] = Tail(b) /\ DOMAIN Tail(b) = 1 .. Len(b) - 1
      BY <1>2, <1>5, <2>1
    <3>. QED
      BY <1>7, <3>1, Zenon
  <2>2. CASE i # 1
    <3>1. i \in DOMAIN batches /\ batches'[i] = batches[i]
      BY <1>2, <1>3, <2>2
    <3>. QED
      BY <3>1 DEF BatchesOK
  <2>. QED
    BY <2>1, <2>2
<1>11. \A i \in DOMAIN batches' : \A j \in DOMAIN batches'[i] : batches'[i][j].pos >= 0
  BY <1>2, <1>3 DEF BatchesOK
<1>. QED
  BY <1>2, <1>4, <1>9, <1>10, <1>11 DEF BatchesOK

\* A request that stopped is freed.
LEMMA FreeStoppedKV ==
  ASSUME KInv, FreeStopped
  PROVE  KInv' /\ [KVStep]_kvVars
<1>0. PICK r \in Request : r = Entry.req
  BY EntryFacts DEF KInv, FreeStopped
<1>1. /\ pc = "free" /\ pc' = "update" /\ Free(r) /\ DropEntry
      /\ status' = [status EXCEPT ![r] = "FINISHED"]
      /\ UNCHANGED <<computed, out, placeholders, discard, scheduled, resets>>
  BY <1>0 DEF FreeStopped, scheduleVars
<1>2. QInv' /\ QInv /\ BatchesOK
  BY FreeStoppedQueues DEF KInv
<1>3. r \in Request /\ status[r] \in Unfinished
  BY <1>0, <1>1, <1>2 DEF QInv, ControlOK
<1>4. \A s \in Request : s # r /\ Live(s)' => Live(s)
  <2>1. \A s \in Request : s # r => status'[s] = status[s]
    BY <1>1, Types
  <2>. QED
    BY <1>0, <1>1, <2>1 DEF Live
<1>5. BatchesOK' /\ \A s \in Request : Awaited(s)' \subseteq Awaited(s)
  BY <1>1, <1>2, DropAwaited DEF Scheduling
<1>. QED
  BY <1>1, <1>2, <1>3, <1>4, <1>5, LeaveKV DEF Scheduling

\* An entry that carries nothing for a live request is dropped.
LEMMA SkipOutputKV ==
  ASSUME KInv, SkipOutput
  PROVE  KInv' /\ [KVStep]_kvVars
<1>1. /\ HasEntry /\ DropEntry /\ pc = "update"
      /\ UNCHANGED <<kvVars, reqBlocks, status, computed, out, placeholders, discard, waiting,
                     running, pc, idx, budget, trying, scheduled, resets>>
  BY DEF SkipOutput, HasEntry, reqVars, queueVars, scheduleVars, kvVars
<1>2. QInv /\ BatchesOK
  BY DEF KInv
<1>3. QInv'
  BY <1>1, <1>2, OutputQueues, Types
<1>4. Inv' /\ [KVStep]_kvVars
  BY <1>1, CallerSound DEF KInv
<1>5. BatchesOK' /\ \A s \in Request : Awaited(s)' \subseteq Awaited(s)
  BY <1>1, <1>2, DropAwaited DEF Scheduling
<1>6. ASSUME NEW s \in Request
      PROVE  CountersOK(s)' /\ AwaitedOK(s)'
  <2>1. CountersOK(s) /\ AwaitedOK(s) /\ (Live(s)' => Live(s))
    BY <1>1 DEF KInv, Live
  <2>2. CountersOK(s)'
    BY <1>1, <2>1, CountersKept
  <2>. QED
    BY <1>1, <1>5, <2>1, <2>2, AwaitedKept, Types
<1>7. (\A i \in DOMAIN scheduled : GrantOK(scheduled[i]))' /\ TryOK' /\ BatchesOK'
  <2>1. scheduled = <<>>
    BY <1>1, <1>2, EntryFacts
  <2>. QED
    BY <1>1, <1>5, <2>1 DEF TryOK
<1>. QED
  BY <1>1, <1>3, <1>4, <1>6, <1>7 DEF KInv

\* One batch less is awaited for the request of the entry at hand.
LEMMA OneLessAwaited ==
  ASSUME QInv, BatchesOK, HasEntry, DropEntry, NEW r \in Request, r = Entry.req, Entry.pos > 0
  PROVE  /\ Cardinality(Awaited(r)') \in Nat
         /\ Cardinality(Awaited(r)') <= Cardinality(Awaited(r)) - 1
<1>1. Awaited(r)' \subseteq Awaited(r) \ {1} /\ 1 \in Awaited(r)
  BY DropAwaited
<1>2. IsFiniteSet(Awaited(r)) /\ Cardinality(Awaited(r)) \in Nat
  BY AwaitedFinite DEF QInv, Shape
<1>3. IsFiniteSet(Awaited(r) \ {1}) /\ Cardinality(Awaited(r) \ {1}) = Cardinality(Awaited(r)) - 1
  BY <1>1, <1>2, FS_RemoveElement
<1>4. IsFiniteSet(Awaited(r)') /\ Cardinality(Awaited(r)') <= Cardinality(Awaited(r) \ {1})
  BY <1>1, <1>3, FS_Subset
<1>. QED
  BY <1>2, <1>3, <1>4, FS_CardinalityType

\* The flag and the token it drops go together.
LEMMA DiscardOutputKV ==
  ASSUME KInv, DiscardOutput
  PROVE  KInv' /\ [KVStep]_kvVars
<1>0. PICK r \in Request : r = Entry.req
  BY EntryFacts DEF KInv, DiscardOutput
<1>1. /\ HasEntry /\ DropEntry /\ pc = "update" /\ ~IsMoot /\ AsyncScheduling /\ discard[r]
      /\ discard' = [discard EXCEPT ![r] = FALSE]
      /\ UNCHANGED <<kvVars, reqBlocks, status, computed, out, placeholders, waiting,
                     running, pc, idx, budget, trying, scheduled, resets>>
  BY <1>0 DEF DiscardOutput, HasEntry, queueVars, scheduleVars, kvVars
<1>2. QInv /\ BatchesOK /\ discard \in [Request -> BOOLEAN]
  BY DEF KInv
<1>3. QInv'
  BY <1>1, <1>2, OutputQueues, Types
<1>4. Inv' /\ [KVStep]_kvVars
  BY <1>1, CallerSound DEF KInv
<1>5. BatchesOK' /\ \A s \in Request : Awaited(s)' \subseteq Awaited(s)
  BY <1>1, <1>2, DropAwaited DEF Scheduling
<1>6. Entry.pos \in Int /\ Entry.pos > 0
  <2>1. Entry.pos \in Int /\ 1 \in DOMAIN batches /\ 1 \in DOMAIN batches[1]
    BY <1>1, <1>2, EntryFacts
  <2>2. Entry.pos >= 0
    BY <1>2, <2>1 DEF BatchesOK, Entry
  <2>. QED
    BY <1>1, <2>1, <2>2 DEF IsMoot
<1>7. /\ discard' \in [Request -> BOOLEAN] /\ discard'[r] = FALSE
      /\ \A s \in Request : s # r => discard'[s] = discard[s]
  BY <1>1, <1>2, <1>6
<1>8. ASSUME NEW s \in Request
      PROVE  CountersOK(s)' /\ AwaitedOK(s)'
  <2>1. CountersOK(s) /\ AwaitedOK(s) /\ (Live(s)' => Live(s))
    BY <1>1 DEF KInv, Live
  <2>2. CountersOK(s)'
    BY <1>1, <2>1, CountersKept
  <2>3. CASE s # r
    BY <1>1, <1>5, <1>7, <2>1, <2>2, <2>3, AwaitedKept, Types
  <2>4. CASE s = r
    <3>. SUFFICES ASSUME Live(r)'
                  PROVE  Cardinality(Awaited(r)') <= placeholders'[r] + 0
      BY <1>7, <2>2, <2>4 DEF AwaitedOK
    <3>2. Cardinality(Awaited(r)) <= placeholders[r] + 1
      BY <1>1, <2>1, <2>4 DEF AwaitedOK
    <3>3. /\ Cardinality(Awaited(r)') \in Nat
          /\ Cardinality(Awaited(r)') <= Cardinality(Awaited(r)) - 1
      BY <1>0, <1>1, <1>2, <1>6, OneLessAwaited
    <3>4. Cardinality(Awaited(r)) \in Nat
      BY AwaitedFinite, Types
    <3>5. placeholders[r] \in Int /\ placeholders'[r] = placeholders[r]
      BY <1>1, <1>6, Types
    <3>. QED
      BY <3>2, <3>3, <3>4, <3>5
  <2>. QED
    BY <2>3, <2>4
<1>9. (\A i \in DOMAIN scheduled : GrantOK(scheduled[i]))' /\ TryOK' /\ BatchesOK'
  <2>1. scheduled = <<>>
    BY <1>1, <1>2, EntryFacts
  <2>. QED
    BY <1>1, <1>5, <2>1 DEF TryOK
<1>. QED
  BY <1>1, <1>3, <1>4, <1>7, <1>8, <1>9 DEF KInv

\* The oldest batch is used up; the others move forward.
LEMMA EndUpdateKV ==
  ASSUME KInv, EndUpdate
  PROVE  KInv' /\ [KVStep]_kvVars
<1>1. /\ pc = "update" /\ pc' = "idle" /\ batches[1] = <<>>
      /\ UNCHANGED <<kvVars, reqBlocks, status, computed, out, placeholders, discard,
                     trying, scheduled, resets>>
  BY DEF EndUpdate, reqVars, queueVars, scheduleVars, kvVars
<1>2. /\ QInv' /\ QInv /\ BatchesOK
      /\ batches \in Seq(Seq(Output)) /\ Len(batches) \in Nat \ {0}
      /\ Len(batches') = Len(batches) - 1
      /\ \A i \in 1 .. Len(batches) - 1 : batches'[i] = batches[i + 1]
  BY EndUpdateQueues DEF KInv
<1>3. Inv' /\ [KVStep]_kvVars
  BY <1>1, CallerSound DEF KInv
<1>. DEFINE L == Len(batches)
<1>4. batches' \in Seq(Seq(Output))
  BY <1>2 DEF QInv, Shape
<1>5. DOMAIN batches = 1 .. L /\ DOMAIN batches' = 1 .. L - 1 /\ L \in Nat \ {0}
  BY <1>2, <1>4
<1>6. \A i \in 1 .. L - 1 : batches'[i] = batches[i + 1] /\ i + 1 \in 1 .. L
  BY <1>2, SMTT(30)
<1>. HIDE DEF L
<1>7. ASSUME NEW s \in Request
      PROVE  Cardinality(Awaited(s)') <= Cardinality(Awaited(s)) /\ Cardinality(Awaited(s)') \in Nat
  <2>. DEFINE f == [i \in Awaited(s)' |-> i + 1]
  <2>1. \A i \in Awaited(s)' : i \in 1 .. L - 1 /\ i + 1 \in Awaited(s)
    BY <1>5, <1>6 DEF Awaited
  <2>2. f \in Injection(Awaited(s)', Awaited(s))
    BY <2>1 DEF Injection, IsInjective
  <2>3. IsFiniteSet(Awaited(s))
    BY <1>2, AwaitedFinite
  <2>. HIDE DEF f
  <2>4. IsFiniteSet(Awaited(s)') /\ Cardinality(Awaited(s)') <= Cardinality(Awaited(s))
    BY <2>2, <2>3, FS_Injection
  <2>. QED
    BY <2>4, FS_CardinalityType
<1>8. ASSUME NEW s \in Request
      PROVE  CountersOK(s)' /\ AwaitedOK(s)'
  <2>1. CountersOK(s) /\ AwaitedOK(s) /\ (Live(s)' => Live(s))
    BY <1>1 DEF KInv, Live
  <2>2. CountersOK(s)'
    BY <1>1, <2>1, CountersKept
  <2>3. Cardinality(Awaited(s)) \in Nat
    BY <1>2, AwaitedFinite
  <2>4. placeholders[s] \in Int /\ placeholders'[s] = placeholders[s] /\ discard'[s] = discard[s]
    BY <1>1, Types
  <2>. QED
    BY <1>7, <2>1, <2>2, <2>3, <2>4 DEF AwaitedOK
<1>9. BatchesOK'
  <2>1. \A i \in DOMAIN batches' : batches'[i] = batches[i + 1] /\ i + 1 \in DOMAIN batches
    BY <1>5, <1>6
  <2>2. Len(batches') < BatchQueueSize /\ Len(batches') <= BatchQueueSize
    BY <1>2, Types, SMTT(30) DEF BatchesOK
  <2>3. \A i \in DOMAIN batches' : \A j, k \in DOMAIN batches'[i] :
          batches'[i][j].req = batches'[i][k].req => j = k
    BY <1>2, <2>1 DEF BatchesOK
  <2>4. \A i \in DOMAIN batches' : \A j \in DOMAIN batches'[i] : batches'[i][j].pos >= 0
    BY <1>2, <2>1 DEF BatchesOK
  <2>. QED
    BY <2>2, <2>3, <2>4 DEF BatchesOK
<1>10. (\A i \in DOMAIN scheduled : GrantOK(scheduled[i]))' /\ TryOK'
  <2>1. scheduled = <<>>
    BY <1>1, <1>2 DEF QInv, ControlOK, Scheduling
  <2>. QED
    BY <1>1, <2>1 DEF TryOK
<1>. QED
  BY <1>1, <1>2, <1>3, <1>8, <1>9, <1>10 DEF KInv

\* What preempting v does to the counters: it starts over, without blocks.
LEMMA PreemptCounters ==
  ASSUME KInv, NEW v \in Request, status[v] = "RUNNING", Preempt(v),
         out' = out, \A s \in Request : s # v => placeholders'[s] = placeholders[s],
         placeholders'[v] \in {placeholders[v], 0}, pc # "free", pc' # "free"
  PROVE  /\ [KVStep]_kvVars /\ Inv'
         /\ \A s \in Request : CountersOK(s)' /\ (Live(s)' => Live(s))
         /\ \A s \in Request : s # v => reqBlocks'[s] = reqBlocks[s] /\ computed'[s] = computed[s]
<1>1. /\ Free(v) /\ status' = [status EXCEPT ![v] = "PREEMPTED"]
      /\ computed' = [computed EXCEPT ![v] = 0]
  BY DEF Preempt
<1>2. [KVStep]_kvVars
  BY <1>1 DEF KVStep
<1>3. Inv'
  BY <1>2, CallerSound DEF KInv
<1>4. /\ status'[v] = "PREEMPTED" /\ computed'[v] = 0
      /\ \A s \in Request : s # v => /\ status'[s] = status[s] /\ computed'[s] = computed[s]
                                     /\ reqBlocks'[s] = reqBlocks[s]
  BY <1>1, Types DEF Free
<1>5. \A s \in Request : Live(s)' => Live(s)
  BY <1>4 DEF Live, Unfinished
<1>6. ASSUME NEW s \in Request, s # v
      PROVE  CountersOK(s)'
  <2>1. CountersOK(s)
    BY DEF KInv
  <2>. QED
    BY <1>4, <1>5, <1>6, <2>1, CountersKept
<1>7. CountersOK(v)'
  <2>1. CountersOK(v)
    BY DEF KInv
  <2>2. NumTokens(v)' = NumTokens(v) /\ NumTokens(v) \in Nat
    BY Types DEF NumTokens
  <2>0. computed[v] \in Int /\ placeholders[v] \in Int /\ MaxModelLen \in Nat
    BY Types
  <2>3. 0 <= MaxModelLen - 1 /\ placeholders'[v] >= 0
    BY <2>0, <2>1 DEF CountersOK, Fits
  <2>4. placeholders'[v] \in Int /\ (~AsyncScheduling => placeholders'[v] = 0)
    BY <2>0, <2>1 DEF CountersOK
  <2>5. Fits(v, 0)'
    BY <1>4, <2>2, <2>3, <2>4, Types, SMTT(30) DEF Fits
  <2>. QED
    BY <1>4, <1>5, <2>1, <2>2, <2>3, <2>4, <2>5 DEF CountersOK
<1>. QED
  BY <1>2, <1>3, <1>4, <1>5, <1>6, <1>7

\* reset_prefix_cache preempts: at most one token of the victim is on its way.
LEMMA ResetPreemptKV ==
  ASSUME KInv, ResetsFit, ResetPreempt
  PROVE  KInv' /\ [KVStep]_kvVars
<1>1. running # <<>> /\ running \in Seq(Request) /\ Distinct(running)
  BY Types DEF ResetPreempt, KInv, QInv, QueuesMatchStatus
<1>2. PICK v \in Request : v = running[Len(running)] /\ v \in Elements(running)
  BY <1>1, DropLastElements
<1>3. /\ pc = "reset" /\ Preempt(v)
      /\ placeholders' = [placeholders EXCEPT ![v] = 0]
      /\ discard' = [discard EXCEPT ![v] = TRUE]
      /\ UNCHANGED <<out, batches, pc, trying, scheduled, resets>>
  BY <1>2 DEF ResetPreempt, stepVars, scheduleVars
<1>4. QInv'
  BY ResetPreemptQueues DEF KInv
<1>5. status[v] = "RUNNING"
  BY <1>2 DEF KInv, QInv, QueuesMatchStatus
<1>6. /\ placeholders'[v] = 0 /\ discard'[v] /\ discard' \in [Request -> BOOLEAN]
      /\ \A s \in Request : s # v => placeholders'[s] = placeholders[s] /\ discard'[s] = discard[s]
  BY <1>3, Types DEF KInv
<1>7. /\ [KVStep]_kvVars /\ Inv'
      /\ \A s \in Request : CountersOK(s)' /\ (Live(s)' => Live(s))
  BY <1>3, <1>5, <1>6, PreemptCounters
<1>8. \A s \in Request : Awaited(s)' = Awaited(s)
  BY <1>3 DEF Awaited
<1>9. ASSUME NEW s \in Request PROVE AwaitedOK(s)'
  <2>1. CASE s # v
    BY <1>6, <1>7, <1>8, <2>1, AwaitedKept, Types DEF KInv
  <2>2. CASE s = v /\ AsyncScheduling
    <3>1. resets \in 1 .. MaxResets /\ MaxResets \in Nat
      BY <1>3, SchedulerAssumption DEF KInv
    <3>2. BatchQueueSize <= 2
      BY <2>2, <3>1 DEF ResetsFit
    <3>3. /\ batches \in Seq(Seq(Output)) /\ Len(batches) \in Nat /\ BatchQueueSize \in Nat
          /\ Len(batches) < BatchQueueSize
      BY <1>3, Types DEF KInv, BatchesOK
    <3>4. /\ Cardinality(Awaited(v)) \in Nat
          /\ Cardinality(Awaited(v)) <= Len(batches)
      BY <3>3, AwaitedFinite
    <3>5. Cardinality(Awaited(v)) <= 1
      BY <3>2, <3>3, <3>4
    <3>. QED
      BY <1>6, <1>8, <2>2, <3>5 DEF AwaitedOK
  <2>3. CASE ~AsyncScheduling
    BY <2>3 DEF AwaitedOK
  <2>. QED
    BY <2>1, <2>2, <2>3
<1>10. (\A i \in DOMAIN scheduled : GrantOK(scheduled[i]))' /\ TryOK' /\ BatchesOK'
  <2>1. scheduled = <<>>
    BY <1>3 DEF KInv, QInv, ControlOK, Scheduling
  <2>. QED
    BY <1>3, <2>1 DEF KInv, TryOK, BatchesOK
<1>. QED
  BY <1>3, <1>4, <1>6, <1>7, <1>9, <1>10 DEF KInv

\* When nothing runs nothing is held: the reset cannot fail.
LEMMA NothingHeld ==
  ASSUME KInv, running = <<>>
  PROVE  IsUnused(pool)
<1>1. Sound(pool, reqBlocks, numCached)
  BY DEF KInv, Inv
<1>2. \A r \in Request : reqBlocks[r] = <<>>
  BY DEF KInv, QInv, QueuesMatchStatus, Elements
<1>3. ASSUME NEW b \in Block \ {NullBlock}
      PROVE  b \in Elements(pool.free)
  <2>1. HoldersIn(reqBlocks, b) = {}
    BY <1>2 DEF HoldersIn, Elements
  <2>2. pool.refCnt[b] = 0
    BY <1>1, <2>1, FS_EmptySet DEF Sound, Counted
  <2>. QED
    BY <1>1, <2>2 DEF Sound, Counted
<1>4. pool.free \in Seq(Block) /\ Distinct(pool.free) /\ NullBlock \notin Elements(pool.free)
  BY <1>1 DEF Sound, Counted, Typed, Pool
<1>5. Elements(pool.free) = 1 .. NumBlocks - 1
  <2>1. Elements(pool.free) \subseteq Block
    BY <1>4 DEF Elements
  <2>2. Block \ {NullBlock} = 1 .. NumBlocks - 1
    BY SizeAssumption DEF Block, NullBlock
  <2>. QED
    BY <1>3, <1>4, <2>1, <2>2
<1>6. Len(pool.free) = Cardinality(Elements(pool.free))
  <2>. DEFINE q == pool.free
  <2>1. Len(q) \in Nat /\ DOMAIN q = 1 .. Len(q)
    BY <1>4
  <2>. DEFINE f == [i \in 1 .. Len(q) |-> q[i]]
  <2>2. f \in Bijection(1 .. Len(q), Elements(q))
    BY <1>4, <2>1 DEF Elements, Distinct, Bijection, Injection, IsInjective, Surjection
  <2>3. ExistsBijection(1 .. Len(q), Elements(q))
    BY <2>2 DEF ExistsBijection
  <2>. HIDE DEF q, f
  <2>4. Cardinality(Elements(q)) = Len(q)
    BY <2>1, <2>3, FS_CountingElements
  <2>. QED
    BY <2>4 DEF q
<1>7. Cardinality(1 .. NumBlocks - 1) = NumBlocks - 1 /\ NumBlocks \in Nat \ {0}
  <2>1. NumBlocks - 1 \in Nat /\ NumBlocks \in Nat \ {0}
    BY SizeAssumption
  <2>. QED
    BY <2>1, IntervalSize
<1>8. Len(pool.free) = NumBlocks - 1 /\ NumBlocks \in Nat \ {0}
  BY <1>5, <1>6, <1>7
<1>. QED
  BY <1>8 DEF IsUnused, NumFreeBlocks

\* reset_prefix_cache resets the pool when the last request is preempted.
LEMMA ResetFinishKV ==
  ASSUME KInv, ResetFinish
  PROVE  KInv' /\ [KVStep]_kvVars
<1>1. /\ pc = "reset" /\ pc' = "idle" /\ running = <<>>
      /\ UNCHANGED <<status, computed, out, placeholders, discard, waiting, running, batches,
                     idx, budget, trying, scheduled, resets>>
  BY DEF ResetFinish, reqVars, queueVars, scheduleVars
<1>2. IsUnused(pool)
  BY <1>1, NothingHeld
<1>3. Reset /\ UNCHANGED reqBlocks
  BY <1>2 DEF ResetFinish, Reset
<1>4. [KVStep]_kvVars
  BY <1>3 DEF KVStep
<1>5. QInv'
  <2>1. QInv /\ budget \in Int /\ idx \in Int /\ idx = 1
    BY <1>1, Types DEF KInv, QInv, LoopOK, Scheduling
  <2>. QED
    BY <1>1, <1>3, <2>1, MoveQueues DEF Scheduling
<1>6. resets' \in 0 .. MaxResets
  BY <1>1 DEF KInv
<1>. QED
  BY <1>1, <1>3, <1>4, <1>5, <1>6, MoveKV

\* The number of tokens that is tried fits.
LEMMA TryRunningKV ==
  ASSUME KInv, NEW r \in Request, TryRunning(r)
  PROVE  KInv' /\ [KVStep]_kvVars
<1>. DEFINE n == NumNewTokens(r)
            t == Capped((NumTokens(r) + placeholders[r]) - computed[r])
<1>1. /\ pc = "running" /\ budget > 0 /\ n # 0 /\ pc' = "allocate"
      /\ trying' = <<[req |-> r, n |-> n]>>
      /\ UNCHANGED <<kvVars, reqBlocks, status, computed, out, placeholders, discard,
                     batches, scheduled, resets>>
  BY DEF TryRunning, Visiting, kvVars, reqVars
<1>2. /\ computed[r] \in Int /\ placeholders[r] \in Int /\ NumTokens(r) \in Nat
      /\ budget \in Int /\ MaxModelLen \in Nat /\ LongPrefill \in Nat
  BY Types, SchedulerAssumption
<1>3. computed[r] <= MaxModelLen - 1 /\ computed[r] <= NumTokens(r) + placeholders[r]
  BY <1>2 DEF KInv, CountersOK, Fits
<1>4. t \in Int /\ 0 <= t /\ t <= (NumTokens(r) + placeholders[r]) - computed[r]
  BY <1>2, <1>3 DEF Capped
<1>5. n = Min2(Min2(t, budget), (MaxModelLen - 1) - computed[r])
  <2>1. /\ NumTokens(r) + placeholders[r] - computed[r]
             = (NumTokens(r) + placeholders[r]) - computed[r]
        /\ MaxModelLen - 1 - computed[r] = (MaxModelLen - 1) - computed[r]
    BY <1>2
  <2>. QED
    BY <2>1 DEF NumNewTokens
<1>. HIDE DEF n, t
<1>6. n \in Int /\ n >= 0 /\ n <= t /\ n <= (MaxModelLen - 1) - computed[r]
  BY <1>1, <1>2, <1>3, <1>4, <1>5 DEF Min2
<1>7. n >= 1 /\ computed[r] + n <= MaxModelLen - 1 /\ computed[r] + n <= NumTokens(r) + placeholders[r]
  BY <1>1, <1>2, <1>4, <1>6
<1>8. TryOK'
  <2>1. trying'[1] = [req |-> r, n |-> n]
    BY <1>1
  <2>2. trying'[1].req = r /\ trying'[1].n = n
    BY <2>1
  <2>3. NumTokens(r)' = NumTokens(r)
    BY <1>1 DEF NumTokens
  <2>4. Fits(trying[1].req, trying[1].n)'
    BY <1>1, <1>7, <2>2, <2>3 DEF Fits
  <2>. QED
    BY <1>7, <2>2, <2>4 DEF TryOK
<1>9. QInv'
  BY TryRunningQueues DEF KInv
<1>10. resets' \in 0 .. MaxResets
  BY <1>1 DEF KInv
<1>. QED
  BY <1>1, <1>8, <1>9, <1>10, MoveKV DEF Scheduling

\* Blocks run out: the victim gives back what this step gave it.
LEMMA PreemptVictimKV ==
  ASSUME KInv, PreemptVictim
  PROVE  KInv' /\ [KVStep]_kvVars
<1>1. /\ QInv'
      /\ Victim \in Request /\ Victim \in Elements(running)
      /\ \A i \in DOMAIN scheduled' : /\ scheduled'[i].req # Victim
                                      /\ \E k \in DOMAIN scheduled : scheduled[k] = scheduled'[i]
  BY PreemptVictimQueues DEF KInv
<1>2. PICK v \in Request : v = Victim
  BY <1>1
<1>3. PICK r \in Request : r = trying[1].req
  BY TryingFacts DEF KInv, PreemptVictim
<1>4. /\ pc = "allocate" /\ Preempt(v)
      /\ IF v = r THEN pc' = "finish" /\ trying' = <<>> ELSE UNCHANGED <<pc, trying>>
      /\ UNCHANGED <<out, placeholders, discard, batches, resets>>
  BY <1>2, <1>3 DEF PreemptVictim
<1>5. status[v] = "RUNNING"
  BY <1>1, <1>2 DEF KInv, QInv, QueuesMatchStatus
<1>6. /\ [KVStep]_kvVars /\ Inv'
      /\ \A s \in Request : CountersOK(s)' /\ (Live(s)' => Live(s))
      /\ \A s \in Request : s # v => reqBlocks'[s] = reqBlocks[s] /\ computed'[s] = computed[s]
  BY <1>4, <1>5, PreemptCounters
<1>7. ASSUME NEW s \in Request PROVE AwaitedOK(s)'
  <2>1. Awaited(s)' = Awaited(s)
    BY <1>4 DEF Awaited
  <2>. QED
    BY <1>4, <1>6, <2>1, AwaitedKept, Types DEF KInv
<1>8. (\A i \in DOMAIN scheduled : GrantOK(scheduled[i]))'
  <2>. SUFFICES ASSUME NEW g \in Grant, NEW i \in DOMAIN scheduled', scheduled'[i] = g
                PROVE  GrantOK(g)'
    BY <1>1, GrantsFollow DEF QInv, Shape
  <2>1. g.req # v /\ g.req \in Request
    BY <1>1, <1>2 DEF Grant
  <2>2. PICK k \in DOMAIN scheduled : scheduled[k] = g
    BY <1>1
  <2>3. GrantOK(g)
    BY <2>2 DEF KInv
  <2>. QED
    BY <1>4, <1>6, <2>1, <2>3, GrantKept
<1>9. TryOK'
  <2>. SUFFICES ASSUME pc' = "allocate"
                PROVE  trying'[1].n >= 1 /\ Fits(trying[1].req, trying[1].n)'
    BY DEF TryOK
  <2>1. v # r /\ trying' = trying
    BY <1>4
  <2>2. trying[1].n >= 1 /\ Fits(trying[1].req, trying[1].n)
    BY <1>4 DEF KInv, TryOK
  <2>. QED
    BY <1>3, <1>4, <1>6, <2>1, <2>2 DEF Fits, NumTokens
<1>10. BatchesOK'
  BY <1>4 DEF KInv, BatchesOK, Scheduling
<1>. QED
  BY <1>1, <1>4, <1>6, <1>7, <1>8, <1>9, <1>10 DEF KInv

\* The tokens of a live request, and the one it may get next, have their places
\* in its stream.
LEMMA StreamCovers ==
  ASSUME KInv, NEW r \in Request, Live(r)
  PROVE  /\ NumTokens(r) \in 1 .. Len(Stream[r]) /\ NumTokens(r) + 1 <= Len(Stream[r])
         /\ NumTokens(r) <= MaxModelLen - 1 /\ Len(Stream[r]) \in Nat
<1>1. Len(out[r]) < MaxTokens[r] /\ NumTokens(r) <= MaxModelLen - 1
  BY DEF KInv, CountersOK
<1>2. /\ NumTokens(r) \in Nat /\ NumTokens(r) >= 1 /\ PromptLen[r] \in Nat /\ MaxTokens[r] \in Nat
      /\ Len(out[r]) \in Nat /\ MaxModelLen \in Nat
  BY Types
<1>3. Len(Stream[r]) >= Min2(PromptLen[r] + MaxTokens[r], MaxModelLen) /\ Len(Stream[r]) \in Nat
  BY SchedulerAssumption, StreamAssumption
<1>4. NumTokens(r) = PromptLen[r] + Len(out[r])
  BY DEF NumTokens
<1>5. NumTokens(r) + 1 <= Min2(PromptLen[r] + MaxTokens[r], MaxModelLen)
  BY <1>1, <1>2, <1>4 DEF Min2
<1>6. NumTokens(r) + 1 <= Len(Stream[r])
  <2>. DEFINE m == Min2(PromptLen[r] + MaxTokens[r], MaxModelLen)
  <2>1. m \in Int /\ Len(Stream[r]) >= m /\ NumTokens(r) + 1 <= m
    BY <1>2, <1>3, <1>5 DEF Min2
  <2>. HIDE DEF m
  <2>. QED
    BY <1>2, <1>3, <2>1
<1>. QED
  BY <1>1, <1>2, <1>3, <1>6

\* allocate_slots as the scheduler calls it keeps the contract of the manager,
\* and the table then reaches to the last token of the grant.
LEMMA AllocateKV ==
  ASSUME KInv, NEW r \in Request, Live(r), NEW hits, NEW c \in Nat, NEW n \in Nat \ {0},
         c + n <= MaxModelLen - 1, Allocate(r, hits, c, n),
         hits = IF reqBlocks[r] = <<>> THEN Hits(r) ELSE <<>>, Len(hits) * BlockSize <= c,
         Len(hits) \in Nat
  PROVE  /\ [KVStep]_kvVars /\ Inv'
         /\ reqBlocks'[r] # <<>> /\ c + n <= Len(reqBlocks'[r]) * BlockSize
         /\ \A s \in Request : s # r => reqBlocks'[s] = reqBlocks[s]
<1>. DEFINE t == NumTokens(r)
<1>1. /\ t \in 1 .. Len(Stream[r]) /\ t \in Nat \ {0} /\ Len(Stream[r]) \in Nat
      /\ MaxModelLen \in Nat /\ BlockSize \in Nat \ {0}
  BY StreamCovers, Types
<1>2. Sound(pool, reqBlocks, numCached) /\ Inv
  BY DEF KInv, Inv
<1>3. AllocateSlots(r, hits, NeedSlot(c, n), Min2(c + n, t))
  BY DEF Allocate
<1>. HIDE DEF t
<1>4. NeedSlot(c, n) = c + n /\ c + n \in 1 .. MaxModelLen
  BY <1>1 DEF NeedSlot, Min2
<1>5. AllocateSlots(r, hits, c + n, Min2(c + n, t))
  BY <1>3, <1>4
<1>6. hits = IF reqBlocks[r] = <<>> THEN GetComputedBlocks(r, t) ELSE <<>>
  BY DEF Hits, t
<1>7. c + n > Len(hits) * BlockSize
  BY <1>1
<1>8. AllocateFor(r)
  BY <1>1, <1>4, <1>5, <1>6, <1>7 DEF AllocateFor
<1>9. [KVStep]_kvVars
  BY <1>8 DEF KVStep
<1>10. Inv'
  BY <1>2, <1>9, CallerSound
<1>11. IsHit(pool, r, hits)
  <2>1. CASE reqBlocks[r] = <<>>
    BY <1>1, <1>2, <1>6, <2>1, HitsAreHits
  <2>2. CASE reqBlocks[r] # <<>>
    BY <1>6, <2>2 DEF IsHit
  <2>. QED
    BY <2>1, <2>2
<1>12. Min2(c + n, t) \in Nat /\ Min2(c + n, t) <= c + n /\ Min2(c + n, t) <= Len(Stream[r])
  BY <1>1 DEF Min2
<1>13. hits = <<>> \/ reqBlocks[r] = <<>>
  BY <1>6
<1>14. c + n \in Nat
  OBVIOUS
<1>15. Len(reqBlocks'[r]) * BlockSize >= c + n
  BY <1>2, <1>5, <1>11, <1>12, <1>13, <1>14, AllocateSound
<1>16. reqBlocks'[r] \in Seq(Block)
  BY <1>10 DEF Inv, Sound, Typed
<1>17. reqBlocks'[r] # <<>>
  <2>. SUFFICES ASSUME reqBlocks'[r] = <<>> PROVE FALSE
    OBVIOUS
  <2>1. Len(reqBlocks'[r]) = 0
    OBVIOUS
  <2>2. 0 * BlockSize = 0
    BY <1>1
  <2>. QED
    BY <1>14, <1>15, <2>1, <2>2
<1>18. Len(reqBlocks'[r]) \in Nat /\ Len(reqBlocks'[r]) * BlockSize \in Nat
  BY <1>1, <1>16
<1>19. \A s \in Request : s # r => reqBlocks'[s] = reqBlocks[s]
  BY AllocateTables DEF KInv, QInv, Shape
<1>. QED
  BY <1>9, <1>10, <1>14, <1>15, <1>17, <1>18, <1>19

\* A running request gets its slots.
LEMMA ScheduleRunningKV ==
  ASSUME KInv, ScheduleRunning
  PROVE  KInv' /\ [KVStep]_kvVars
<1>1. pc = "allocate"
  BY DEF ScheduleRunning
<1>2. PICK g \in Grant : g = trying[1]
  BY <1>1, TryingFacts DEF KInv
<1>3. PICK r \in Request, n \in Int : r = g.req /\ n = g.n
  BY DEF Grant
<1>4. /\ Allocate(r, <<>>, computed[r], n)
      /\ scheduled' = Append(scheduled, g) /\ pc' = "running"
      /\ UNCHANGED <<status, computed, out, placeholders, discard, batches, resets>>
  BY <1>2, <1>3 DEF ScheduleRunning, reqVars
<1>5. QInv' /\ QInv
  BY ScheduleRunningQueues DEF KInv
<1>6. /\ status[r] = "RUNNING"
  BY <1>1, <1>2, <1>3, <1>5, TryingFacts
<1>7. n >= 1 /\ Fits(r, n)
  BY <1>1, <1>2, <1>3 DEF KInv, TryOK
<1>8. Live(r) /\ CountersOK(r) /\ computed[r] \in Int /\ MaxModelLen \in Nat
  BY <1>1, <1>6, Types DEF KInv, Live, Unfinished
<1>9. /\ computed[r] \in Nat /\ n \in Nat \ {0} /\ computed[r] + n <= MaxModelLen - 1
      /\ reqBlocks[r] # <<>>
  BY <1>6, <1>7, <1>8 DEF CountersOK, Fits
<1>10. /\ [KVStep]_kvVars /\ Inv'
       /\ reqBlocks'[r] # <<>> /\ computed[r] + n <= Len(reqBlocks'[r]) * BlockSize
       /\ \A s \in Request : s # r => reqBlocks'[s] = reqBlocks[s]
  <2>1. Len(<<>>) * BlockSize = 0 /\ Len(<<>>) = 0
    BY Types
  <2>. DEFINE hits == <<>>
  <2>2. /\ Allocate(r, hits, computed[r], n) /\ Len(hits) * BlockSize <= computed[r]
        /\ Len(hits) \in Nat
        /\ hits = IF reqBlocks[r] = <<>> THEN Hits(r) ELSE <<>>
    BY <1>4, <1>9, <2>1
  <2>. HIDE DEF hits
  <2>. QED
    BY <1>8, <1>9, <2>2, AllocateKV
<1>11. \A s \in Request : (Live(s)' => Live(s)) /\ Awaited(s)' = Awaited(s)
  BY <1>1, <1>4 DEF Live, Awaited
<1>12. ASSUME NEW s \in Request PROVE AwaitedOK(s)'
  BY <1>4, <1>11, AwaitedKept, Types DEF KInv
<1>13. ASSUME NEW s \in Request PROVE CountersOK(s)'
  <2>1. CASE s # r
    BY <1>4, <1>10, <1>11, <2>1, CountersKept DEF KInv
  <2>2. CASE s = r
    <3>1. NumTokens(r)' = NumTokens(r)
      BY <1>4 DEF NumTokens
    <3>2. Fits(r, 0)' <=> Fits(r, 0)
      BY <1>4, <3>1 DEF Fits
    <3>3. Slots(r)' = Len(reqBlocks'[r]) * BlockSize /\ reqBlocks'[r] \in Seq(Block)
      BY <1>10 DEF Slots, Inv, Sound, Typed
    <3>4. Slots(r)' \in Nat
      <4>1. Len(reqBlocks'[r]) \in Nat /\ BlockSize \in Nat
        BY <3>3, SizeAssumption
      <4>. QED
        BY <3>3, <4>1
    <3>5. computed'[r] <= Slots(r)'
      BY <1>4, <1>9, <1>10, <3>3, <3>4
    <3>. QED
      BY <1>4, <1>8, <1>10, <1>11, <2>2, <3>1, <3>2, <3>5 DEF CountersOK
  <2>. QED
    BY <2>1, <2>2
<1>14. (\A i \in DOMAIN scheduled : GrantOK(scheduled[i]))'
  <2>. SUFFICES ASSUME NEW h \in Grant, NEW i \in DOMAIN scheduled', scheduled'[i] = h
                PROVE  GrantOK(h)'
    BY <1>5, GrantsFollow DEF QInv, Shape
  <2>1. scheduled \in Seq(Grant)
    BY Types
  <2>2. h = g \/ \E k \in DOMAIN scheduled : scheduled[k] = h
    BY <1>4, <2>1, GrantFacts
  <2>3. CASE h = g
    <3>1. NumTokens(r)' = NumTokens(r) /\ Slots(r)' = Len(reqBlocks'[r]) * BlockSize
      BY <1>4 DEF NumTokens, Slots
    <3>2. Fits(r, n)'
      BY <1>4, <1>7, <3>1 DEF Fits
    <3>. QED
      BY <1>3, <1>4, <1>7, <1>10, <2>3, <3>1, <3>2 DEF GrantOK
  <2>4. CASE h # g /\ \E k \in DOMAIN scheduled : scheduled[k] = h
    <3>1. PICK k \in DOMAIN scheduled : scheduled[k] = h
      BY <2>4
    <3>2. h.req # r /\ h.req \in Request
      BY <1>1, <1>2, <1>3, <1>5, <3>1 DEF QInv, LoopOK, Grant
    <3>3. GrantOK(h)
      BY <3>1 DEF KInv
    <3>. QED
      BY <1>4, <1>10, <3>2, <3>3, GrantKept
  <2>. QED
    BY <2>2, <2>3, <2>4
<1>15. TryOK' /\ BatchesOK'
  BY <1>1, <1>4 DEF KInv, TryOK, BatchesOK, Scheduling
<1>. QED
  BY <1>4, <1>5, <1>10, <1>12, <1>13, <1>14, <1>15 DEF KInv

\* The head of the waiting queue is admitted, with the blocks its prefix hits.
LEMMA ScheduleWaitingKV ==
  ASSUME KInv, NEW r \in Request, ScheduleWaiting(r)
  PROVE  KInv' /\ [KVStep]_kvVars
<1>0. PICK c \in Nat, n \in Int : c = NumHitTokens(r) /\ n = Min2(NumPrefill(r), budget)
  <2>1. NumHitTokens(r) \in Nat /\ NumPrefill(r) \in Int /\ budget \in Int
    BY PrefillFacts, Types, SMTT(30)
  <2>. QED
    BY <2>1, MinFacts
<1>. DEFINE g == [req |-> r, n |-> n]
<1>1. /\ pc = "waiting" /\ pc' = "waiting" /\ waiting # <<>> /\ r = waiting[1] /\ budget > 0
      /\ Allocate(r, Hits(r), c, n)
      /\ status' = [status EXCEPT ![r] = "RUNNING"]
      /\ computed' = [computed EXCEPT ![r] = c]
      /\ scheduled' = Append(scheduled, g)
      /\ UNCHANGED <<out, placeholders, discard, batches, resets>>
  BY <1>0 DEF ScheduleWaiting, Admissible
<1>2. QInv' /\ QInv
  BY ScheduleWaitingQueues DEF KInv
<1>3. status[r] \in {"WAITING", "PREEMPTED"} /\ reqBlocks[r] = <<>>
  <2>1. r \in Elements(waiting)
    BY <1>1, <1>2, TailElements DEF QInv, QueuesMatchStatus, Shape
  <2>. QED
    BY <1>2, <2>1 DEF QInv, QueuesMatchStatus
<1>4. Live(r)
  BY <1>1, <1>3 DEF Live, Unfinished
<1>5. /\ NumTokens(r) \in Nat /\ NumTokens(r) <= MaxModelLen - 1 /\ MaxModelLen \in Nat
      /\ budget \in Int /\ Len(Hits(r)) \in Nat /\ c = Len(Hits(r)) * BlockSize
      /\ c \in Nat /\ c <= NumTokens(r) - 1 /\ NumPrefill(r) \in 1 .. NumTokens(r) - c
  BY <1>0, <1>4, StreamCovers, PrefillFacts, Types DEF NumHitTokens
<1>6. n \in Nat \ {0} /\ n <= NumTokens(r) - c
  BY <1>0, <1>1, <1>5 DEF Min2
<1>7. c + n <= NumTokens(r) /\ c + n <= MaxModelLen - 1 /\ c <= MaxModelLen - 1
  BY <1>5, <1>6
<1>8. /\ [KVStep]_kvVars /\ Inv'
      /\ reqBlocks'[r] # <<>> /\ c + n <= Len(reqBlocks'[r]) * BlockSize
      /\ \A s \in Request : s # r => reqBlocks'[s] = reqBlocks[s]
  <2>1. Len(Hits(r)) * BlockSize <= c
    BY <1>5
  <2>. QED
    BY <1>1, <1>3, <1>4, <1>5, <1>6, <1>7, <2>1, AllocateKV
<1>9. /\ status'[r] = "RUNNING" /\ computed'[r] = c
      /\ \A s \in Request : s # r => status'[s] = status[s] /\ computed'[s] = computed[s]
  BY <1>1, Types
<1>10. \A s \in Request : (Live(s)' => Live(s)) /\ Awaited(s)' = Awaited(s)
  BY <1>1, <1>4, <1>9 DEF Live, Awaited
<1>11. ASSUME NEW s \in Request PROVE AwaitedOK(s)'
  BY <1>1, <1>10, AwaitedKept, Types DEF KInv
<1>12. CountersOK(r) /\ placeholders[r] \in Int /\ placeholders[r] >= 0
  BY Types DEF KInv, CountersOK
<1>13. NumTokens(r)' = NumTokens(r) /\ Slots(r)' = Len(reqBlocks'[r]) * BlockSize
  BY <1>1 DEF NumTokens, Slots
<1>14. Slots(r)' \in Nat
  <2>1. reqBlocks'[r] \in Seq(Block)
    BY <1>8 DEF Inv, Sound, Typed
  <2>2. Len(reqBlocks'[r]) \in Nat /\ BlockSize \in Nat
    BY <2>1, SizeAssumption
  <2>. QED
    BY <1>13, <2>2
<1>15. computed'[r] + n <= Slots(r)' /\ computed'[r] <= Slots(r)'
  BY <1>5, <1>6, <1>8, <1>9, <1>13, <1>14
<1>16. /\ c + n <= NumTokens(r) + placeholders[r] /\ c <= NumTokens(r) + placeholders[r]
  BY <1>5, <1>6, <1>7, <1>12, SMTT(30)
<1>17. Fits(r, 0)' /\ Fits(r, n)'
  <2>1. c + 0 = c
    BY <1>5
  <2>. QED
    BY <1>1, <1>7, <1>9, <1>13, <1>16, <2>1 DEF Fits
<1>18. ASSUME NEW s \in Request PROVE CountersOK(s)'
  <2>1. CASE s # r
    BY <1>1, <1>8, <1>9, <1>10, <2>1, CountersKept DEF KInv
  <2>2. CASE s = r
    BY <1>1, <1>5, <1>8, <1>9, <1>10, <1>12, <1>13, <1>15, <1>17, <2>2 DEF CountersOK
  <2>. QED
    BY <2>1, <2>2
<1>19. g \in Grant /\ g.req = r /\ g.n = n
  BY <1>0 DEF Grant
<1>. HIDE DEF g
<1>20. (\A i \in DOMAIN scheduled : GrantOK(scheduled[i]))'
  <2>. SUFFICES ASSUME NEW h \in Grant, NEW i \in DOMAIN scheduled', scheduled'[i] = h
                PROVE  GrantOK(h)'
    BY <1>2, GrantsFollow DEF QInv, Shape
  <2>1. scheduled \in Seq(Grant)
    BY Types
  <2>2. h = g \/ \E k \in DOMAIN scheduled : scheduled[k] = h
    BY <1>1, <1>19, <2>1, GrantFacts
  <2>3. CASE h = g
    <3>1. h.req = r /\ h.n = n
      BY <1>19, <2>3
    <3>. QED
      BY <1>6, <1>15, <1>17, <3>1 DEF GrantOK
  <2>4. CASE \E k \in DOMAIN scheduled : scheduled[k] = h
    <3>1. PICK k \in DOMAIN scheduled : scheduled[k] = h
      BY <2>4
    <3>2. status[h.req] = "RUNNING" /\ h.req \in Request
      BY <1>2, <3>1 DEF QInv, ControlOK, Grant
    <3>3. h.req # r
      BY <1>3, <3>2
    <3>4. GrantOK(h)
      BY <3>1 DEF KInv
    <3>. QED
      BY <1>1, <1>8, <1>9, <3>2, <3>3, <3>4, GrantKept
  <2>. QED
    BY <2>2, <2>3, <2>4
<1>21. TryOK' /\ BatchesOK'
  BY <1>1 DEF KInv, TryOK, BatchesOK, Scheduling
<1>. QED
  BY <1>1, <1>2, <1>8, <1>11, <1>18, <1>20, <1>21 DEF KInv

\* What a step schedules of a request: something that fits, or nothing.
LEMMA NumScheduledFits ==
  ASSUME KInv, NEW r \in Request
  PROVE  /\ NumScheduled(r) \in Nat /\ Fits(r, NumScheduled(r))
         /\ status[r] = "RUNNING" => computed[r] + NumScheduled(r) <= Slots(r)
         /\ \A i \in DOMAIN scheduled : scheduled[i].req = r => NumScheduled(r) >= 1
<1>. DEFINE n == NumScheduled(r)
<1>1. scheduled \in Seq(Grant) /\ computed[r] \in Int
  BY Types
<1>2. \/ n = 0 /\ \A i \in DOMAIN scheduled : scheduled[i].req # r
      \/ n \in Int /\ \E i \in DOMAIN scheduled : scheduled[i] = [req |-> r, n |-> n]
  BY <1>1, ScheduledFacts
<1>. HIDE DEF n
<1>3. CASE n = 0 /\ \A i \in DOMAIN scheduled : scheduled[i].req # r
  <2>1. CountersOK(r) /\ computed[r] + 0 = computed[r]
    BY <1>1 DEF KInv
  <2>2. Fits(r, n) /\ n \in Nat /\ (status[r] = "RUNNING" => computed[r] + n <= Slots(r))
    BY <1>3, <2>1 DEF CountersOK
  <2>. QED
    BY <1>3, <2>2 DEF n
<1>4. CASE n \in Int /\ \E i \in DOMAIN scheduled : scheduled[i] = [req |-> r, n |-> n]
  <2>1. PICK i \in DOMAIN scheduled : scheduled[i] = [req |-> r, n |-> n]
    BY <1>4
  <2>2. GrantOK(scheduled[i])
    BY DEF KInv
  <2>3. scheduled[i].req = r /\ scheduled[i].n = n
    BY <2>1
  <2>4. n >= 1 /\ Fits(r, n) /\ computed[r] + n <= Slots(r)
    BY <2>2, <2>3 DEF GrantOK
  <2>5. n \in Nat
    BY <1>4, <2>4
  <2>. QED
    BY <2>4, <2>5 DEF n
<1>. QED
  BY <1>2, <1>3, <1>4

\* The batch is dispatched: what it will return has its placeholder.
LEMMA FinishScheduleKV ==
  ASSUME KInv, FinishSchedule
  PROVE  KInv' /\ [KVStep]_kvVars
<1>1. /\ pc = "finish" /\ pc' \in {"collect", "idle"}
      /\ pc' = "idle" => Len(batches) + 1 < BatchQueueSize
      /\ computed' = [r \in Request |-> computed[r] + NumScheduled(r)]
      /\ placeholders' = [r \in Request |-> PlaceholdersAfter(r)]
      /\ scheduled' = <<>>
      /\ UNCHANGED <<kvVars, reqBlocks, status, out, discard, resets>>
  BY DEF FinishSchedule, kvVars
<1>2. /\ QInv' /\ QInv
      /\ Len(batches') = Len(batches) + 1 /\ DOMAIN batches = 1 .. Len(batches)
      /\ \A i \in DOMAIN batches : batches'[i] = batches[i]
      /\ batches'[Len(batches) + 1] = [i \in DOMAIN scheduled |->
           [req |-> scheduled[i].req, pos |-> SampledPosition(scheduled[i].req)]]
  BY FinishScheduleQueues DEF KInv
<1>3. Inv' /\ [KVStep]_kvVars
  BY <1>1, CallerSound DEF KInv
<1>4. /\ Len(batches) \in Nat /\ Len(batches) < BatchQueueSize /\ BatchQueueSize \in Nat
      /\ BatchesOK /\ batches \in Seq(Seq(Output)) /\ batches' \in Seq(Seq(Output))
  BY <1>1, <1>2, Types DEF KInv, BatchesOK, Scheduling, QInv, Shape
<1>. DEFINE L == Len(batches)
<1>5. DOMAIN batches' = 1 .. L + 1 /\ DOMAIN batches = 1 .. L /\ L \in Nat
  BY <1>2, <1>4
<1>. HIDE DEF L
<1>6. \A i \in DOMAIN batches' : i = L + 1 \/ (i \in DOMAIN batches /\ batches'[i] = batches[i])
  BY <1>2, <1>5
<1>7. /\ DOMAIN batches'[L + 1] = DOMAIN scheduled
      /\ \A j \in DOMAIN scheduled :
           /\ batches'[L + 1][j].req = scheduled[j].req
           /\ batches'[L + 1][j].pos = SampledPosition(scheduled[j].req)
  BY <1>2 DEF L
<1>8. ASSUME NEW r \in Request
      PROVE  /\ computed'[r] = computed[r] + NumScheduled(r)
             /\ placeholders'[r] \in {placeholders[r], placeholders[r] + 1}
             /\ ~AsyncScheduling => placeholders'[r] = placeholders[r]
             /\ NumScheduled(r) \in Nat /\ computed[r] \in Int /\ placeholders[r] \in Int
             /\ placeholders'[r] \in Int
  BY <1>1, NumScheduledFits, Types, SMTT(30) DEF PlaceholdersAfter
<1>9. ASSUME NEW r \in Request PROVE CountersOK(r)'
  <2>1. CountersOK(r) /\ (Live(r)' => Live(r)) /\ NumTokens(r)' = NumTokens(r)
    BY <1>1 DEF KInv, Live, NumTokens
  <2>2. /\ Fits(r, NumScheduled(r)) /\ NumTokens(r) \in Nat /\ MaxModelLen \in Nat
        /\ status[r] = "RUNNING" => computed[r] + NumScheduled(r) <= Slots(r)
    BY NumScheduledFits, Types
  <2>3. Fits(r, 0)'
    BY <1>8, <2>1, <2>2 DEF Fits
  <2>4. Slots(r)' = Slots(r)
    BY <1>1 DEF Slots
  <2>5. placeholders'[r] >= 0 /\ computed'[r] >= 0
    BY <1>8, <2>1 DEF CountersOK
  <2>. QED
    BY <1>1, <1>8, <2>1, <2>2, <2>3, <2>4, <2>5 DEF CountersOK
<1>10. ASSUME NEW r \in Request PROVE AwaitedOK(r)'
  <2>. SUFFICES ASSUME AsyncScheduling, Live(r)'
                PROVE  Cardinality(Awaited(r)') <= placeholders'[r] + (IF discard'[r] THEN 1 ELSE 0)
    BY DEF AwaitedOK
  <2>1. AwaitedOK(r) /\ Live(r) /\ discard'[r] = discard[r]
    BY <1>1 DEF KInv, Live
  <2>2. /\ Cardinality(Awaited(r)) <= placeholders[r] + (IF discard[r] THEN 1 ELSE 0)
        /\ Cardinality(Awaited(r)) \in Nat /\ IsFiniteSet(Awaited(r))
    BY <1>4, <2>1, AwaitedFinite DEF AwaitedOK
  <2>3. CASE \E j \in DOMAIN scheduled : scheduled[j].req = r /\ SampledPosition(r) > 0
    <3>1. NumScheduled(r) >= 1 /\ ~IsPrefillChunk(r)
      BY <2>3, NumScheduledFits DEF SampledPosition
    <3>2. placeholders'[r] = placeholders[r] + 1
      BY <1>1, <1>8, <3>1 DEF PlaceholdersAfter
    <3>3. Awaited(r)' \subseteq Awaited(r) \cup {L + 1}
      BY <1>6 DEF Awaited
    <3>4. /\ IsFiniteSet(Awaited(r) \cup {L + 1})
          /\ Cardinality(Awaited(r) \cup {L + 1}) \in
               {Cardinality(Awaited(r)), Cardinality(Awaited(r)) + 1}
      BY <2>2, FS_AddElement
    <3>5. /\ IsFiniteSet(Awaited(r)')
          /\ Cardinality(Awaited(r)') <= Cardinality(Awaited(r) \cup {L + 1})
      BY <3>3, <3>4, FS_Subset
    <3>6. Cardinality(Awaited(r)') \in Nat
      BY <3>5, FS_CardinalityType
    <3>. QED
      BY <1>8, <2>1, <2>2, <3>2, <3>4, <3>5, <3>6
  <2>4. CASE ~ \E j \in DOMAIN scheduled : scheduled[j].req = r /\ SampledPosition(r) > 0
    <3>1. L + 1 \notin Awaited(r)'
      BY <1>7, <2>4 DEF Awaited
    <3>2. Awaited(r)' \subseteq Awaited(r)
      BY <1>6, <3>1 DEF Awaited
    <3>3. IsFiniteSet(Awaited(r)') /\ Cardinality(Awaited(r)') <= Cardinality(Awaited(r))
      BY <2>2, <3>2, FS_Subset
    <3>4. Cardinality(Awaited(r)') \in Nat
      BY <3>3, FS_CardinalityType
    <3>. QED
      BY <1>8, <2>1, <2>2, <3>3, <3>4
  <2>. QED
    BY <2>3, <2>4
<1>11. BatchesOK'
  <2>1. \A j, k \in DOMAIN scheduled : scheduled[j].req = scheduled[k].req => j = k
    BY <1>2 DEF QInv, LoopOK
  <2>2. \A i \in DOMAIN batches' : \A j, k \in DOMAIN batches'[i] :
          batches'[i][j].req = batches'[i][k].req => j = k
    <3>. SUFFICES ASSUME NEW i \in DOMAIN batches', NEW j \in DOMAIN batches'[i],
                         NEW k \in DOMAIN batches'[i],
                         batches'[i][j].req = batches'[i][k].req
                  PROVE  j = k
      OBVIOUS
    <3>1. CASE i = L + 1
      BY <1>7, <2>1, <3>1, Zenon
    <3>2. CASE i \in DOMAIN batches /\ batches'[i] = batches[i]
      BY <1>4, <3>2, Zenon DEF BatchesOK
    <3>. QED
      BY <1>6, <3>1, <3>2
  <2>3. \A j \in DOMAIN scheduled : SampledPosition(scheduled[j].req) >= 0
    <3>. SUFFICES ASSUME NEW j \in DOMAIN scheduled
                  PROVE  SampledPosition(scheduled[j].req) >= 0
      OBVIOUS
    <3>1. scheduled[j] \in Grant
      BY Types
    <3>2. PICK r \in Request : r = scheduled[j].req
      BY <3>1 DEF Grant
    <3>3. CountersOK(r)
      BY DEF KInv
    <3>4. computed[r] >= 0 /\ computed[r] \in Int /\ NumScheduled(r) \in Nat
      BY <1>8, <3>3 DEF CountersOK
    <3>. QED
      BY <3>2, <3>4 DEF SampledPosition
  <2>4. \A i \in DOMAIN batches' : \A j \in DOMAIN batches'[i] : batches'[i][j].pos >= 0
    <3>. SUFFICES ASSUME NEW i \in DOMAIN batches', NEW j \in DOMAIN batches'[i]
                  PROVE  batches'[i][j].pos >= 0
      OBVIOUS
    <3>1. CASE i = L + 1
      BY <1>7, <2>3, <3>1, Zenon
    <3>2. CASE i \in DOMAIN batches /\ batches'[i] = batches[i]
      BY <1>4, <3>2, Zenon DEF BatchesOK
    <3>. QED
      BY <1>6, <3>1, <3>2
  <2>5. /\ Len(batches') <= BatchQueueSize
        /\ pc' \in {"idle", "reset"} \cup Scheduling => Len(batches') < BatchQueueSize
    BY <1>1, <1>2, <1>4 DEF Scheduling
  <2>. QED
    BY <2>2, <2>4, <2>5 DEF BatchesOK
<1>12. (\A i \in DOMAIN scheduled : GrantOK(scheduled[i]))' /\ TryOK'
  BY <1>1 DEF TryOK
<1>. QED
  BY <1>1, <1>2, <1>3, <1>9, <1>10, <1>11, <1>12 DEF KInv

\* cache_blocks as AsyncScheduler calls it when a token arrives: a step of the
\* manager, or nothing when the placeholders outnumber what is computed.
LEMMA CacheKV ==
  ASSUME KInv, NEW r \in Request, Live(r), NEW m \in Int,
         m <= NumTokens(r) + 1, m <= Slots(r), CacheComputed(r, m, NumTokens(r) + 1)
  PROVE  [KVStep]_kvVars /\ reqBlocks' = reqBlocks
<1>. DEFINE t == NumTokens(r) + 1
            c == numCached[r]
            table == reqBlocks[r]
<1>1. /\ t \in Nat /\ t <= Len(Stream[r]) /\ Len(Stream[r]) \in Nat
      /\ BlockSize \in Nat \ {0}
  <2>1. NumTokens(r) \in Nat /\ BlockSize \in Nat \ {0}
    BY Types
  <2>. QED
    BY <2>1, StreamCovers
<1>2. numCached \in [Request -> Nat] /\ c \in Nat
  BY DEF KInv, Inv, Sound, Typed
<1>3. m <= t /\ m <= Len(table) * BlockSize /\ CacheComputed(r, m, t)
  BY DEF Slots
<1>. HIDE DEF t
<1>4. CASE m >= 1
  <2>1. m \in Nat /\ m \in 1 .. Len(Stream[r])
    BY <1>1, <1>3, <1>4
  <2>2. m \div BlockSize \in Nat /\ t \div BlockSize \in Nat /\ m \div BlockSize <= t \div BlockSize
    BY <1>1, <1>3, <2>1, DivFacts
  <2>3. CacheRaises(pool, table, c, m, t) <=> CacheRaises(pool, table, c, m, m)
    BY <1>2, <2>2 DEF CacheRaises
  <2>. DEFINE raises == CacheRaises(pool, table, c, m, m)
  <2>4. CacheComputed(r, m, m)
    <3>1. CacheRaises(pool, table, c, m, t) <=> raises
      BY <2>3
    <3>. HIDE DEF raises
    <3>2. IF EnableCaching /\ raises
          THEN error' = TRUE /\ UNCHANGED <<pool, reqBlocks, numCached>>
          ELSE /\ pool' = IF EnableCaching THEN CacheBlocks(pool, r, table, c, m) ELSE pool
               /\ numCached' = [numCached EXCEPT ![r] =
                    IF EnableCaching THEN Max2(@, m \div BlockSize) ELSE @]
               /\ UNCHANGED <<reqBlocks, error>>
      BY <1>3, <3>1 DEF CacheComputed
    <3>. QED
      BY <3>2 DEF CacheComputed, raises
  <2>5. CacheLater(r)
    BY <1>3, <2>1, <2>4 DEF CacheLater
  <2>6. reqBlocks' = reqBlocks
    BY <2>4 DEF CacheComputed
  <2>. QED
    BY <2>5, <2>6 DEF KVStep
<1>5. CASE m <= 0
  <2>1. m \div BlockSize \in Int /\ m \div BlockSize <= 0
    BY <1>1, <1>5
  <2>2. ~CacheRaises(pool, table, c, m, t)
    BY <1>2, <2>1 DEF CacheRaises
  <2>3. Max2(c, m \div BlockSize) = c /\ ~(m \div BlockSize > c)
    BY <1>2, <2>1 DEF Max2
  <2>4. CacheBlocks(pool, r, table, c, m) = pool
    BY <2>3 DEF CacheBlocks
  <2>5. /\ pool' = pool /\ reqBlocks' = reqBlocks /\ error' = error
        /\ numCached' = [numCached EXCEPT ![r] = IF EnableCaching THEN Max2(c, m \div BlockSize) ELSE c]
    BY <1>3, <2>2, <2>4 DEF CacheComputed
  <2>6. numCached' = numCached
    BY <1>2, <2>3, <2>5
  <2>. QED
    BY <2>5, <2>6 DEF kvVars
<1>. QED
  BY <1>4, <1>5

\* A token arrives: its placeholder goes, and the request stops in time.
LEMMA TakeOutputKV ==
  ASSUME KInv, LengthsFit, NEW eos \in BOOLEAN, TakeOutput(eos)
  PROVE  KInv' /\ [KVStep]_kvVars
<1>0. PICK r \in Request : r = Entry.req
  BY EntryFacts DEF KInv, TakeOutput
<1>1. /\ HasEntry /\ pc = "update" /\ ~IsMoot /\ ~(AsyncScheduling /\ discard[r])
      /\ out' = [out EXCEPT ![r] = Append(@, Entry.pos)]
      /\ placeholders' = [placeholders EXCEPT ![r] = IF AsyncScheduling THEN @ - 1 ELSE @]
      /\ IF AsyncScheduling /\ status[r] = "RUNNING"
         THEN CacheComputed(r, computed[r] - placeholders'[r], NumTokens(r) + 1)
         ELSE UNCHANGED kvVars
      /\ IF CheckStop(r, eos) THEN pc' = "free" /\ UNCHANGED batches
                              ELSE DropEntry /\ UNCHANGED pc
      /\ UNCHANGED <<status, computed, discard, scheduled, resets>>
  BY <1>0 DEF TakeOutput, HasEntry, scheduleVars
<1>2. QInv' /\ QInv /\ BatchesOK /\ discard \in [Request -> BOOLEAN]
  BY TakeOutputQueues DEF KInv
<1>3. Entry.pos \in Int /\ Entry.pos > 0 /\ status[r] \in Unfinished
  <2>1. /\ Entry.pos \in Int /\ 1 \in DOMAIN batches /\ 1 \in DOMAIN batches[1]
        /\ status[r] \in Statuses \ {"NEW"}
    BY <1>0, <1>1, <1>2, EntryFacts
  <2>2. Entry.pos >= 0
    BY <1>2, <2>1 DEF BatchesOK, Entry
  <2>. QED
    BY <1>0, <1>1, <2>1, <2>2 DEF IsMoot, Statuses, Unfinished
<1>4. Live(r) /\ CountersOK(r) /\ AwaitedOK(r)
  BY <1>1, <1>3 DEF KInv, Live
<1>5. /\ computed[r] \in Int /\ placeholders[r] \in Int /\ NumTokens(r) \in Nat
      /\ MaxModelLen \in Nat /\ Slots(r) \in Nat /\ Len(out[r]) \in Nat
      /\ out \in [Request -> Seq(Int)] /\ placeholders \in [Request -> Int]
      /\ PromptLen[r] \in Nat /\ MinTokens[r] \in Nat /\ MaxTokens[r] \in Nat
  BY Types
<1>6. /\ Len(out'[r]) = Len(out[r]) + 1 /\ NumTokens(r)' = NumTokens(r) + 1
      /\ placeholders'[r] = IF AsyncScheduling THEN placeholders[r] - 1 ELSE placeholders[r]
      /\ \A s \in Request : s # r => out'[s] = out[s] /\ placeholders'[s] = placeholders[s]
  <2>1. out'[r] = Append(out[r], Entry.pos)
    BY <1>1, <1>5
  <2>2. Len(out'[r]) = Len(out[r]) + 1
    BY <1>3, <1>5, <2>1
  <2>3. NumTokens(r)' = NumTokens(r) + 1
    BY <1>5, <2>2, SMTT(30) DEF NumTokens
  <2>. QED
    BY <1>1, <1>5, <2>2, <2>3
<1>7. AsyncScheduling => placeholders[r] >= 1 /\ Cardinality(Awaited(r)) <= placeholders[r]
  <2>. SUFFICES ASSUME AsyncScheduling
                PROVE  placeholders[r] >= 1 /\ Cardinality(Awaited(r)) <= placeholders[r]
    OBVIOUS
  <2>1. 1 \in Awaited(r)
    <3>1. 1 \in DOMAIN batches /\ 1 \in DOMAIN batches[1]
      BY <1>1, <1>2, EntryFacts
    <3>. QED
      BY <1>0, <1>3, <3>1 DEF Awaited, Entry
  <2>2. IsFiniteSet(Awaited(r)) /\ Cardinality(Awaited(r)) \in Nat
    BY AwaitedFinite, Types
  <2>3. Cardinality(Awaited(r)) # 0
    BY <2>1, <2>2, FS_EmptySet
  <2>4. Cardinality(Awaited(r)) <= placeholders[r] + 0
    BY <1>1, <1>4 DEF AwaitedOK
  <2>. QED
    BY <1>5, <2>2, <2>3, <2>4
<1>8. [KVStep]_kvVars /\ reqBlocks' = reqBlocks
  <2>1. CASE AsyncScheduling /\ status[r] = "RUNNING"
    <3>. DEFINE m == computed[r] - placeholders'[r]
    <3>1. placeholders'[r] \in Int /\ placeholders'[r] = placeholders[r] - 1 /\ placeholders'[r] >= 0
      BY <1>5, <1>6, <1>7, <2>1
    <3>2. computed[r] <= NumTokens(r) + placeholders[r] /\ computed[r] <= Slots(r)
      BY <1>4, <1>5, <2>1 DEF CountersOK, Fits
    <3>3. m \in Int /\ m <= NumTokens(r) + 1 /\ m <= Slots(r)
      BY <1>5, <3>1, <3>2, SMTT(30)
    <3>4. CacheComputed(r, m, NumTokens(r) + 1)
      BY <1>1, <2>1
    <3>. HIDE DEF m
    <3>. QED
      BY <1>4, <3>3, <3>4, CacheKV
  <2>2. CASE ~(AsyncScheduling /\ status[r] = "RUNNING")
    BY <1>1, <2>2 DEF kvVars
  <2>. QED
    BY <2>1, <2>2
<1>9. Inv'
  BY <1>8, CallerSound DEF KInv
<1>10. /\ \A s \in Request : s # r => (Live(s)' => Live(s))
       /\ Live(r)' => ~CheckStop(r, eos)
  <2>1. CheckStop(r, eos) => Entry' = Entry /\ pc' = "free"
    BY <1>1 DEF Entry
  <2>. QED
    BY <1>0, <1>1, <2>1 DEF Live
<1>11. /\ BatchesOK' /\ \A s \in Request : Awaited(s)' \subseteq Awaited(s)
  <2>1. CASE CheckStop(r, eos)
    BY <1>1, <1>2, <2>1 DEF BatchesOK, Awaited, Scheduling
  <2>2. CASE ~CheckStop(r, eos)
    BY <1>1, <1>2, <2>2, DropAwaited DEF Scheduling
  <2>. QED
    BY <2>1, <2>2
<1>12. CountersOK(r)'
  <2>1. ASSUME Live(r)'
        PROVE  Len(out'[r]) < MaxTokens[r] /\ NumTokens(r)' <= MaxModelLen - 1
    <3>1. ~CheckStop(r, eos)
      BY <1>10, <2>1
    <3>2. \/ Len(out[r]) + 1 < MinTokens[r]
          \/ NumTokens(r) + 1 < MaxModelLen /\ Len(out[r]) + 1 < MaxTokens[r]
      BY <1>5, <3>1 DEF CheckStop
    <3>3. MinTokens[r] <= MaxTokens[r] /\ PromptLen[r] + MinTokens[r] <= MaxModelLen
      BY <1>5, SchedulerAssumption DEF LengthsFit
    <3>4. NumTokens(r) = PromptLen[r] + Len(out[r])
      BY DEF NumTokens
    <3>5. Len(out[r]) + 1 < MaxTokens[r] /\ NumTokens(r) + 1 <= MaxModelLen - 1
      <4>1. /\ Len(out[r]) \in Nat /\ NumTokens(r) \in Nat /\ MaxModelLen \in Nat
            /\ PromptLen[r] \in Nat /\ MinTokens[r] \in Nat /\ MaxTokens[r] \in Nat
        BY <1>5
      <4>2. CASE Len(out[r]) + 1 < MinTokens[r]
        BY <3>3, <3>4, <4>1, <4>2, SMTT(30)
      <4>3. CASE NumTokens(r) + 1 < MaxModelLen /\ Len(out[r]) + 1 < MaxTokens[r]
        BY <4>1, <4>3
      <4>. QED
        BY <3>2, <4>2, <4>3
    <3>. QED
      BY <1>6, <3>5
  <2>2. /\ placeholders'[r] >= 0 /\ (~AsyncScheduling => placeholders'[r] = 0)
        /\ placeholders'[r] \in Int
    BY <1>4, <1>5, <1>6, <1>7 DEF CountersOK
  <2>3. computed[r] + 0 <= MaxModelLen - 1 /\ computed[r] + 0 <= NumTokens(r) + placeholders[r]
    BY <1>4 DEF CountersOK, Fits
  <2>4. computed[r] + 0 <= (NumTokens(r) + 1) + placeholders'[r]
    BY <1>5, <1>6, <2>2, <2>3, SMTT(30)
  <2>5. Fits(r, 0)'
    BY <1>1, <1>6, <2>3, <2>4 DEF Fits
  <2>6. Slots(r)' = Slots(r)
    BY <1>8 DEF Slots
  <2>7. status'[r] # "NEW"
    BY <1>1, <1>3 DEF Unfinished
  <2>. QED
    BY <1>1, <1>4, <1>8, <2>1, <2>2, <2>5, <2>6, <2>7 DEF CountersOK
<1>13. AwaitedOK(r)'
  <2>. SUFFICES ASSUME AsyncScheduling, Live(r)'
                PROVE  Cardinality(Awaited(r)') <= placeholders'[r] + (IF discard'[r] THEN 1 ELSE 0)
    BY DEF AwaitedOK
  <2>1. DropEntry /\ discard'[r] = FALSE
    BY <1>1, <1>2, <1>10
  <2>2. Cardinality(Awaited(r)') \in Nat /\ Cardinality(Awaited(r)') <= Cardinality(Awaited(r)) - 1
    BY <1>0, <1>1, <1>2, <1>3, <2>1, OneLessAwaited
  <2>3. Cardinality(Awaited(r)) \in Nat
    BY AwaitedFinite, Types
  <2>. QED
    BY <1>5, <1>6, <1>7, <2>1, <2>2, <2>3, SMTT(30)
<1>14. ASSUME NEW s \in Request, s # r
       PROVE  CountersOK(s)' /\ AwaitedOK(s)'
  <2>1. CountersOK(s) /\ AwaitedOK(s) /\ (Live(s)' => Live(s))
    BY <1>10, <1>14 DEF KInv
  <2>2. CountersOK(s)'
    BY <1>1, <1>6, <1>8, <1>14, <2>1, CountersKept
  <2>. QED
    BY <1>1, <1>6, <1>11, <1>14, <2>1, <2>2, AwaitedKept, Types
<1>15. (\A i \in DOMAIN scheduled : GrantOK(scheduled[i]))' /\ TryOK'
  <2>1. scheduled = <<>>
    BY <1>1, <1>2, EntryFacts
  <2>. QED
    BY <1>1, <2>1 DEF TryOK
<1>16. discard' \in [Request -> BOOLEAN] /\ pc' # "reset"
  BY <1>1, <1>2
<1>. QED
  BY <1>1, <1>2, <1>8, <1>9, <1>11, <1>12, <1>13, <1>14, <1>15, <1>16 DEF KInv

----------------------------------------------------------------------------

\* The initial state satisfies the invariant.
LEMMA InitKV == ASSUME Init PROVE KInv
<1>1. QInv
  BY InitQueues
<1>2. Inv
  BY InitSound DEF Init, KVInit, Inv
<1>3. /\ status = [r \in Request |-> "NEW"] /\ computed = [r \in Request |-> 0]
      /\ out = [r \in Request |-> <<>>] /\ placeholders = [r \in Request |-> 0]
      /\ discard = [r \in Request |-> FALSE] /\ batches = <<>> /\ pc = "idle"
      /\ scheduled = <<>> /\ resets = 0
  BY DEF Init
<1>4. MaxResets \in Nat /\ BatchQueueSize \in Nat \ {0} /\ MaxModelLen \in Nat
  BY SchedulerAssumption, SizeAssumption
<1>5. ASSUME NEW r \in Request PROVE CountersOK(r) /\ AwaitedOK(r)
  <2>1. /\ status[r] = "NEW" /\ computed[r] = 0 /\ Len(out[r]) = 0 /\ placeholders[r] = 0
        /\ ~Live(r)
    BY <1>3 DEF Live, Unfinished
  <2>2. PromptLen[r] \in 1 .. MaxModelLen - 1
    BY SchedulerAssumption
  <2>3. NumTokens(r) = PromptLen[r]
    BY <1>4, <2>1, <2>2 DEF NumTokens
  <2>4. Fits(r, 0)
    BY <1>4, <2>1, <2>2, <2>3 DEF Fits
  <2>. QED
    BY <2>1, <2>4 DEF CountersOK, AwaitedOK
<1>6. TryOK /\ BatchesOK
  BY <1>3, <1>4 DEF TryOK, BatchesOK
<1>7. discard \in [Request -> BOOLEAN] /\ resets \in 0 .. MaxResets
  BY <1>3, <1>4
<1>. QED
  BY <1>1, <1>2, <1>3, <1>5, <1>6, <1>7 DEF KInv

\* Every step keeps it and is one the KV cache manager allows.
LEMMA NextKV ==
  ASSUME KInv, LengthsFit, ResetsFit, [Next]_vars
  PROVE  KInv' /\ [KVStep]_kvVars
<1>0. QInv' /\ resets \in 0 .. MaxResets /\ MaxResets \in Nat
  BY NextQueues, SchedulerAssumption DEF KInv
<1>1. ASSUME NEW r \in Request, Add(r) PROVE KInv' /\ [KVStep]_kvVars
  BY <1>1, AddKV
<1>2. ASSUME NEW r \in Request, Abort(r) PROVE KInv' /\ [KVStep]_kvVars
  BY <1>2, AbortKV
<1>3. ASSUME NEW resetRunning \in BOOLEAN, StartReset(resetRunning)
      PROVE  KInv' /\ [KVStep]_kvVars
  <2>1. /\ pc = "idle" /\ pc' \in {"idle", "reset"} /\ resets' = resets + 1
        /\ resets < MaxResets /\ (Reset \/ UNCHANGED kvVars)
        /\ UNCHANGED <<reqBlocks, status, computed, out, placeholders, discard, batches,
                       scheduled>>
    BY <1>3 DEF StartReset, Reset, kvVars, reqVars, scheduleVars
  <2>2. [KVStep]_kvVars
    BY <2>1 DEF KVStep
  <2>3. resets' \in 1 .. MaxResets /\ resets' \in 0 .. MaxResets
    BY <1>0, <2>1
  <2>. QED
    BY <1>0, <2>1, <2>2, <2>3, MoveKV
<1>4. CASE ResetPreempt
  BY <1>4, ResetPreemptKV
<1>5. CASE ResetFinish
  BY <1>5, ResetFinishKV
<1>6. CASE StepStart
  <2>1. /\ pc = "idle" /\ pc' = "running"
        /\ UNCHANGED <<kvVars, reqBlocks, status, computed, out, placeholders, discard, batches,
                       scheduled, resets>>
    BY <1>6 DEF StepStart, kvVars, reqVars
  <2>. QED
    BY <1>0, <2>1, MoveKV
<1>7. CASE StepDrain
  <2>1. /\ pc = "idle" /\ pc' = "collect"
        /\ UNCHANGED <<kvVars, reqBlocks, status, computed, out, placeholders, discard, batches,
                       scheduled, resets>>
    BY <1>7 DEF StepDrain, kvVars, reqVars, scheduleVars
  <2>. QED
    BY <1>0, <2>1, MoveKV DEF Scheduling
<1>8. ASSUME NEW r \in Request, SkipRunning(r) PROVE KInv' /\ [KVStep]_kvVars
  <2>1. /\ pc = "running" /\ pc' = "running"
        /\ UNCHANGED <<kvVars, reqBlocks, status, computed, out, placeholders, discard, batches,
                       scheduled, resets>>
    BY <1>8 DEF SkipRunning, Visiting, kvVars, reqVars
  <2>. QED
    BY <1>0, <2>1, MoveKV
<1>9. ASSUME NEW r \in Request, TryRunning(r) PROVE KInv' /\ [KVStep]_kvVars
  BY <1>9, TryRunningKV
<1>10. CASE ScheduleRunning
  BY <1>10, ScheduleRunningKV
<1>11. CASE PreemptVictim
  BY <1>11, PreemptVictimKV
<1>12. CASE EndRunning
  <2>1. /\ pc = "running" /\ pc' \in {"finish", "waiting"}
        /\ UNCHANGED <<kvVars, reqBlocks, status, computed, out, placeholders, discard, batches,
                       scheduled, resets>>
    BY <1>12 DEF EndRunning, kvVars, reqVars, scheduleVars
  <2>. QED
    BY <1>0, <2>1, MoveKV DEF Scheduling
<1>13. ASSUME NEW r \in Request, ScheduleWaiting(r) PROVE KInv' /\ [KVStep]_kvVars
  BY <1>13, ScheduleWaitingKV
<1>14. CASE EndWaiting
  <2>1. /\ pc = "waiting" /\ pc' = "finish"
        /\ UNCHANGED <<kvVars, reqBlocks, status, computed, out, placeholders, discard, batches,
                       scheduled, resets>>
    BY <1>14 DEF EndWaiting, kvVars, reqVars, scheduleVars
  <2>. QED
    BY <1>0, <2>1, MoveKV DEF Scheduling
<1>15. CASE FinishSchedule
  BY <1>15, FinishScheduleKV
<1>16. CASE Collect
  <2>1. /\ pc = "collect" /\ pc' = "update"
        /\ UNCHANGED <<kvVars, reqBlocks, status, computed, out, placeholders, discard, batches,
                       scheduled, resets>>
    BY <1>16 DEF Collect, kvVars, reqVars, scheduleVars
  <2>. QED
    BY <1>0, <2>1, MoveKV DEF Scheduling
<1>17. CASE SkipOutput
  BY <1>17, SkipOutputKV
<1>18. CASE DiscardOutput
  BY <1>18, DiscardOutputKV
<1>19. ASSUME NEW eos \in BOOLEAN, TakeOutput(eos) PROVE KInv' /\ [KVStep]_kvVars
  BY <1>19, TakeOutputKV
<1>20. CASE FreeStopped
  BY <1>20, FreeStoppedKV
<1>21. CASE EndUpdate
  BY <1>21, EndUpdateKV
<1>22. CASE UNCHANGED vars
  <2>1. UNCHANGED <<kvVars, reqBlocks, status, computed, out, placeholders, discard, batches,
                    scheduled, resets, pc, trying>>
    BY <1>22 DEF vars, kvVars, reqVars, stepVars, scheduleVars
  <2>2. Inv' /\ [KVStep]_kvVars
    BY <2>1, CallerSound DEF KInv
  <2>3. ASSUME NEW r \in Request PROVE CountersOK(r)' /\ AwaitedOK(r)'
    <3>1. CountersOK(r) /\ AwaitedOK(r)
      BY DEF KInv
    <3>2. (Live(r)' => Live(r)) /\ Awaited(r)' = Awaited(r)
      BY <2>1 DEF Live, Entry, Awaited
    <3>3. CountersOK(r)'
      BY <2>1, <3>1, <3>2, CountersKept
    <3>. QED
      BY <2>1, <3>1, <3>2, <3>3 DEF AwaitedOK
  <2>4. (\A i \in DOMAIN scheduled : GrantOK(scheduled[i]))' /\ TryOK' /\ BatchesOK'
    BY <2>1 DEF KInv, GrantOK, TryOK, Fits, Slots, NumTokens, BatchesOK
  <2>. QED
    BY <1>0, <2>1, <2>2, <2>3, <2>4 DEF KInv
<1>. QED
  BY <1>1, <1>2, <1>3, <1>4, <1>5, <1>6, <1>7, <1>8, <1>9, <1>10, <1>11, <1>12, <1>13,
     <1>14, <1>15, <1>16, <1>17, <1>18, <1>19, <1>20, <1>21, <1>22 DEF Next, Client, Engine

\* The invariant holds of every behaviour.
LEMMA KVInvariant == ASSUME LengthsFit, ResetsFit PROVE Spec => []KInv
<1>1. Init => KInv
  BY InitKV
<1>2. KInv /\ [Next]_vars => KInv'
  BY NextKV
<1>. QED
  BY <1>1, <1>2, PTL DEF Spec

\* The scheduler, whatever it admits, preempts, caches late, aborts or resets,
\* keeps the contract of the KV cache manager.
THEOREM KeepsContract ==
  ASSUME LengthsFit, ResetsFit
  PROVE  Spec => ImplementsKVCacheManager
<1>1. Init => KVInit
  BY DEF Init
<1>2. KInv /\ [Next]_vars => [KVNext]_kvVars
  BY NextKV, StepIsNext
<1>. QED
  BY <1>1, <1>2, KVInvariant, PTL DEF Spec, ImplementsKVCacheManager, KVSpec

\* So every invariant of the manager holds of the engine: counts match tables,
\* the prefix cache matches the blocks, shared blocks agree, nothing raises.
THEOREM EngineKeepsKVInvariants ==
  ASSUME LengthsFit, ResetsFit
  PROVE  Spec => [](RefCountsMatchTables /\ HashMapMatchesBlocks /\ SharedBlocksAgree
                    /\ TablesMatchCache /\ NoError)
BY KeepsContract, RefCountsCorrect, HashMapCorrect, SharingCorrect, SplitCorrect, NeverRaises,
   PTL DEF ImplementsKVCacheManager

\* The scheduler never evicts a block by itself, so a block of a chain of hashes
\* stays in the prefix cache no longer than the blocks before it: a lookup that
\* stops at its first miss overlooks nothing, under either policy, whatever is
\* admitted, preempted, aborted or reset.
THEOREM PrefixesAlwaysCached ==
  ASSUME LengthsFit, ResetsFit
  PROVE  Spec => []PrefixesStayCached
<1>1. Init => ChainInv
  BY InitLinked DEF Init
<1>2. KInv /\ ChainInv /\ [Next]_vars => ChainInv'
  BY NextKV, StepLinked
<1>3. ChainInv => PrefixesStayCached
  BY LinkedPrefixes DEF PrefixesStayCached
<1>. QED
  BY <1>1, <1>2, <1>3, KVInvariant, PTL DEF Spec

----------------------------------------------------------------------------
(* The type invariant: the token budget is spent and given back exactly,   *)
(* and no slot of a block is counted twice.                                *)

\* What a list of grants gives r; NumScheduled is NumIn(scheduled, r).
NumIn(s, r) ==
  LET at == {i \in DOMAIN s : s[i].req = r}
  IN IF at = {} THEN 0 ELSE s[CHOOSE i \in at : TRUE].n

\* The tokens that are scheduled when f says how many each request has, as a
\* set: counting it is what spending the budget means.
Tokens(f) == {p \in Request \X (1 .. TokenBudget) : p[2] <= f[p[1]]}

Given(s) == [r \in Request |-> NumIn(s, r)]
Charged == Tokens(Given(scheduled))

\* The list s gives what t gives and, to a request t gives nothing, the grant g.
GivesMore(s, t, g) ==
  /\ Given(t) \in [Request -> Nat] /\ Given(t)[g.req] = 0
  /\ Given(s) = [Given(t) EXCEPT ![g.req] = g.n]

NatGrant == [req : Request, n : Nat]

\* What the budget has lost is what is scheduled, and what is tried fits in.
BudgetOK ==
  /\ pc \in Scheduling => budget >= 0 /\ budget + Cardinality(Charged) = TokenBudget
  /\ pc \notin Scheduling => budget = 0
  /\ pc = "allocate" => trying[1].n <= budget
  /\ \A i \in DOMAIN scheduled : scheduled[i].n <= TokenBudget

\* The rest of what TypeOK says.
RestOK ==
  /\ out \in [Request -> Seq(Nat)]
  /\ trying \in Seq(NatGrant) /\ idx \in Nat
  /\ finishedIds \subseteq Request /\ preempted \in BOOLEAN

FilledOK == filled \in [Block -> 0 .. BlockSize]

\* What a list with one grant per request gives each of them.
LEMMA NumInFacts ==
  ASSUME NEW s \in Seq(Grant), NEW r \in Request,
         \A i, j \in DOMAIN s : s[i].req = s[j].req => i = j
  PROVE  /\ (\A i \in DOMAIN s : s[i].req # r) => NumIn(s, r) = 0
         /\ \A i \in DOMAIN s : s[i].req = r => NumIn(s, r) = s[i].n
<1>. DEFINE at == {i \in DOMAIN s : s[i].req = r}
<1>1. ASSUME \A i \in DOMAIN s : s[i].req # r PROVE NumIn(s, r) = 0
  <2>1. at = {}
    BY <1>1
  <2>. QED
    BY <2>1 DEF NumIn
<1>2. ASSUME NEW i \in DOMAIN s, s[i].req = r PROVE NumIn(s, r) = s[i].n
  <2>1. at # {} /\ i \in at
    BY <1>2
  <2>2. (CHOOSE k \in at : TRUE) \in at
    BY <2>1
  <2>3. (CHOOSE k \in at : TRUE) = i
    BY <1>2, <2>2
  <2>. QED
    BY <2>1, <2>3 DEF NumIn
<1>. QED
  BY <1>1, <1>2

\* The charged tokens can be counted.
LEMMA TokensFinite ==
  ASSUME NEW f
  PROVE  IsFiniteSet(Tokens(f)) /\ Cardinality(Tokens(f)) \in Nat
<1>1. TokenBudget \in Nat /\ IsFiniteSet(Request)
  BY SchedulerAssumption, StreamAssumption
<1>2. IsFiniteSet(1 .. TokenBudget) /\ IsFiniteSet(Request \X (1 .. TokenBudget))
  BY <1>1, IntervalSize, FS_Product
<1>3. Tokens(f) \subseteq Request \X (1 .. TokenBudget)
  BY DEF Tokens
<1>. QED
  BY <1>2, <1>3, FS_Subset, FS_CardinalityType

\* Two lists with the same grants of r give it the same.
LEMMA SameGiven ==
  ASSUME NEW s \in Seq(Grant), NEW t \in Seq(Grant), NEW r \in Request,
         \A i, j \in DOMAIN s : s[i].req = s[j].req => i = j,
         \A i, j \in DOMAIN t : t[i].req = t[j].req => i = j,
         \A h \in Grant : h.req = r => (h \in Elements(s) <=> h \in Elements(t))
  PROVE  NumIn(s, r) = NumIn(t, r)
<1>1. CASE \E i \in DOMAIN s : s[i].req = r
  <2>1. PICK i \in DOMAIN s : s[i].req = r
    BY <1>1
  <2>2. s[i] \in Grant /\ s[i] \in Elements(s)
    BY DEF Elements
  <2>3. s[i] \in Elements(t)
    BY <2>1, <2>2
  <2>4. PICK j \in DOMAIN t : t[j] = s[i]
    BY <2>3 DEF Elements
  <2>5. NumIn(s, r) = s[i].n
    BY <2>1, NumInFacts
  <2>6. NumIn(t, r) = t[j].n
    BY <2>1, <2>4, NumInFacts
  <2>. QED
    BY <2>4, <2>5, <2>6
<1>2. CASE \A i \in DOMAIN s : s[i].req # r
  <2>1. ASSUME NEW j \in DOMAIN t PROVE t[j].req # r
    <3>1. t[j] \in Grant /\ t[j] \in Elements(t)
      BY DEF Elements
    <3>2. t[j].req = r => t[j] \in Elements(s)
      BY <3>1
    <3>. QED
      BY <1>2, <3>2 DEF Elements
  <2>. QED
    BY <1>2, <2>1, NumInFacts
<1>. QED
  BY <1>1, <1>2

\* A list with one grant per request, each of some tokens, as numbers.
LEMMA GivenTyped ==
  ASSUME NEW s \in Seq(Grant), \A i \in DOMAIN s : s[i].n >= 1,
         \A i, j \in DOMAIN s : s[i].req = s[j].req => i = j
  PROVE  Given(s) \in [Request -> Nat]
<1>1. ASSUME NEW r \in Request PROVE NumIn(s, r) \in Nat
  <2>1. CASE \A i \in DOMAIN s : s[i].req # r
    BY <2>1, NumInFacts
  <2>2. CASE \E i \in DOMAIN s : s[i].req = r
    <3>1. PICK i \in DOMAIN s : s[i].req = r
      BY <2>2
    <3>2. NumIn(s, r) = s[i].n
      BY <3>1, NumInFacts
    <3>3. s[i] \in Grant /\ s[i].n >= 1
      OBVIOUS
    <3>4. s[i].n \in Nat
      BY <3>3 DEF Grant
    <3>. QED
      BY <3>2, <3>4
  <2>. QED
    BY <2>1, <2>2
<1>. QED
  BY <1>1 DEF Given

\* Two lists of grants that differ in one grant of r only.
LEMMA GivenDiffers ==
  ASSUME NEW s \in Seq(Grant), NEW t \in Seq(Grant), NEW g \in Grant,
         \A i, j \in DOMAIN s : s[i].req = s[j].req => i = j,
         \A i, j \in DOMAIN t : t[i].req = t[j].req => i = j,
         \A h \in Grant : h.req # g.req => (h \in Elements(s) <=> h \in Elements(t)),
         \A i \in DOMAIN t : t[i].req # g.req, g \in Elements(s),
         Given(t) \in [Request -> Nat]
  PROVE  GivesMore(s, t, g)
<1>1. g.req \in Request
  BY DEF Grant
<1>2. NumIn(t, g.req) = 0 /\ NumIn(s, g.req) = g.n
  <2>1. PICK i \in DOMAIN s : s[i] = g
    BY DEF Elements
  <2>. QED
    BY <1>1, <2>1, NumInFacts
<1>3. ASSUME NEW r \in Request, r # g.req PROVE NumIn(s, r) = NumIn(t, r)
  <2>1. \A h \in Grant : h.req = r => (h \in Elements(s) <=> h \in Elements(t))
    BY <1>3
  <2>. QED
    BY <2>1, SameGiven
<1>. QED
  BY <1>1, <1>2, <1>3 DEF Given, GivesMore

\* A list with the grant g more charges g.n tokens more.
LEMMA GrantCharges ==
  ASSUME NEW s, NEW t, NEW g \in Grant, g.n \in 0 .. TokenBudget, GivesMore(s, t, g)
  PROVE  Cardinality(Tokens(Given(s))) = Cardinality(Tokens(Given(t))) + g.n
<1>1. PICK f \in [Request -> Nat] : f = Given(t)
  BY DEF GivesMore
<1>2. PICK r \in Request : r = g.req
  BY DEF Grant
<1>3. PICK n \in 0 .. TokenBudget : n = g.n
  OBVIOUS
<1>4. PICK h : h = Given(s)
  OBVIOUS
<1>5. h = [f EXCEPT ![r] = n] /\ f[r] = 0
  BY <1>1, <1>2, <1>3, <1>4 DEF GivesMore
<1>6. TokenBudget \in Nat /\ IsFiniteSet(Request)
  BY SchedulerAssumption, StreamAssumption
<1>7. IsFiniteSet(Tokens(f)) /\ Cardinality(Tokens(f)) \in Nat
  BY TokensFinite
<1>. DEFINE new == {r} \X (1 .. n)
<1>8. n \in Nat /\ IsFiniteSet(1 .. n) /\ Cardinality(1 .. n) = n
  BY <1>6, IntervalSize
<1>9. IsFiniteSet({r}) /\ Cardinality({r}) = 1
  BY FS_Singleton
<1>10. IsFiniteSet(new) /\ Cardinality(new) = 1 * n
  <2>. DEFINE S == {r}
              T == 1 .. n
  <2>1. IsFiniteSet(S) /\ IsFiniteSet(T) /\ Cardinality(S) = 1 /\ Cardinality(T) = n
    BY <1>8, <1>9
  <2>. HIDE DEF S, T
  <2>2. IsFiniteSet(S \X T) /\ Cardinality(S \X T) = Cardinality(S) * Cardinality(T)
    BY <2>1, FS_Product
  <2>. QED
    BY <2>1, <2>2 DEF S, T
<1>11. Cardinality(new) = n
  BY <1>8, <1>10
<1>12. Tokens(h) = Tokens(f) \cup new
  <2>1. ASSUME NEW p \in Tokens(h) PROVE p \in Tokens(f) \cup new
    <3>1. p \in Request \X (1 .. TokenBudget) /\ p[2] <= h[p[1]]
      BY DEF Tokens
    <3>2. CASE p[1] = r
      <4>1. p[2] \in 1 .. n
        BY <1>5, <1>6, <3>1, <3>2
      <4>. QED
        BY <3>1, <3>2, <4>1
    <3>3. CASE p[1] # r
      BY <1>5, <3>1, <3>3 DEF Tokens
    <3>. QED
      BY <3>2, <3>3
  <2>2. ASSUME NEW p \in Tokens(f) PROVE p \in Tokens(h)
    <3>1. p \in Request \X (1 .. TokenBudget) /\ p[2] <= f[p[1]]
      BY DEF Tokens
    <3>2. p[1] # r
      BY <1>5, <1>6, <3>1
    <3>. QED
      BY <1>5, <3>1, <3>2 DEF Tokens
  <2>3. ASSUME NEW p \in new PROVE p \in Tokens(h)
    <3>1. p \in Request \X (1 .. TokenBudget) /\ p[1] = r /\ p[2] <= n
      BY <1>6, <1>8
    <3>. QED
      BY <1>5, <3>1 DEF Tokens
  <2>. QED
    BY <2>1, <2>2, <2>3
<1>13. Tokens(f) \cap new = {}
  BY <1>5, <1>6, <1>8 DEF Tokens
<1>. HIDE DEF new
<1>14. Cardinality(Tokens(f) \cup new)
         = Cardinality(Tokens(f)) + Cardinality(new) - Cardinality(Tokens(f) \cap new)
  BY <1>7, <1>10, FS_Union
<1>15. Cardinality(Tokens(f) \cap new) = 0
  BY <1>13, FS_EmptySet
<1>16. Cardinality(Tokens(h)) = Cardinality(Tokens(f)) + n - 0
  BY <1>11, <1>12, <1>14, <1>15
<1>17. Cardinality(Tokens(h)) = Cardinality(Tokens(f)) + n
  BY <1>7, <1>8, <1>16
<1>. QED
  BY <1>1, <1>3, <1>4, <1>17

\* Nothing scheduled, nothing charged.
LEMMA NothingCharged == Cardinality(Tokens(Given(<<>>))) = 0
<1>1. \A r \in Request : NumIn(<<>>, r) = 0
  BY DEF NumIn
<1>2. Tokens(Given(<<>>)) = {}
  <2>1. TokenBudget \in Nat
    BY SchedulerAssumption
  <2>. SUFFICES ASSUME NEW p \in Tokens(Given(<<>>)) PROVE FALSE
    OBVIOUS
  <2>2. p \in Request \X (1 .. TokenBudget) /\ p[2] <= Given(<<>>)[p[1]]
    BY DEF Tokens
  <2>3. Given(<<>>)[p[1]] = 0 /\ p[2] \in 1 .. TokenBudget
    BY <1>1, <2>2 DEF Given
  <2>. QED
    BY <2>1, <2>2, <2>3
<1>. QED
  BY <1>2, FS_EmptySet

\* What is scheduled, as numbers.
LEMMA GivenFacts ==
  ASSUME KInv
  PROVE  /\ scheduled \in Seq(Grant) /\ Given(scheduled) \in [Request -> Nat]
         /\ \A i \in DOMAIN scheduled : scheduled[i].n >= 1
         /\ \A i, j \in DOMAIN scheduled : scheduled[i].req = scheduled[j].req => i = j
<1>1. /\ \A i \in DOMAIN scheduled : scheduled[i].n >= 1
      /\ \A i, j \in DOMAIN scheduled : scheduled[i].req = scheduled[j].req => i = j
  BY DEF KInv, GrantOK, QInv, LoopOK
<1>2. scheduled \in Seq(Grant)
  BY Types
<1>. QED
  BY <1>1, <1>2, GivenTyped

\* A grant of n tokens takes n from the budget.
LEMMA GrantBudget ==
  ASSUME KInv, KInv', BudgetOK, NEW g \in Grant, scheduled' = Append(scheduled, g),
         budget' = budget - g.n, g.n <= budget, g.n >= 1,
         \A i \in DOMAIN scheduled : scheduled[i].req # g.req,
         pc \in Scheduling, pc' \in Scheduling, pc' # "allocate"
  PROVE  BudgetOK'
<1>1. budget \in Int /\ budget' \in Int /\ TokenBudget \in Nat /\ g.n \in Int /\ g.req \in Request
  BY Types, SchedulerAssumption, SMTT(30) DEF Grant
<1>2. budget >= 0 /\ budget + Cardinality(Charged) = TokenBudget
  BY DEF BudgetOK
<1>3. Given(scheduled) \in [Request -> Nat] /\ scheduled \in Seq(Grant) /\ scheduled' \in Seq(Grant)
  BY GivenFacts, Types
<1>4. /\ \A i, j \in DOMAIN scheduled : scheduled[i].req = scheduled[j].req => i = j
      /\ \A i, j \in DOMAIN scheduled' : scheduled'[i].req = scheduled'[j].req => i = j
  BY DEF KInv, QInv, LoopOK
<1>5. PICK s \in Seq(Grant), t \in Seq(Grant) : s = scheduled' /\ t = scheduled
  BY <1>3
<1>6. GivesMore(s, t, g)
  <2>1. /\ \A i \in DOMAIN t : i \in DOMAIN s /\ s[i] = t[i]
        /\ Len(t) + 1 \in DOMAIN s /\ s[Len(t) + 1] = g
        /\ \A i \in DOMAIN s : (i \in DOMAIN t /\ s[i] = t[i]) \/ s[i] = g
    BY <1>5, GrantFacts
  <2>2. g \in Elements(s)
    BY <2>1 DEF Elements
  <2>3. \A h \in Grant : h.req # g.req => (h \in Elements(s) <=> h \in Elements(t))
    BY <2>1 DEF Elements
  <2>4. /\ \A i, j \in DOMAIN s : s[i].req = s[j].req => i = j
        /\ \A i, j \in DOMAIN t : t[i].req = t[j].req => i = j
        /\ \A i \in DOMAIN t : t[i].req # g.req
    BY <1>4, <1>5
  <2>. QED
    BY <1>3, <1>5, <2>2, <2>3, <2>4, GivenDiffers
<1>7. Charged = Tokens(Given(t)) /\ Charged' = Tokens(Given(s))
  BY <1>5 DEF Charged
<1>8. Cardinality(Charged) \in Nat
  BY <1>7, TokensFinite
<1>9. Cardinality(Charged') = Cardinality(Charged) + g.n
  <2>1. g.n \in 0 .. TokenBudget
    BY <1>1, <1>2, <1>8
  <2>2. Cardinality(Tokens(Given(s))) = Cardinality(Tokens(Given(t))) + g.n
    BY <1>6, <2>1, GrantCharges
  <2>. QED
    BY <1>7, <2>2
<1>10. budget' >= 0 /\ budget' + Cardinality(Charged') = TokenBudget
  BY <1>1, <1>2, <1>8, <1>9
<1>11. \A i \in DOMAIN scheduled' : scheduled'[i].n <= TokenBudget
  <2>1. g.n <= TokenBudget
    BY <1>1, <1>2, <1>8
  <2>2. \A i \in DOMAIN scheduled' : (\E k \in DOMAIN scheduled : scheduled'[i] = scheduled[k])
                                     \/ scheduled'[i] = g
    BY <1>3, GrantFacts
  <2>. QED
    BY <2>1, <2>2 DEF BudgetOK
<1>. QED
  BY <1>10, <1>11 DEF BudgetOK

\* The number of tokens the running loop settles on is within the budget.
LEMMA TryBudget ==
  ASSUME KInv, BudgetOK, NEW r \in Request, TryRunning(r)
  PROVE  BudgetOK'
<1>1. /\ pc = "running" /\ pc' = "allocate" /\ budget' = budget /\ scheduled' = scheduled
      /\ trying' = <<[req |-> r, n |-> NumNewTokens(r)]>>
  BY DEF TryRunning, Visiting
<1>2. trying'[1].n = NumNewTokens(r)
  BY <1>1
<1>3. NumNewTokens(r) <= budget
  <2>1. /\ NumTokens(r) \in Int /\ placeholders[r] \in Int /\ computed[r] \in Int
        /\ budget \in Int /\ MaxModelLen \in Nat /\ LongPrefill \in Nat
    BY Types, SchedulerAssumption
  <2>. QED
    BY <2>1 DEF NumNewTokens, Capped, Min2
<1>4. Charged' = Charged
  BY <1>1 DEF Charged
<1>. QED
  BY <1>1, <1>2, <1>3, <1>4 DEF BudgetOK, Scheduling

\* The victim of a preemption returns its tokens to the budget.
LEMMA UndoBudget ==
  ASSUME KInv, KInv', BudgetOK, PreemptVictim
  PROVE  BudgetOK'
<1>1. Victim \in Request /\ \A i \in DOMAIN scheduled' : scheduled'[i].req # Victim
  BY PreemptVictimQueues DEF KInv
<1>2. PICK v \in Request : v = Victim
  BY <1>1
<1>. DEFINE undone == {i \in DOMAIN scheduled : scheduled[i].req = v}
            given == {scheduled[i] : i \in undone}
<1>3. /\ pc = "allocate" /\ scheduled' = Without(scheduled, given)
      /\ budget' = IF undone = {} THEN budget
                   ELSE budget + scheduled[CHOOSE i \in undone : TRUE].n
      /\ pc' = "finish" \/ (pc' = pc /\ trying' = trying)
  BY <1>2 DEF PreemptVictim, RemoveRequests
<1>4. PICK s \in Seq(Grant) : s = scheduled
  BY GivenFacts
<1>5. PICK t \in Seq(Grant) : t = scheduled'
  BY DEF KInv, QInv, Shape
<1>6. /\ \A i, j \in DOMAIN s : s[i].req = s[j].req => i = j
      /\ \A i, j \in DOMAIN t : t[i].req = t[j].req => i = j
      /\ \A i \in DOMAIN s : s[i].n >= 1
      /\ \A i \in DOMAIN t : t[i].n >= 1
      /\ \A i \in DOMAIN t : t[i].req # v
  BY <1>1, <1>2, <1>4, <1>5 DEF KInv, QInv, LoopOK, GrantOK
<1>7. Given(s) \in [Request -> Nat] /\ Given(t) \in [Request -> Nat]
  BY <1>6, GivenTyped
<1>8. \A h \in Grant : h.req # v => (h \in Elements(s) <=> h \in Elements(t))
  <2>1. Elements(t) = Elements(s) \ given
    BY <1>3, <1>4, <1>5, WithoutElements
  <2>2. \A h \in given : h.req = v
    OBVIOUS
  <2>. HIDE DEF given
  <2>. QED
    BY <2>1, <2>2
<1>9. /\ budget \in Int /\ budget' \in Int /\ TokenBudget \in Nat
      /\ budget >= 0 /\ budget + Cardinality(Charged) = TokenBudget
      /\ trying[1].n \in Int /\ trying[1].n <= budget
  BY <1>3, Types, TryingFacts, SchedulerAssumption DEF BudgetOK, Scheduling, KInv, QInv, Shape
<1>10. /\ Charged = Tokens(Given(s)) /\ Charged' = Tokens(Given(t))
       /\ Cardinality(Tokens(Given(s))) \in Nat /\ Cardinality(Tokens(Given(t))) \in Nat
  BY <1>4, <1>5, TokensFinite DEF Charged
<1>11. budget' >= budget /\ budget' + Cardinality(Tokens(Given(t))) = TokenBudget
  <2>1. CASE undone = {}
    <3>1. ASSUME NEW r \in Request PROVE NumIn(s, r) = NumIn(t, r)
      <4>1. CASE r = v
        <5>1. \A i \in DOMAIN s : s[i].req # r
          BY <1>4, <2>1, <4>1
        <5>. QED
          BY <1>6, <4>1, <5>1, NumInFacts
      <4>2. CASE r # v
        <5>1. \A h \in Grant : h.req = r => (h \in Elements(s) <=> h \in Elements(t))
          BY <1>8, <4>2
        <5>. QED
          BY <1>6, <5>1, SameGiven
      <4>. QED
        BY <4>1, <4>2
    <3>2. Given(s) = Given(t)
      BY <3>1 DEF Given
    <3>3. budget' = budget
      BY <1>3, <2>1
    <3>. QED
      BY <1>9, <1>10, <3>2, <3>3
  <2>2. CASE undone # {}
    <3>. DEFINE i0 == CHOOSE i \in undone : TRUE
    <3>1. i0 \in DOMAIN scheduled /\ scheduled[i0].req = v
      BY <2>2
    <3>2. budget' = budget + scheduled[i0].n
      BY <1>3, <2>2
    <3>. HIDE DEF i0
    <3>3. PICK g \in Grant : g = scheduled[i0]
      BY <1>4, <3>1
    <3>4. g \in Elements(s) /\ g.req = v /\ g.n >= 1 /\ g.n \in Int
      BY <1>4, <1>6, <3>1, <3>3 DEF Elements, Grant
    <3>5. GivesMore(s, t, g)
      BY <1>6, <1>7, <1>8, <3>4, GivenDiffers
    <3>6. g.n <= TokenBudget
      BY <3>1, <3>3 DEF BudgetOK
    <3>7. Cardinality(Tokens(Given(s))) = Cardinality(Tokens(Given(t))) + g.n
      BY <3>4, <3>5, <3>6, <1>9, GrantCharges
    <3>. QED
      BY <1>9, <1>10, <3>2, <3>3, <3>4, <3>7, SMTT(30)
  <2>. QED
    BY <2>1, <2>2
<1>12. pc' \in Scheduling /\ (pc' = "allocate" => trying'[1].n <= budget')
  BY <1>3, <1>9, <1>11 DEF Scheduling
<1>13. \A i \in DOMAIN scheduled' : scheduled'[i].n <= TokenBudget
  BY PreemptVictimQueues DEF KInv, BudgetOK
<1>. QED
  BY <1>9, <1>10, <1>11, <1>12, <1>13 DEF BudgetOK

\* The token budget of a step is spent and given back exactly.
LEMMA BudgetStep ==
  ASSUME KInv, KInv', BudgetOK, [Next]_vars
  PROVE  BudgetOK'
<1>0. scheduled \in Seq(Grant) /\ (pc \notin Scheduling => scheduled = <<>>)
  BY Types DEF KInv, QInv, ControlOK
<1>. DEFINE Same == UNCHANGED <<budget, trying, scheduled>> /\ pc' # "allocate"
                    /\ (pc' \in Scheduling <=> pc \in Scheduling)
<1>1. ASSUME Same PROVE BudgetOK'
  <2>1. Charged' = Charged
    BY <1>1 DEF Charged
  <2>. QED
    BY <1>1, <2>1 DEF BudgetOK
<1>2. ASSUME NEW r \in Request, Add(r) \/ Abort(r) PROVE Same
  BY <1>2 DEF Add, Abort, stepVars, scheduleVars
<1>3. ASSUME NEW resetRunning \in BOOLEAN, StartReset(resetRunning) PROVE Same
  BY <1>3 DEF StartReset, scheduleVars, Scheduling
<1>4. CASE ResetPreempt \/ ResetFinish \/ StepDrain \/ Collect \/ SkipOutput \/ DiscardOutput
           \/ FreeStopped \/ EndUpdate
  <2>1. Same
    BY <1>4 DEF ResetPreempt, ResetFinish, StepDrain, Collect, SkipOutput, DiscardOutput,
                FreeStopped, EndUpdate, HasEntry, stepVars, scheduleVars, Scheduling
  <2>. QED
    BY <1>1, <2>1
<1>5. CASE StepStart
  <2>1. pc = "idle" /\ pc' = "running" /\ budget' = TokenBudget /\ scheduled' = scheduled
    BY <1>5 DEF StepStart
  <2>2. scheduled' = <<>>
    BY <1>0, <2>1 DEF Scheduling
  <2>3. Cardinality(Charged') = 0 /\ TokenBudget \in Nat
    BY <2>2, NothingCharged, SchedulerAssumption DEF Charged
  <2>4. DOMAIN scheduled' = {}
    BY <2>2
  <2>5. budget' >= 0 /\ budget' + Cardinality(Charged') = TokenBudget
    BY <2>1, <2>3
  <2>. QED
    BY <2>1, <2>4, <2>5 DEF BudgetOK, Scheduling
<1>6. ASSUME NEW r \in Request, SkipRunning(r) PROVE Same
  BY <1>6 DEF SkipRunning, Visiting, Scheduling
<1>7. ASSUME NEW r \in Request, TryRunning(r) PROVE BudgetOK'
  BY <1>7, TryBudget
<1>8. CASE ScheduleRunning
  <2>1. /\ pc = "allocate" /\ pc' = "running"
        /\ scheduled' = Append(scheduled, trying[1]) /\ budget' = budget - trying[1].n
    BY <1>8 DEF ScheduleRunning
  <2>2. PICK g \in Grant : g = trying[1]
    BY <2>1, TryingFacts DEF KInv
  <2>3. g.n <= budget /\ g.n >= 1 /\ \A i \in DOMAIN scheduled : scheduled[i].req # g.req
    BY <2>1, <2>2 DEF BudgetOK, KInv, TryOK, QInv, LoopOK
  <2>. QED
    BY <2>1, <2>2, <2>3, GrantBudget DEF Scheduling
<1>9. CASE PreemptVictim
  BY <1>9, UndoBudget
<1>10. CASE EndRunning \/ EndWaiting
  <2>1. Same
    BY <1>10 DEF EndRunning, EndWaiting, scheduleVars, Scheduling
  <2>. QED
    BY <1>1, <2>1
<1>11. ASSUME NEW r \in Request, ScheduleWaiting(r) PROVE BudgetOK'
  <2>. DEFINE n == Min2(NumPrefill(r), budget)
  <2>1. /\ pc = "waiting" /\ pc' = "waiting" /\ waiting # <<>> /\ r = waiting[1] /\ budget > 0
        /\ scheduled' = Append(scheduled, [req |-> r, n |-> n]) /\ budget' = budget - n
    BY <1>11 DEF ScheduleWaiting, Admissible
  <2>2. n \in Int /\ n <= budget /\ n >= 1
    <3>1. budget \in Int /\ NumPrefill(r) \in Int /\ NumPrefill(r) >= 1
      BY Types, PrefillFacts, SMTT(30)
    <3>. QED
      BY <2>1, <3>1 DEF Min2
  <2>. HIDE DEF n
  <2>3. PICK g \in Grant : g = [req |-> r, n |-> n]
    BY <2>2 DEF Grant
  <2>4. g.req = r /\ g.n = n
    BY <2>3
  <2>5. \A i \in DOMAIN scheduled : scheduled[i].req # r
    <3>1. r \in Elements(waiting)
      BY <2>1, Types, TailElements DEF KInv, QInv, QueuesMatchStatus
    <3>. QED
      BY <3>1 DEF KInv, QInv, QueuesMatchStatus, ControlOK
  <2>. QED
    BY <2>1, <2>2, <2>3, <2>4, <2>5, GrantBudget DEF Scheduling
<1>12. CASE FinishSchedule
  <2>1. pc' \in {"collect", "idle"} /\ budget' = 0 /\ scheduled' = <<>>
    BY <1>12 DEF FinishSchedule
  <2>2. DOMAIN scheduled' = {}
    BY <2>1
  <2>. QED
    BY <2>1, <2>2 DEF BudgetOK, Scheduling
<1>13. ASSUME NEW eos \in BOOLEAN, TakeOutput(eos) PROVE Same
  BY <1>13 DEF TakeOutput, HasEntry, scheduleVars, Scheduling
<1>14. CASE UNCHANGED vars
  <2>1. UNCHANGED <<pc, budget, trying, scheduled>>
    BY <1>14 DEF vars, stepVars, scheduleVars
  <2>2. Charged' = Charged
    BY <2>1 DEF Charged
  <2>. QED
    BY <2>1, <2>2 DEF BudgetOK
<1>. HIDE DEF Same
<1>. QED
  BY <1>1, <1>2, <1>3, <1>4, <1>5, <1>6, <1>7, <1>8, <1>9, <1>10, <1>11, <1>12, <1>13, <1>14
     DEF Next, Client, Engine

\* A list of elements that are all in T is a list over T.
LEMMA SeqInto ==
  ASSUME NEW S, NEW T, NEW s \in Seq(S), \A i \in DOMAIN s : s[i] \in T
  PROVE  s \in Seq(T)
<1>1. Len(s) \in Nat /\ s \in [1 .. Len(s) -> S] /\ DOMAIN s = 1 .. Len(s)
  OBVIOUS
<1>2. s \in [1 .. Len(s) -> T]
  BY <1>1
<1>. QED
  BY <1>1, <1>2

\* The rest of the variables keep their types.
LEMMA RestStep ==
  ASSUME KInv, KInv', RestOK, [Next]_vars
  PROVE  RestOK'
<1>. DEFINE Same == UNCHANGED <<out, trying, idx, preempted>>
<1>1. ASSUME Same, finishedIds' \subseteq Request PROVE RestOK'
  BY <1>1 DEF RestOK
<1>2. ASSUME NEW r \in Request, Add(r) \/ Abort(r) PROVE RestOK'
  <2>1. Same /\ finishedIds' \subseteq Request
    BY <1>2 DEF Add, Abort, stepVars, scheduleVars, RestOK
  <2>. QED
    BY <1>1, <2>1
<1>3. ASSUME NEW resetRunning \in BOOLEAN, StartReset(resetRunning) PROVE RestOK'
  BY <1>3 DEF StartReset, reqVars, queueVars, scheduleVars, RestOK
<1>4. CASE ResetPreempt \/ ResetFinish \/ StepStart \/ StepDrain \/ EndRunning \/ EndWaiting
           \/ Collect \/ SkipOutput \/ DiscardOutput \/ EndUpdate
  <2>1. Same /\ finishedIds' \subseteq Request
    BY <1>4 DEF ResetPreempt, ResetFinish, StepStart, StepDrain, EndRunning, EndWaiting,
                Collect, SkipOutput, DiscardOutput, EndUpdate, reqVars, queueVars, stepVars,
                scheduleVars, RestOK
  <2>. QED
    BY <1>1, <2>1
<1>5. ASSUME NEW r \in Request, SkipRunning(r) PROVE RestOK'
  <2>1. idx \in Nat /\ idx' = idx + 1 /\ UNCHANGED <<out, trying, preempted, finishedIds>>
    BY <1>5 DEF SkipRunning, reqVars, queueVars, RestOK
  <2>2. idx' \in Nat
    BY <2>1
  <2>. QED
    BY <2>1, <2>2 DEF RestOK
<1>6. ASSUME NEW r \in Request, TryRunning(r) PROVE RestOK'
  <2>1. /\ trying' = <<[req |-> r, n |-> NumNewTokens(r)]>> /\ pc' = "allocate"
        /\ UNCHANGED <<out, idx, preempted, finishedIds>>
    BY <1>6 DEF TryRunning, reqVars, queueVars
  <2>2. trying'[1].n >= 1 /\ trying'[1].n = NumNewTokens(r)
    BY <2>1 DEF KInv, TryOK
  <2>3. NumNewTokens(r) \in Nat
    BY <2>2, NewTokensFacts DEF KInv, QInv
  <2>4. [req |-> r, n |-> NumNewTokens(r)] \in NatGrant
    BY <2>3 DEF NatGrant
  <2>5. trying' \in Seq(NatGrant)
    BY <2>1, <2>4
  <2>. QED
    BY <2>1, <2>5 DEF RestOK
<1>7. CASE ScheduleRunning
  <2>1. /\ idx \in Nat /\ idx' = idx + 1 /\ trying' = <<>>
        /\ UNCHANGED <<out, preempted, finishedIds>>
    BY <1>7 DEF ScheduleRunning, reqVars, queueVars, RestOK
  <2>2. idx' \in Nat /\ trying' \in Seq(NatGrant)
    BY <2>1
  <2>. QED
    BY <2>1, <2>2 DEF RestOK
<1>8. CASE PreemptVictim
  <2>1. /\ pc = "allocate" /\ idx' \in {idx, idx - 1} /\ preempted' = TRUE
        /\ trying' = <<>> \/ trying' = trying
        /\ UNCHANGED <<out, finishedIds>>
    BY <1>8 DEF PreemptVictim
  <2>2. idx \in Nat /\ idx >= 1
    BY <2>1 DEF RestOK, KInv, QInv, LoopOK
  <2>3. idx' \in Nat
    BY <2>1, <2>2
  <2>4. trying' \in Seq(NatGrant)
    <3>1. <<>> \in Seq(NatGrant) /\ trying \in Seq(NatGrant)
      BY DEF RestOK
    <3>. QED
      BY <2>1, <3>1
  <2>. QED
    BY <2>1, <2>3, <2>4 DEF RestOK
<1>9. ASSUME NEW r \in Request, ScheduleWaiting(r) PROVE RestOK'
  BY <1>9 DEF ScheduleWaiting, RestOK
<1>10. CASE FinishSchedule
  BY <1>10 DEF FinishSchedule, RestOK
<1>11. ASSUME NEW eos \in BOOLEAN, TakeOutput(eos) PROVE RestOK'
  <2>1. /\ HasEntry /\ Entry.pos # 0
        /\ out' = [out EXCEPT ![Entry.req] = Append(@, Entry.pos)]
        /\ UNCHANGED <<trying, idx, preempted, finishedIds>>
    BY <1>11 DEF TakeOutput, IsMoot, queueVars, scheduleVars
  <2>2. Entry.req \in Request /\ Entry.pos \in Int /\ 1 \in DOMAIN batches /\ 1 \in DOMAIN batches[1]
    BY <2>1, EntryFacts DEF KInv
  <2>3. Entry.pos >= 0
    BY <2>2 DEF KInv, BatchesOK, Entry
  <2>4. PICK r \in Request, p \in Nat : r = Entry.req /\ p = Entry.pos
    BY <2>2, <2>3
  <2>5. out' = [out EXCEPT ![r] = Append(@, p)] /\ out \in [Request -> Seq(Nat)]
    BY <2>1, <2>4 DEF RestOK
  <2>6. Append(out[r], p) \in Seq(Nat)
    BY <2>5
  <2>7. out' \in [Request -> Seq(Nat)]
    BY <2>5, <2>6
  <2>. QED
    BY <2>1, <2>7 DEF RestOK
<1>12. CASE FreeStopped
  <2>1. finishedIds' = finishedIds \cup {Entry.req} /\ Same /\ pc = "free"
    BY <1>12 DEF FreeStopped, scheduleVars
  <2>2. Entry.req \in Request
    BY <2>1, EntryFacts DEF KInv
  <2>3. finishedIds' \subseteq Request
    BY <2>1, <2>2 DEF RestOK
  <2>. QED
    BY <1>1, <2>1, <2>3
<1>13. CASE UNCHANGED vars
  BY <1>13 DEF vars, reqVars, queueVars, stepVars, scheduleVars, RestOK
<1>. QED
  BY <1>2, <1>3, <1>4, <1>5, <1>6, <1>7, <1>8, <1>9, <1>10, <1>11, <1>12, <1>13
     DEF Next, Client, Engine

\* A request fills a block at most to its end.
LEMMA FilledByBound ==
  ASSUME KInv, NEW b, NEW r \in Writers(b)
  PROVE  FilledBy(r, b) \in Int /\ FilledBy(r, b) <= BlockSize
<1>0. BlockSize \in Nat \ {0}
  BY SizeAssumption
<1>1. r \in Request /\ b \in Elements(reqBlocks[r])
  BY DEF Writers
<1>2. computed[r] \in Int /\ NumScheduled(r) \in Int /\ reqBlocks[r] \in Seq(Block)
  BY <1>1, Types, NumScheduledFits
<1>3. \E i \in DOMAIN reqBlocks[r] : reqBlocks[r][i] = b
  BY <1>1, <1>2 DEF Elements
<1>4. Place(r, b) \in DOMAIN reqBlocks[r]
  BY <1>3 DEF Place
<1>5. Place(r, b) \in Int
  BY <1>2, <1>4
<1>6. (Place(r, b) - 1) * BlockSize \in Int
  BY <1>0, <1>5
<1>7. computed[r] + NumScheduled(r) - (Place(r, b) - 1) * BlockSize \in Int
  BY <1>2, <1>6
<1>. QED
  BY <1>0, <1>7, MinFacts DEF FilledBy

\* A block is never filled beyond its end.
LEMMA FilledStep ==
  ASSUME KInv, FilledOK, [Next]_vars
  PROVE  FilledOK'
<1>0. BlockSize \in Nat \ {0}
  BY SizeAssumption
<1>1. ASSUME NEW r, NEW hits, NEW c, NEW n, Allocate(r, hits, c, n) PROVE FilledOK'
  BY <1>0, <1>1 DEF Allocate, FilledOK
<1>2. CASE FinishSchedule
  <2>. SUFFICES ASSUME NEW b \in Block
                PROVE  LET upTo == {FilledBy(r, b) : r \in Writers(b)} \cup {filled[b]}
                       IN (CHOOSE m \in upTo : \A k \in upTo : k <= m) \in 0 .. BlockSize
    BY <1>2 DEF FinishSchedule, FilledOK
  <2>. DEFINE upTo == {FilledBy(r, b) : r \in Writers(b)} \cup {filled[b]}
  <2>1. filled[b] \in 0 .. BlockSize /\ filled[b] \in upTo
    BY DEF FilledOK
  <2>2. \A k \in upTo : k \in Int /\ k <= BlockSize
    <3>1. ASSUME NEW r \in Writers(b) PROVE FilledBy(r, b) \in Int /\ FilledBy(r, b) <= BlockSize
      BY FilledByBound
    <3>. QED
      BY <1>0, <2>1, <3>1
  <2>. HIDE DEF upTo
  <2>. DEFINE S == {j \in 0 .. BlockSize : \E k \in upTo : j <= k}
  <2>3. S \in SUBSET (0 .. BlockSize) /\ 0 \in S /\ \A k \in S : \A j \in 0 .. k : j \in S
    <3>1. 0 \in S
      BY <1>0, <2>1
    <3>2. ASSUME NEW k \in S, NEW j \in 0 .. k PROVE j \in S
      <4>1. PICK u \in upTo : k <= u
        OBVIOUS
      <4>2. j \in 0 .. BlockSize /\ j <= u
        BY <1>0, <2>2, <4>1
      <4>. QED
        BY <4>2
    <3>. QED
      BY <3>1, <3>2
  <2>4. PICK m \in S : \A j \in S : j <= m
    BY <1>0, <2>3, InitialSegmentMax
  <2>5. PICK u \in upTo : m <= u
    OBVIOUS
  <2>6. u \in S
    BY <1>0, <2>2, <2>4, <2>5
  <2>7. ASSUME NEW k \in upTo PROVE k <= u
    <3>1. CASE k < 0
      BY <2>2, <2>6, <3>1
    <3>2. CASE k >= 0
      <4>1. k \in S
        BY <1>0, <2>2, <3>2
      <4>. QED
        BY <1>0, <2>2, <2>4, <2>5, <4>1
    <3>. QED
      BY <2>2, <3>1, <3>2
  <2>8. \E x \in upTo : \A k \in upTo : k <= x
    BY <2>7
  <2>. DEFINE top == CHOOSE x \in upTo : \A k \in upTo : k <= x
  <2>9. top \in upTo /\ \A k \in upTo : k <= top
    BY <2>8
  <2>. HIDE DEF top, S
  <2>10. top \in 0 .. BlockSize
    BY <1>0, <2>1, <2>2, <2>9
  <2>. QED
    BY <2>10 DEF top, upTo
<1>3. CASE ScheduleRunning \/ \E r \in Request : ScheduleWaiting(r)
  BY <1>1, <1>3 DEF ScheduleRunning, ScheduleWaiting
<1>4. CASE UNCHANGED filled
  BY <1>4 DEF FilledOK
<1>5. ASSUME NEW r \in Request, Add(r) \/ Abort(r) \/ SkipRunning(r) \/ TryRunning(r)
      PROVE  UNCHANGED filled
  BY <1>5 DEF Add, Abort, SkipRunning, TryRunning
<1>6. ASSUME NEW x \in BOOLEAN, StartReset(x) \/ TakeOutput(x) PROVE UNCHANGED filled
  BY <1>6 DEF StartReset, TakeOutput
<1>7. ASSUME ResetPreempt \/ ResetFinish \/ StepStart \/ StepDrain \/ PreemptVictim \/ EndRunning
             \/ EndWaiting \/ Collect \/ SkipOutput \/ DiscardOutput \/ FreeStopped \/ EndUpdate
             \/ UNCHANGED vars
      PROVE  UNCHANGED filled
  BY <1>7 DEF ResetPreempt, ResetFinish, StepStart, StepDrain, PreemptVictim, EndRunning,
              EndWaiting, Collect, SkipOutput, DiscardOutput, FreeStopped, EndUpdate, vars
<1>. QED
  BY <1>2, <1>3, <1>4, <1>5, <1>6, <1>7 DEF Next, Client, Engine

\* What the parts of the invariant say about types.
LEMMA TypesFollow ==
  ASSUME KInv, BudgetOK, RestOK, FilledOK
  PROVE  KVTypeOK => TypeOK
<1>1. /\ MaxModelLen \in Nat /\ TokenBudget \in Nat
      /\ computed \in [Request -> Int] /\ placeholders \in [Request -> Int]
      /\ batches \in Seq(Seq(Output)) /\ scheduled \in Seq(Grant) /\ budget \in Int
  BY Types, SchedulerAssumption
<1>2. ASSUME NEW r \in Request
      PROVE  computed[r] \in 0 .. MaxModelLen - 1 /\ placeholders[r] \in Nat
  <2>1. CountersOK(r) /\ computed[r] \in Int /\ placeholders[r] \in Int
    BY <1>1 DEF KInv
  <2>2. computed[r] >= 0 /\ placeholders[r] >= 0 /\ computed[r] + 0 <= MaxModelLen - 1
    BY <2>1 DEF CountersOK, Fits
  <2>. QED
    BY <1>1, <2>1, <2>2
<1>3. computed \in [Request -> 0 .. MaxModelLen - 1] /\ placeholders \in [Request -> Nat]
  BY <1>1, <1>2
<1>. DEFINE NatOutput == [req : Request, pos : Nat]
<1>4. batches \in Seq(Seq(NatOutput))
  <2>1. ASSUME NEW i \in DOMAIN batches PROVE batches[i] \in Seq(NatOutput)
    <3>1. batches[i] \in Seq(Output)
      BY <1>1
    <3>2. ASSUME NEW j \in DOMAIN batches[i] PROVE batches[i][j] \in NatOutput
      <4>1. batches[i][j] \in Output /\ batches[i][j].pos >= 0
        BY <3>1 DEF KInv, BatchesOK
      <4>. QED
        BY <4>1 DEF Output
    <3>. HIDE DEF NatOutput
    <3>. QED
      BY <3>1, <3>2, SeqInto
  <2>. HIDE DEF NatOutput
  <2>. QED
    BY <1>1, <2>1, SeqInto
<1>5. scheduled \in Seq(NatGrant)
  <2>1. ASSUME NEW i \in DOMAIN scheduled PROVE scheduled[i] \in NatGrant
    <3>1. scheduled[i] \in Grant /\ scheduled[i].n >= 1
      BY <1>1 DEF KInv, GrantOK
    <3>. QED
      BY <3>1 DEF Grant, NatGrant
  <2>. QED
    BY <1>1, <2>1, SeqInto
<1>6. budget \in 0 .. TokenBudget
  <2>1. Cardinality(Charged) \in Nat
    BY TokensFinite DEF Charged
  <2>. QED
    BY <1>1, <2>1 DEF BudgetOK
<1>7. /\ status \in [Request -> Statuses] /\ waiting \in Seq(Request) /\ running \in Seq(Request)
      /\ discard \in [Request -> BOOLEAN] /\ resets \in 0 .. MaxResets
      /\ pc \in {"idle", "reset", "running", "allocate", "waiting", "finish", "collect",
                 "update", "free"}
  BY DEF KInv, QInv, Shape
<1>. QED
  BY <1>3, <1>4, <1>5, <1>6, <1>7 DEF TypeOK, RestOK, FilledOK, NatGrant

\* No request is computed beyond max_model_len - 1, no step spends more than its
\* token budget although preempted requests give theirs back, and a token that
\* is returned has a placeholder.
THEOREM EngineTypeCorrect ==
  ASSUME LengthsFit, ResetsFit
  PROVE  Spec => []TypeOK
<1>1. Init => BudgetOK /\ RestOK /\ FilledOK
  <2>. SUFFICES ASSUME Init PROVE BudgetOK /\ RestOK /\ FilledOK
    OBVIOUS
  <2>1. /\ out = [r \in Request |-> <<>>] /\ finishedIds = {} /\ pc = "idle" /\ idx = 1
        /\ budget = 0 /\ trying = <<>> /\ scheduled = <<>> /\ preempted = FALSE
        /\ filled = [b \in Block |-> 0]
    BY DEF Init
  <2>2. BlockSize \in Nat
    BY SizeAssumption
  <2>3. FilledOK
    BY <2>1, <2>2 DEF FilledOK
  <2>4. <<>> \in Seq(Nat) /\ <<>> \in Seq(NatGrant)
    OBVIOUS
  <2>5. RestOK
    BY <2>1, <2>4 DEF RestOK
  <2>6. BudgetOK
    BY <2>1 DEF BudgetOK, Scheduling
  <2>. QED
    BY <2>3, <2>5, <2>6
<1>2. KInv /\ KInv' /\ (BudgetOK /\ RestOK /\ FilledOK) /\ [Next]_vars
        => (BudgetOK /\ RestOK /\ FilledOK)'
  BY BudgetStep, RestStep, FilledStep
<1>3. KInv /\ BudgetOK /\ RestOK /\ FilledOK /\ KVTypeOK => TypeOK
  BY TypesFollow
<1>. QED
  BY <1>1, <1>2, <1>3, KVInvariant, KeepsContract, TypeCorrect, PTL
     DEF Spec, ImplementsKVCacheManager

\* token_budget is what the grants of the step have left, for every policy and
\* every victim that is rolled back after it was scheduled, and only a running
\* request has a grant, one.
THEOREM BooksBalance ==
  ASSUME LengthsFit, ResetsFit
  PROVE  Spec => []StepBooksBalance
<1>1. Init => BudgetOK
  BY DEF Init, BudgetOK, Scheduling
<1>2. KInv /\ KInv' /\ BudgetOK /\ [Next]_vars => BudgetOK'
  BY BudgetStep
<1>3. KInv /\ BudgetOK => StepBooksBalance
  <2>. SUFFICES ASSUME KInv, BudgetOK, pc \in Scheduling
                PROVE  /\ budget + Cardinality(GrantedTokens) = TokenBudget
                       /\ \A i, j \in DOMAIN scheduled :
                            /\ scheduled[i].req \in Elements(running)
                            /\ scheduled[i].req = scheduled[j].req => i = j
    BY DEF StepBooksBalance
  <2>1. \A r \in Request : Given(scheduled)[r] = NumScheduled(r)
    BY DEF Given, NumIn, NumScheduled
  <2>2. Charged = GrantedTokens
    BY <2>1 DEF Charged, Tokens, GrantedTokens
  <2>3. PICK s \in Seq(Grant) : s = scheduled
    BY Types
  <2>4. \A i \in DOMAIN scheduled : scheduled[i].req \in Elements(running)
    <3>. SUFFICES ASSUME NEW i \in DOMAIN scheduled PROVE scheduled[i].req \in Elements(running)
      OBVIOUS
    <3>0. s[i] \in Grant
      BY <2>3
    <3>1. PICK r \in Request : r = scheduled[i].req
      BY <2>3, <3>0 DEF Grant
    <3>2. status[r] = "RUNNING"
      BY <3>1 DEF KInv, QInv, ControlOK
    <3>. QED
      BY <3>1, <3>2 DEF KInv, QInv, QueuesMatchStatus
  <2>5. \A i, j \in DOMAIN scheduled : scheduled[i].req = scheduled[j].req => i = j
    BY DEF KInv, QInv, LoopOK
  <2>. QED
    BY <2>2, <2>4, <2>5 DEF BudgetOK
<1>. QED
  BY <1>1, <1>2, <1>3, KVInvariant, PTL DEF Spec

----------------------------------------------------------------------------
(* First come, first served: what the prefix cache offers is computed by   *)
(* the time the next step may hit it.                                      *)

\* The grant g lets its request fill block b to its end.
Completes(g, b) ==
  \E i \in DOMAIN reqBlocks[g.req] :
    /\ reqBlocks[g.req][i] = b
    /\ computed[g.req] < i * BlockSize /\ i * BlockSize <= computed[g.req] + g.n

\* The block is written to its end, or the batch of this step will do it.
Ready(b) == filled[b] = BlockSize \/ \E k \in DOMAIN scheduled : Completes(scheduled[k], b)

\* What a request counts as computed is in its blocks.
TablesReady ==
  \A r \in Request : \A i \in DOMAIN reqBlocks[r] :
    i * BlockSize <= computed[r] => Ready(reqBlocks[r][i])

\* What the prefix cache offers is ready, too.
CacheReady == \A b \in Block : pool.hash[b] # NoHash => Ready(b)

\* The request blocks are asked for stands at the index: the victim is the last
\* request of the list, never one before the index.
AtIndex == pc = "allocate" => idx \in DOMAIN running /\ running[idx] = trying[1].req

\* The inductive invariant of the prefix cache.
CInv == KInv /\ FilledOK /\ TablesReady /\ CacheReady /\ AtIndex

\* Between steps nothing is scheduled, so a ready block is a computed one.
LEMMA ReadyIsComputed == ASSUME CInv PROVE CachedBlocksComputed
<1>. SUFFICES ASSUME pc \in {"idle", "collect", "update", "free"},
                     NEW b \in Block, pool.hash[b] # NoHash
              PROVE  filled[b] = BlockSize
  BY DEF CachedBlocksComputed
<1>1. scheduled = <<>>
  BY DEF CInv, KInv, QInv, ControlOK, Scheduling
<1>. QED
  BY <1>1 DEF CInv, CacheReady, Ready

\* The table of s keeps what it has, and s its progress.
KeepsTable(s) ==
  /\ computed'[s] = computed[s]
  /\ \A i \in DOMAIN reqBlocks[s] : i \in DOMAIN reqBlocks'[s] /\ reqBlocks'[s][i] = reqBlocks[s][i]

\* A ready block stays ready as long as the grants stay and their requests keep
\* their tables.
LEMMA ReadyKept ==
  ASSUME NEW b, Ready(b), filled'[b] = filled[b],
         \A k \in DOMAIN scheduled : /\ KeepsTable(scheduled[k].req)
                                     /\ \E j \in DOMAIN scheduled' : scheduled'[j] = scheduled[k]
  PROVE  Ready(b)'
<1>1. CASE filled[b] = BlockSize
  BY <1>1 DEF Ready
<1>2. CASE \E k \in DOMAIN scheduled : Completes(scheduled[k], b)
  <2>1. PICK k \in DOMAIN scheduled : Completes(scheduled[k], b)
    BY <1>2
  <2>2. PICK j \in DOMAIN scheduled' : scheduled'[j] = scheduled[k]
    OBVIOUS
  <2>3. PICK g : g = scheduled[k]
    OBVIOUS
  <2>4. Completes(g, b) /\ KeepsTable(g.req) /\ scheduled'[j] = g
    BY <2>1, <2>2, <2>3
  <2>5. PICK i \in DOMAIN reqBlocks[g.req] :
          /\ reqBlocks[g.req][i] = b
          /\ computed[g.req] < i * BlockSize /\ i * BlockSize <= computed[g.req] + g.n
    BY <2>4 DEF Completes
  <2>6. /\ i \in DOMAIN reqBlocks'[g.req] /\ reqBlocks'[g.req][i] = b
        /\ computed'[g.req] < i * BlockSize /\ i * BlockSize <= computed'[g.req] + g.n
    BY <2>4, <2>5 DEF KeepsTable
  <2>. QED
    BY <2>4, <2>6 DEF Ready, Completes
<1>. QED
  BY <1>1, <1>2 DEF Ready

\* A step that gives no block a hash and leaves every table as it is or empties
\* it keeps the invariant.
LEMMA CacheKept ==
  ASSUME CInv, KInv', FilledOK', AtIndex', UNCHANGED filled,
         \A b \in Block : pool'.hash[b] \in {pool.hash[b], NoHash},
         \A r \in Request : reqBlocks'[r] = <<>> \/ (reqBlocks'[r] = reqBlocks[r] /\ computed'[r] = computed[r]),
         \A k \in DOMAIN scheduled : /\ KeepsTable(scheduled[k].req)
                                     /\ \E j \in DOMAIN scheduled' : scheduled'[j] = scheduled[k]
  PROVE  CInv'
<1>1. \A b : Ready(b) => Ready(b)'
  BY ReadyKept
<1>2. ASSUME NEW r \in Request, NEW i \in DOMAIN reqBlocks'[r], i * BlockSize <= computed'[r]
      PROVE  Ready(reqBlocks[r][i])'
  <2>1. reqBlocks'[r] = reqBlocks[r] /\ computed'[r] = computed[r]
    BY <1>2
  <2>2. PICK b : b = reqBlocks[r][i]
    OBVIOUS
  <2>3. Ready(b)
    BY <1>2, <2>1, <2>2 DEF CInv, TablesReady
  <2>4. Ready(b)' /\ b = reqBlocks'[r][i]
    BY <1>1, <2>1, <2>2, <2>3
  <2>. QED
    BY <2>4 DEF Ready, Completes
<1>3. TablesReady'
  BY <1>2 DEF TablesReady
<1>4. CacheReady'
  <2>. SUFFICES ASSUME NEW b \in Block, pool'.hash[b] # NoHash PROVE Ready(b)'
    BY DEF CacheReady
  <2>1. Ready(b)
    BY DEF CInv, CacheReady
  <2>. QED
    BY <1>1, <2>1
<1>. QED
  BY <1>3, <1>4 DEF CInv

\* How the scheduler calls allocate_slots.
Asks(r, hits, c, n) ==
  /\ Live(r) /\ c + n <= MaxModelLen - 1
  /\ hits = IF reqBlocks[r] = <<>> THEN Hits(r) ELSE <<>>
  /\ Allocate(r, hits, c, n)

\* What allocate_slots gives: the table keeps what it had and the
\* hits, the new blocks come from the free queue, and a block that gains a hash
\* ends within the tokens of the grant.
LEMMA AllocateGives ==
  ASSUME KInv, NEW r \in Request, NEW hits, NEW c \in Nat, NEW n \in Nat \ {0},
         Asks(r, hits, c, n), NEW known, known = reqBlocks[r] \o hits
  PROVE  Gains(r, known, c + n)
<1>. DEFINE t == NumTokens(r)
            commit == Min2(c + n, t)
<1>1. /\ t \in 1 .. Len(Stream[r]) /\ t \in Nat \ {0} /\ Len(Stream[r]) \in Nat
      /\ MaxModelLen \in Nat /\ BlockSize \in Nat \ {0}
  BY StreamCovers, Types DEF Asks
<1>2. Sound(pool, reqBlocks, numCached) /\ ~error
  BY DEF KInv, Inv
<1>3. AllocateSlots(r, hits, NeedSlot(c, n), commit)
  BY DEF Asks, Allocate
<1>. HIDE DEF t
<1>4. NeedSlot(c, n) = c + n /\ c + n \in Nat
  BY <1>1 DEF Asks, NeedSlot, Min2
<1>5. commit \in Nat /\ commit <= c + n /\ commit <= Len(Stream[r])
  <2>1. t \in Nat /\ t <= Len(Stream[r])
    BY <1>1
  <2>. QED
    BY <1>1, <1>4, <2>1 DEF Min2
<1>. HIDE DEF commit
<1>6. IsHit(pool, r, hits)
  <2>1. CASE reqBlocks[r] = <<>>
    BY <1>1, <1>2, <2>1, HitsAreHits DEF Asks, Hits, t
  <2>2. CASE reqBlocks[r] # <<>>
    BY <2>2 DEF Asks, IsHit
  <2>. QED
    BY <2>1, <2>2
<1>7. hits = <<>> \/ reqBlocks[r] = <<>>
  BY DEF Asks
<1>8. PICK m, k : m = c + n /\ k = commit
  OBVIOUS
<1>9. m \in Nat /\ k \in Nat /\ k <= m /\ k <= Len(Stream[r]) /\ AllocateSlots(r, hits, m, k)
  BY <1>3, <1>4, <1>5, <1>8
<1>10. Gains(r, known, k)
  BY <1>2, <1>6, <1>7, <1>9, AllocateFields
<1>11. ASSUME NEW i \in DOMAIN reqBlocks'[r], i * BlockSize <= k PROVE i * BlockSize <= c + n
  <2>1. i \in Nat
    BY <1>10 DEF Gains
  <2>2. i * BlockSize \in Nat
    BY <1>1, <2>1
  <2>. QED
    BY <1>8, <1>9, <1>11, <2>2
<1>. QED
  BY <1>10, <1>11, Zenon DEF Gains

\* The step gives r, computed up to c, n tokens, its first in this step.
Granted(r, c, n) ==
  /\ computed'[r] = c /\ \A s \in Request : s # r => computed'[s] = computed[s]
  /\ scheduled' = Append(scheduled, [req |-> r, n |-> n])
  /\ \A k \in DOMAIN scheduled : scheduled[k].req # r

\* The blocks it starts from reach to c, and are ready up to there.
KnownReady(known, c) ==
  /\ c <= Len(known) * BlockSize
  /\ \A i \in DOMAIN known : i * BlockSize <= c => Ready(known[i])

\* allocate_slots: the blocks it takes come from the free queue, so they are in
\* no table and nothing is expected of them; a hit carries a hash, so it is
\* ready; and a block that gains a hash ends within what is computed, or within
\* what the step has just given the request.
LEMMA AllocateReady ==
  ASSUME CInv, KInv', FilledOK', NEW r \in Request, NEW hits, NEW c \in Nat, NEW n \in Nat \ {0},
         Asks(r, hits, c, n), Granted(r, c, n), NEW known, known = reqBlocks[r] \o hits,
         KnownReady(known, c), pc' # "allocate"
  PROVE  CInv'
<1>. DEFINE table == reqBlocks'[r]
            new == Elements(table) \ Elements(known)
<1>1. BlockSize \in Nat \ {0} /\ c + n \in Nat
  BY SizeAssumption
<1>2. Sound(pool, reqBlocks, numCached) /\ scheduled \in Seq(Grant)
  BY Types DEF CInv, KInv, Inv
<1>3. Gains(r, known, c + n)
  BY AllocateGives DEF CInv
<1>4. filled' = [b \in Block |-> IF b \in new THEN 0 ELSE filled[b]]
  BY DEF Asks, Allocate
<1>5. /\ known \in Seq(Block) /\ table \in Seq(Block)
      /\ \A i \in DOMAIN known : i \in DOMAIN table /\ table[i] = known[i]
      /\ \A b \in new : b \in Elements(pool.free)
      /\ \A b \in Block : pool'.hash[b] # NoHash =>
           \/ pool.hash[b] # NoHash /\ b \notin new
           \/ \E i \in DOMAIN table : table[i] = b /\ i * BlockSize <= c + n
  BY <1>3 DEF Gains
<1>. HIDE DEF table, new
<1>6. \A s \in Request : s # r => reqBlocks'[s] = reqBlocks[s]
  BY AllocateTables DEF Asks, CInv, KInv, QInv, Shape
<1>. DEFINE g == [req |-> r, n |-> n]
<1>7. /\ scheduled' \in Seq(Grant) /\ Len(scheduled) + 1 \in DOMAIN scheduled'
      /\ \A k \in DOMAIN scheduled : k \in DOMAIN scheduled' /\ scheduled'[k] = scheduled[k]
      /\ scheduled'[Len(scheduled) + 1] = g
  <2>1. /\ scheduled' \in Seq(Grant) /\ Len(scheduled') = Len(scheduled) + 1
        /\ \A k \in DOMAIN scheduled : k \in DOMAIN scheduled' /\ scheduled'[k] = scheduled[k]
        /\ scheduled'[Len(scheduled) + 1] = g
    <3>1. g \in Grant /\ scheduled' = Append(scheduled, g)
      BY DEF Grant, Granted
    <3>. HIDE DEF g
    <3>. QED
      BY <1>2, <3>1, GrantFacts
  <2>2. Len(scheduled) \in Nat /\ DOMAIN scheduled' = 1 .. Len(scheduled')
    BY <1>2, <2>1
  <2>. HIDE DEF g
  <2>. QED
    BY <2>1, <2>2
<1>8. g.req = r /\ g.n = n
  OBVIOUS
<1>9. computed'[r] = c /\ \A s \in Request : s # r => computed'[s] = computed[s]
  BY DEF Granted
<1>. HIDE DEF g
<1>10. ASSUME NEW b, Ready(b), b \in Block, b \notin new PROVE Ready(b)'
  <2>1. filled'[b] = filled[b]
    BY <1>4, <1>10
  <2>2. ASSUME NEW k \in DOMAIN scheduled
        PROVE  /\ KeepsTable(scheduled[k].req)
               /\ \E j \in DOMAIN scheduled' : scheduled'[j] = scheduled[k]
    <3>1. scheduled[k].req \in Request /\ scheduled[k].req # r
      <4>1. scheduled[k] \in Grant
        BY <1>2
      <4>. QED
        BY <4>1 DEF Grant, Granted
    <3>. QED
      BY <1>6, <1>7, <1>9, <3>1 DEF KeepsTable
  <2>. QED
    BY <1>10, <2>1, <2>2, ReadyKept
<1>11. ASSUME NEW s \in Request, NEW b \in Elements(reqBlocks[s]) PROVE b \in Block /\ b \notin new
  <2>1. reqBlocks[s] \in Seq(Block)
    BY Types DEF CInv
  <2>2. b \notin Elements(pool.free)
    BY <1>2, FreeBlocksUnheld
  <2>. QED
    <3>1. b \in Block
      BY <2>1 DEF Elements
    <3>2. b \notin new
      BY <1>5, <2>2
    <3>. QED
      BY <3>1, <3>2
<1>12. ASSUME NEW s \in Request, NEW i \in DOMAIN reqBlocks'[s], i * BlockSize <= computed'[s],
              NEW b, b = reqBlocks'[s][i]
       PROVE  Ready(b)'
  <2>1. CASE s # r
    <3>1. i \in DOMAIN reqBlocks[s] /\ b = reqBlocks[s][i] /\ i * BlockSize <= computed[s]
      BY <1>6, <1>9, <1>12, <2>1
    <3>2. Ready(b) /\ b \in Elements(reqBlocks[s])
      BY <3>1 DEF CInv, TablesReady, Elements
    <3>. QED
      BY <1>10, <1>11, <3>2
  <2>2. CASE s = r
    <3>1. i \in DOMAIN table /\ b = table[i] /\ i * BlockSize <= c
      BY <1>9, <1>12, <2>2 DEF table
    <3>2. i \in Nat \ {0} /\ Len(known) \in Nat /\ DOMAIN known = 1 .. Len(known)
      BY <1>5, <3>1
    <3>3. i <= Len(known)
      <4>. SUFFICES ASSUME i >= Len(known) + 1 PROVE FALSE
        BY <3>2
      <4>1. i * BlockSize >= (Len(known) + 1) * BlockSize
        <5>1. PICK l \in Nat, z \in Nat : l = Len(known) + 1 /\ z = BlockSize
          BY <1>1, <3>2
        <5>2. i >= l
          BY <5>1
        <5>3. i * z >= l * z
          BY <3>2, <5>2
        <5>. QED
          BY <5>1, <5>3
      <4>2. (Len(known) + 1) * BlockSize = Len(known) * BlockSize + BlockSize
        BY <1>1, <3>2
      <4>3. Len(known) * BlockSize \in Nat /\ i * BlockSize \in Nat
        BY <1>1, <3>2
      <4>4. c <= Len(known) * BlockSize
        BY DEF KnownReady
      <4>. QED
        BY <1>1, <3>1, <4>1, <4>2, <4>3, <4>4
    <3>4. i \in DOMAIN known /\ known[i] = b
      <4>1. i \in DOMAIN known
        BY <3>2, <3>3
      <4>. QED
        BY <1>5, <3>1, <4>1
    <3>5. Ready(b) /\ b \in Elements(known)
      BY <3>1, <3>4 DEF KnownReady, Elements
    <3>6. b \in Block /\ b \notin new
      BY <1>5, <3>4, <3>5 DEF new
    <3>. QED
      BY <1>10, <3>5, <3>6
  <2>. QED
    BY <2>1, <2>2
<1>13. TablesReady'
  <2>. SUFFICES ASSUME NEW s \in Request, NEW i \in DOMAIN reqBlocks'[s],
                       i * BlockSize <= computed'[s]
                PROVE  Ready(reqBlocks[s][i])'
    BY DEF TablesReady
  <2>1. PICK b : b = reqBlocks'[s][i]
    OBVIOUS
  <2>2. Ready(b)'
    BY <1>12, <2>1
  <2>. QED
    BY <2>1, <2>2 DEF Ready, Completes
<1>14. CacheReady'
  <2>. SUFFICES ASSUME NEW b \in Block, pool'.hash[b] # NoHash PROVE Ready(b)'
    BY DEF CacheReady
  <2>1. CASE pool.hash[b] # NoHash /\ b \notin new
    <3>1. Ready(b)
      BY <2>1 DEF CInv, CacheReady
    <3>. QED
      BY <1>10, <2>1, <3>1
  <2>2. ASSUME NEW i \in DOMAIN table, table[i] = b, i * BlockSize <= c + n
        PROVE  Ready(b)'
    <3>1. i \in Nat /\ i * BlockSize \in Nat
      <4>1. i \in Nat
        BY <1>5
      <4>. QED
        BY <1>1, <4>1
    <3>2. CASE i * BlockSize <= c
      BY <1>9, <1>12, <2>2, <3>2 DEF table
    <3>3. CASE c < i * BlockSize
      <4>1. /\ i \in DOMAIN reqBlocks'[g.req] /\ reqBlocks'[g.req][i] = b
            /\ computed'[g.req] < i * BlockSize /\ i * BlockSize <= computed'[g.req] + g.n
        BY <1>8, <1>9, <2>2, <3>3 DEF table
      <4>2. PICK k \in DOMAIN scheduled' : scheduled'[k] = g
        BY <1>7
      <4>. QED
        BY <4>1, <4>2 DEF Ready, Completes
    <3>. QED
      BY <3>1, <3>2, <3>3
  <2>. QED
    BY <1>5, <2>1, <2>2
<1>. QED
  BY <1>13, <1>14 DEF CInv, AtIndex

\* A running request gets its slots.
LEMMA ScheduleRunningReady ==
  ASSUME CInv, KInv', FilledOK', ScheduleRunning
  PROVE  CInv'
<1>1. pc = "allocate" /\ KInv /\ QInv
  BY DEF ScheduleRunning, CInv, KInv
<1>2. PICK g \in Grant : g = trying[1]
  BY <1>1, TryingFacts
<1>3. PICK r \in Request, n \in Int : r = g.req /\ n = g.n
  BY DEF Grant
<1>4. /\ Allocate(r, <<>>, computed[r], n)
      /\ scheduled' = Append(scheduled, g) /\ pc' = "running" /\ computed' = computed
  BY <1>2, <1>3 DEF ScheduleRunning, reqVars
<1>5. status[r] = "RUNNING" /\ n >= 1 /\ Fits(r, n)
  BY <1>1, <1>2, <1>3, TryingFacts DEF KInv, TryOK
<1>6. Live(r) /\ CountersOK(r) /\ computed[r] \in Int /\ MaxModelLen \in Nat
  BY <1>1, <1>5, Types DEF KInv, Live, Unfinished
<1>7. PICK c \in Nat : c = computed[r]
  BY <1>6 DEF CountersOK
<1>8. /\ n \in Nat \ {0} /\ c + n <= MaxModelLen - 1
      /\ reqBlocks[r] # <<>> /\ c <= Len(reqBlocks[r]) * BlockSize
  BY <1>5, <1>6, <1>7 DEF CountersOK, Fits, Slots
<1>9. Asks(r, <<>>, c, n)
  BY <1>4, <1>6, <1>7, <1>8 DEF Asks
<1>10. g = [req |-> r, n |-> n]
  BY <1>3 DEF Grant
<1>11. Granted(r, c, n)
  <2>1. \A k \in DOMAIN scheduled : scheduled[k].req # r
    BY <1>1, <1>2, <1>3 DEF QInv, LoopOK
  <2>. QED
    BY <1>4, <1>7, <1>10, <2>1 DEF Granted
<1>12. reqBlocks[r] \in Seq(Block)
  BY <1>1, Types
<1>13. PICK known : known = reqBlocks[r]
  OBVIOUS
<1>14. known = reqBlocks[r] \o <<>>
  BY <1>12, <1>13, ConcatEmptySeq
<1>15. KnownReady(known, c)
  BY <1>7, <1>8, <1>13 DEF KnownReady, CInv, TablesReady
<1>. QED
  BY <1>4, <1>8, <1>9, <1>11, <1>14, <1>15, AllocateReady

\* The head of the waiting queue is admitted with its hits.
LEMMA ScheduleWaitingReady ==
  ASSUME CInv, KInv', FilledOK', NEW r \in Request, ScheduleWaiting(r)
  PROVE  CInv'
<1>0. KInv /\ QInv
  BY DEF CInv, KInv
<1>1. PICK c \in Nat, n \in Int : c = NumHitTokens(r) /\ n = Min2(NumPrefill(r), budget)
  <2>1. NumHitTokens(r) \in Nat /\ NumPrefill(r) \in Int /\ budget \in Int
    BY <1>0, PrefillFacts, Types, SMTT(30)
  <2>. QED
    BY <2>1, MinFacts
<1>2. /\ pc = "waiting" /\ pc' = "waiting" /\ waiting # <<>> /\ r = waiting[1] /\ budget > 0
      /\ Allocate(r, Hits(r), c, n)
      /\ computed' = [computed EXCEPT ![r] = c]
      /\ scheduled' = Append(scheduled, [req |-> r, n |-> n])
  BY <1>1 DEF ScheduleWaiting, Admissible
<1>3. status[r] \in {"WAITING", "PREEMPTED"} /\ reqBlocks[r] = <<>>
  <2>1. r \in Elements(waiting)
    BY <1>0, <1>2, TailElements DEF QInv, QueuesMatchStatus, Shape
  <2>. QED
    BY <1>0, <2>1 DEF QInv, QueuesMatchStatus
<1>4. Live(r)
  BY <1>2, <1>3 DEF Live, Unfinished
<1>5. /\ NumTokens(r) \in Nat /\ NumTokens(r) <= MaxModelLen - 1 /\ MaxModelLen \in Nat
      /\ budget \in Int /\ Len(Hits(r)) \in Nat /\ c = Len(Hits(r)) * BlockSize
      /\ c <= NumTokens(r) - 1 /\ NumPrefill(r) \in 1 .. NumTokens(r) - c
  BY <1>0, <1>1, <1>4, StreamCovers, PrefillFacts, Types DEF NumHitTokens
<1>6. n \in Nat \ {0} /\ n <= NumTokens(r) - c
  BY <1>1, <1>2, <1>5 DEF Min2
<1>7. c + n <= MaxModelLen - 1
  BY <1>5, <1>6
<1>8. PICK hits : hits = Hits(r)
  OBVIOUS
<1>9. Asks(r, hits, c, n)
  BY <1>2, <1>3, <1>4, <1>7, <1>8 DEF Asks
<1>10. Granted(r, c, n)
  <2>1. ASSUME NEW k \in DOMAIN scheduled PROVE scheduled[k].req # r
    <3>1. status[scheduled[k].req] = "RUNNING"
      BY <1>0 DEF QInv, ControlOK
    <3>. QED
      BY <1>3, <3>1
  <2>2. computed'[r] = c /\ \A s \in Request : s # r => computed'[s] = computed[s]
    BY <1>0, <1>2, Types
  <2>. QED
    BY <1>2, <2>1, <2>2 DEF Granted
<1>11. Sound(pool, reqBlocks, numCached) /\ NumTokens(r) \in Nat \ {0}
  BY <1>0, <1>5, Types DEF KInv, Inv
<1>12. IsHit(pool, r, hits)
  BY <1>8, <1>11, HitsAreHits DEF Hits
<1>13. hits \in Seq(Block) /\ \A b \in Elements(hits) : b \in Block /\ pool.hash[b] # NoHash
  BY <1>11, <1>12, HitBlocks DEF IsHit
<1>14. hits = reqBlocks[r] \o hits
  BY <1>3, <1>13, ConcatEmptySeq
<1>15. KnownReady(hits, c)
  <2>1. c <= Len(hits) * BlockSize
    BY <1>5, <1>8
  <2>2. \A i \in DOMAIN hits : Ready(hits[i])
    BY <1>13 DEF CInv, CacheReady, Elements
  <2>. QED
    BY <2>1, <2>2 DEF KnownReady
<1>. QED
  BY <1>2, <1>6, <1>9, <1>10, <1>14, <1>15, AllocateReady

\* The last request of the running list is the victim.  The index is not beyond
\* it, so it has got nothing in this step yet: no grant is lost.
LEMMA PreemptVictimReady ==
  ASSUME Policy = "FCFS", CInv, KInv', FilledOK', PreemptVictim
  PROVE  CInv'
<1>1. pc = "allocate" /\ KInv /\ QInv
  BY DEF PreemptVictim, CInv, KInv
<1>. DEFINE L == Len(running)
<1>2. /\ running \in Seq(Request) /\ Distinct(running) /\ L \in Nat /\ DOMAIN running = 1 .. L
      /\ idx \in 1 .. L /\ running[idx] = trying[1].req /\ scheduled \in Seq(Grant)
      /\ \A k \in DOMAIN scheduled : Visited(running, scheduled[k].req, idx)
  BY <1>1, SMTT(30) DEF CInv, AtIndex, QInv, Shape, LoopOK, QueuesMatchStatus
<1>3. PICK v \in Request : v = Victim
  BY <1>1, PreemptVictimQueues
<1>4. v = running[L]
  BY <1>3 DEF Victim
<1>5. ASSUME NEW k \in DOMAIN scheduled PROVE scheduled[k].req # v
  <2>1. PICK i \in DOMAIN running : i < idx /\ running[i] = scheduled[k].req
    BY <1>2 DEF Visited
  <2>2. i # L /\ L \in DOMAIN running
    BY <1>2, <2>1
  <2>. QED
    BY <1>2, <1>4, <2>1, <2>2 DEF Distinct
<1>. DEFINE undone == {i \in DOMAIN scheduled : scheduled[i].req = v}
            given == {scheduled[i] : i \in undone}
<1>6. undone = {} /\ given = {}
  BY <1>5
<1>7. /\ Preempt(v) /\ running' = RemoveRequests(running, {v})
      /\ scheduled' = RemoveRequests(scheduled, given)
      /\ idx' = IF undone = {} THEN idx ELSE idx - 1
      /\ IF v = trying[1].req THEN pc' = "finish" /\ trying' = <<>> ELSE UNCHANGED <<pc, trying>>
      /\ filled' = filled
  BY <1>3 DEF PreemptVictim
<1>. HIDE DEF undone, given
<1>8. idx' = idx /\ scheduled' = Without(scheduled, {})
  BY <1>6, <1>7 DEF RemoveRequests
<1>9. ASSUME NEW k \in DOMAIN scheduled PROVE \E j \in DOMAIN scheduled' : scheduled'[j] = scheduled[k]
  <2>1. Elements(scheduled') = Elements(scheduled) \ {}
    BY <1>2, <1>8, WithoutElements
  <2>2. scheduled[k] \in Elements(scheduled')
    BY <2>1 DEF Elements
  <2>. QED
    BY <2>2 DEF Elements
<1>10. /\ reqBlocks' = [reqBlocks EXCEPT ![v] = <<>>] /\ pool'.hash = pool.hash
       /\ computed' = [computed EXCEPT ![v] = 0]
  BY <1>7 DEF Preempt, Free, FreeBlocks
<1>11. /\ reqBlocks'[v] = <<>>
       /\ \A s \in Request : s # v => reqBlocks'[s] = reqBlocks[s] /\ computed'[s] = computed[s]
  BY <1>1, <1>10, Types
<1>12. ASSUME NEW k \in DOMAIN scheduled PROVE KeepsTable(scheduled[k].req)
  <2>1. scheduled[k] \in Grant
    BY <1>2
  <2>2. scheduled[k].req \in Request /\ scheduled[k].req # v
    BY <1>5, <2>1 DEF Grant
  <2>. QED
    BY <1>11, <2>2 DEF KeepsTable
<1>13. AtIndex'
  <2>. SUFFICES ASSUME pc' = "allocate" PROVE idx' \in DOMAIN running' /\ running'[idx'] = trying'[1].req
    BY DEF AtIndex
  <2>1. v # trying[1].req /\ trying' = trying
    BY <1>7
  <2>2. idx # L
    BY <1>2, <1>4, <2>1
  <2>3. L \in 1 .. L /\ idx \in 1 .. L - 1
    <3>1. L \in Nat /\ idx \in 1 .. L
      BY <1>2
    <3>. HIDE DEF L
    <3>. QED
      BY <2>2, <3>1
  <2>4. running' = Without(running, {running[L]})
    BY <1>4, <1>7 DEF RemoveRequests
  <2>5. /\ Len(running') = L - 1
        /\ \A k \in 1 .. L - 1 : running'[k] = IF k < L THEN running[k] ELSE running[k + 1]
    BY <1>2, <2>3, <2>4, WithoutOne
  <2>6. running' \in Seq(Request)
    BY DEF KInv, QInv, Shape
  <2>7. DOMAIN running' = 1 .. L - 1
    BY <2>5, <2>6
  <2>8. running'[idx] = running[idx]
    BY <1>2, <2>3, <2>5
  <2>. QED
    BY <1>2, <1>8, <2>1, <2>3, <2>7, <2>8
<1>14. /\ \A b \in Block : pool'.hash[b] \in {pool.hash[b], NoHash}
       /\ \A r \in Request : \/ reqBlocks'[r] = <<>>
                             \/ reqBlocks'[r] = reqBlocks[r] /\ computed'[r] = computed[r]
  BY <1>10, <1>11
<1>. QED
  BY <1>7, <1>9, <1>12, <1>13, <1>14, CacheKept

\* Between the places of schedule() nothing is scheduled: a request may lose its
\* table, and blocks their hash.
LEMMA OutsideReady ==
  ASSUME CInv, KInv', FilledOK', pc \notin Scheduling, pc' # "allocate", UNCHANGED filled,
         \A b \in Block : pool'.hash[b] \in {pool.hash[b], NoHash},
         \A r \in Request : \/ reqBlocks'[r] = <<>>
                            \/ reqBlocks'[r] = reqBlocks[r] /\ computed'[r] = computed[r]
  PROVE  CInv'
<1>1. scheduled = <<>>
  BY DEF CInv, KInv, QInv, ControlOK
<1>2. AtIndex'
  BY DEF AtIndex
<1>. QED
  BY <1>1, <1>2, CacheKept

\* free: a request loses its table.
LEMMA FreeReady ==
  ASSUME CInv, KInv', FilledOK', pc \notin Scheduling, pc' # "allocate", UNCHANGED filled,
         NEW r \in Request, Free(r), \A s \in Request : s # r => computed'[s] = computed[s]
  PROVE  CInv'
<1>1. reqBlocks' = [reqBlocks EXCEPT ![r] = <<>>] /\ pool'.hash = pool.hash
  BY DEF Free, FreeBlocks
<1>2. \A s \in Request : \/ reqBlocks'[s] = <<>>
                         \/ reqBlocks'[s] = reqBlocks[s] /\ computed'[s] = computed[s]
  BY <1>1, Types DEF CInv
<1>. QED
  BY <1>1, <1>2, OutsideReady

\* The place of a block in a table is the only one it is at.
LEMMA PlaceIs ==
  ASSUME KInv, NEW r \in Request, NEW i \in DOMAIN reqBlocks[r]
  PROVE  Place(r, reqBlocks[r][i]) = i
<1>1. \A j \in DOMAIN reqBlocks[r] : reqBlocks[r][j] = reqBlocks[r][i] => j = i
  BY DEF KInv, Inv, Sound, Agreeing
<1>. QED
  BY <1>1 DEF Place

\* Of what a block is filled up to, a batch records the most; the end of the
\* block is the most there is.
LEMMA FilledToTheEnd ==
  ASSUME KInv, FilledOK, FinishSchedule, NEW b \in Block,
         filled[b] = BlockSize \/ \E r \in Writers(b) : FilledBy(r, b) = BlockSize
  PROVE  filled'[b] = BlockSize
<1>. DEFINE upTo == {FilledBy(r, b) : r \in Writers(b)} \cup {filled[b]}
            top == CHOOSE m \in upTo : \A k \in upTo : k <= m
<1>1. filled'[b] = top
  BY DEF FinishSchedule
<1>2. BlockSize \in upTo /\ BlockSize \in Nat
  BY SizeAssumption
<1>3. ASSUME NEW k \in upTo PROVE k \in Int /\ k <= BlockSize
  <2>1. CASE k = filled[b]
    BY <1>2, <2>1 DEF FilledOK
  <2>2. ASSUME NEW r \in Writers(b), k = FilledBy(r, b) PROVE k \in Int /\ k <= BlockSize
    BY <2>2, FilledByBound
  <2>. QED
    BY <2>1, <2>2
<1>. HIDE DEF upTo
<1>4. BlockSize \in upTo /\ \A k \in upTo : k <= BlockSize
  BY <1>2, <1>3
<1>5. top \in upTo /\ \A k \in upTo : k <= top
  BY <1>4
<1>. HIDE DEF top
<1>6. top \in Int /\ top <= BlockSize /\ BlockSize <= top
  BY <1>3, <1>4, <1>5
<1>. QED
  BY <1>1, <1>2, <1>6

\* The batch fills the blocks that end within what it computes.
LEMMA FilledByBatch ==
  ASSUME KInv, FilledOK, FinishSchedule, NEW r \in Request, NEW i \in DOMAIN reqBlocks[r],
         computed[r] < i * BlockSize, i * BlockSize <= computed[r] + NumScheduled(r)
  PROVE  filled'[reqBlocks[r][i]] = BlockSize
<1>1. /\ computed[r] \in Int /\ NumScheduled(r) \in Nat /\ BlockSize \in Nat \ {0}
      /\ reqBlocks[r] \in Seq(Block)
  BY Types, NumScheduledFits
<1>2. i \in Nat /\ reqBlocks[r][i] \in Block
  BY <1>1
<1>3. PICK b \in Block : b = reqBlocks[r][i]
  BY <1>2
<1>4. Place(r, b) = i
  BY <1>3, PlaceIs
<1>5. PICK c \in Int, n \in Nat, z \in Nat, iz \in Int :
        c = computed[r] /\ n = NumScheduled(r) /\ z = BlockSize /\ iz = i * BlockSize
  BY <1>1, <1>2
<1>6. (i - 1) * BlockSize = iz - z
  BY <1>1, <1>2, <1>5
<1>7. c < iz /\ iz <= c + n
  BY <1>5
<1>8. n > 0
  BY <1>7
<1>9. b \in Elements(reqBlocks[r])
  BY <1>3 DEF Elements
<1>10. r \in Writers(b)
  BY <1>4, <1>5, <1>7, <1>8, <1>9 DEF Writers
<1>11. FilledBy(r, b) = BlockSize
  <2>1. FilledBy(r, b) = Min2(c + n - (iz - z), z)
    BY <1>4, <1>5, <1>6 DEF FilledBy
  <2>2. c + n - (iz - z) >= z
    BY <1>7
  <2>3. Min2(c + n - (iz - z), z) = z
    BY <2>2 DEF Min2
  <2>. QED
    BY <1>5, <2>1, <2>3
<1>. QED
  BY <1>3, <1>10, <1>11, FilledToTheEnd

\* The batch is dispatched: what was ready is computed.
LEMMA FinishScheduleReady ==
  ASSUME CInv, KInv', FilledOK', FinishSchedule
  PROVE  CInv'
<1>0. KInv /\ FilledOK /\ QInv /\ scheduled \in Seq(Grant) /\ reqBlocks \in [Request -> Seq(Block)]
  BY Types DEF CInv, KInv
<1>1. /\ pc' # "allocate" /\ scheduled' = <<>> /\ pool' = pool /\ reqBlocks' = reqBlocks
      /\ computed' = [r \in Request |-> computed[r] + NumScheduled(r)]
  BY DEF FinishSchedule, kvVars
<1>2. ASSUME NEW b \in Block, Ready(b) PROVE filled'[b] = BlockSize
  <2>1. CASE filled[b] = BlockSize
    BY <1>0, <2>1, FilledToTheEnd
  <2>2. ASSUME NEW k \in DOMAIN scheduled, Completes(scheduled[k], b) PROVE filled'[b] = BlockSize
    <3>1. scheduled[k] \in Grant
      BY <1>0
    <3>2. PICK r \in Request, n \in Int : r = scheduled[k].req /\ n = scheduled[k].n
      BY <3>1 DEF Grant
    <3>3. NumScheduled(r) = n
      <4>1. PICK j \in DOMAIN scheduled : scheduled[j] = [req |-> r, n |-> NumScheduled(r)]
        BY <1>0, <3>2, ScheduledFacts
      <4>2. scheduled[j].req = r /\ scheduled[j].n = NumScheduled(r)
        BY <4>1
      <4>3. j = k
        BY <1>0, <3>2, <4>2 DEF QInv, LoopOK
      <4>. QED
        BY <3>2, <4>2, <4>3
    <3>4. PICK i \in DOMAIN reqBlocks[r] :
            /\ reqBlocks[r][i] = b
            /\ computed[r] < i * BlockSize /\ i * BlockSize <= computed[r] + n
      BY <2>2, <3>2 DEF Completes
    <3>. QED
      BY <1>0, <3>3, <3>4, FilledByBatch
  <2>. QED
    BY <1>2, <2>1, <2>2 DEF Ready
<1>3. ASSUME NEW r \in Request, NEW i \in DOMAIN reqBlocks[r],
             i * BlockSize <= computed[r] + NumScheduled(r)
      PROVE  filled'[reqBlocks[r][i]] = BlockSize
  <2>1. computed[r] \in Int /\ i \in Nat /\ BlockSize \in Nat /\ reqBlocks[r][i] \in Block
    <3>1. computed[r] \in Int /\ BlockSize \in Nat /\ reqBlocks[r] \in Seq(Block)
      BY <1>0, Types
    <3>. QED
      BY <3>1
  <2>2. i * BlockSize \in Nat
    BY <2>1
  <2>3. CASE i * BlockSize <= computed[r]
    <3>1. Ready(reqBlocks[r][i])
      BY <2>3 DEF CInv, TablesReady
    <3>. QED
      BY <1>2, <2>1, <3>1
  <2>4. CASE computed[r] < i * BlockSize
    BY <1>0, <1>3, <2>4, FilledByBatch
  <2>. QED
    BY <2>1, <2>2, <2>3, <2>4
<1>4. TablesReady'
  <2>. SUFFICES ASSUME NEW r \in Request, NEW i \in DOMAIN reqBlocks'[r],
                       i * BlockSize <= computed'[r]
                PROVE  Ready(reqBlocks[r][i])'
    BY DEF TablesReady
  <2>1. i \in DOMAIN reqBlocks[r] /\ i * BlockSize <= computed[r] + NumScheduled(r)
    BY <1>1
  <2>2. filled'[reqBlocks'[r][i]] = BlockSize
    BY <1>1, <1>3, <2>1
  <2>. QED
    BY <2>2 DEF Ready
<1>5. CacheReady'
  <2>. SUFFICES ASSUME NEW b \in Block, pool'.hash[b] # NoHash PROVE Ready(b)'
    BY DEF CacheReady
  <2>1. Ready(b)
    BY <1>1 DEF CInv, CacheReady
  <2>. QED
    BY <1>2, <2>1 DEF Ready
<1>. QED
  BY <1>1, <1>4, <1>5 DEF CInv, AtIndex

\* A token arrives, and AsyncScheduler caches the blocks it completes: they are
\* within what the request has computed, as its placeholders are not.
LEMMA TakeOutputReady ==
  ASSUME CInv, KInv', FilledOK', NEW eos \in BOOLEAN, TakeOutput(eos)
  PROVE  CInv'
<1>0. KInv /\ QInv
  BY DEF CInv, KInv
<1>1. PICK r \in Request : r = Entry.req
  BY <1>0, EntryFacts DEF TakeOutput
<1>2. /\ pc = "update" /\ pc' \in {"update", "free"}
      /\ IF AsyncScheduling /\ status[r] = "RUNNING"
         THEN CacheComputed(r, computed[r] - placeholders'[r], NumTokens(r) + 1)
         ELSE UNCHANGED kvVars
      /\ computed' = computed /\ scheduled' = scheduled /\ filled' = filled
  BY <1>1 DEF TakeOutput, HasEntry, scheduleVars
<1>3. scheduled = <<>> /\ AtIndex'
  BY <1>0, <1>2 DEF QInv, ControlOK, Scheduling, AtIndex
<1>4. CASE ~(AsyncScheduling /\ status[r] = "RUNNING")
  <2>1. pool' = pool /\ reqBlocks' = reqBlocks
    BY <1>2, <1>4 DEF kvVars
  <2>. QED
    BY <1>2, <2>1, OutsideReady DEF Scheduling
<1>5. CASE AsyncScheduling /\ status[r] = "RUNNING"
  <2>. DEFINE m == computed[r] - placeholders'[r]
  <2>1. placeholders'[r] \in Int /\ placeholders'[r] >= 0
    BY DEF KInv, QInv, Shape, CountersOK
  <2>2. /\ computed[r] \in Int /\ computed[r] <= Len(reqBlocks[r]) * BlockSize
        /\ reqBlocks[r] \in Seq(Block) /\ BlockSize \in Nat \ {0} /\ numCached[r] \in Nat
    BY <1>0, <1>5, Types DEF KInv, CountersOK, Slots, Inv, Sound, Typed
  <2>3. m \in Int /\ m <= computed[r]
    BY <2>1, <2>2
  <2>4. CacheComputed(r, m, NumTokens(r) + 1)
    BY <1>2, <1>5
  <2>. HIDE DEF m
  <2>5. ~error'
    BY DEF KInv, Inv
  <2>6. reqBlocks' = reqBlocks
    BY <2>4 DEF CacheComputed
  <2>7. pool' = IF EnableCaching THEN CacheBlocks(pool, r, reqBlocks[r], numCached[r], m) ELSE pool
    BY <2>4, <2>5 DEF CacheComputed
  <2>8. m \div BlockSize <= Len(reqBlocks[r])
    <3>1. PICK l \in Nat, z \in Nat \ {0} : l = Len(reqBlocks[r]) /\ z = BlockSize
      BY <2>2
    <3>2. PICK k \in Int : k = m \div BlockSize
      BY <2>2, <2>3
    <3>. SUFFICES ASSUME k >= l + 1 PROVE FALSE
      BY <3>1, <3>2
    <3>3. k \in Nat \ {0}
      BY <3>1
    <3>4. k * z <= m
      BY <2>3, <3>1, <3>2, <3>3, FullBlocksFit
    <3>5. k * z >= (l + 1) * z /\ (l + 1) * z = l * z + z /\ l * z \in Nat /\ k * z \in Nat
      BY <3>3
    <3>6. m <= l * z
      BY <2>2, <2>3, <3>1
    <3>. QED
      BY <2>3, <3>4, <3>5, <3>6
  <2>9. ASSUME NEW b \in Block
        PROVE  \/ pool'.hash[b] = pool.hash[b]
               \/ \E i \in DOMAIN reqBlocks[r] : reqBlocks[r][i] = b /\ i * BlockSize <= m
    <3>1. PICK p, u, c : p = pool /\ u = reqBlocks[r] /\ c = numCached[r]
      OBVIOUS
    <3>2. u \in Seq(Block) /\ c \in Nat /\ m \div BlockSize <= Len(u)
      BY <2>2, <2>8, <3>1
    <3>3. \A d \in Block :
            \/ CacheBlocks(p, r, u, c, m).hash[d] = p.hash[d]
            \/ \E i \in DOMAIN u : u[i] = d /\ i * BlockSize <= m
      BY <2>3, <3>2, CacheBlocksHashes
    <3>. QED
      BY <2>7, <3>1, <3>3, Zenon
  <2>10. ASSUME NEW b, Ready(b) PROVE Ready(b)'
    BY <1>2, <1>3, <2>10 DEF Ready
  <2>11. TablesReady'
    BY <1>2, <2>6, <2>10 DEF CInv, TablesReady, Ready, Completes
  <2>12. CacheReady'
    <3>. SUFFICES ASSUME NEW b \in Block, pool'.hash[b] # NoHash PROVE Ready(b)
      BY <2>10 DEF CacheReady
    <3>1. CASE pool'.hash[b] = pool.hash[b]
      BY <3>1 DEF CInv, CacheReady
    <3>2. ASSUME NEW i \in DOMAIN reqBlocks[r], reqBlocks[r][i] = b, i * BlockSize <= m
          PROVE  Ready(b)
      <4>1. i \in Nat
        BY <2>2
      <4>2. i * BlockSize \in Int
        BY <2>2, <4>1
      <4>3. i * BlockSize <= computed[r]
        BY <2>2, <2>3, <3>2, <4>2
      <4>. QED
        BY <3>2, <4>3 DEF CInv, TablesReady
    <3>. QED
      BY <2>9, <3>1, <3>2
  <2>. QED
    BY <1>3, <2>11, <2>12 DEF CInv
<1>. QED
  BY <1>4, <1>5

\* A step that moves the thread and leaves requests, blocks and grants alone.
LEMMA MoveReady ==
  ASSUME CInv, KInv', FilledOK', AtIndex',
         UNCHANGED <<reqBlocks, computed, scheduled, filled>>,
         \A b \in Block : pool'.hash[b] \in {pool.hash[b], NoHash}
  PROVE  CInv'
<1>1. \A k \in DOMAIN scheduled : /\ KeepsTable(scheduled[k].req)
                                  /\ \E j \in DOMAIN scheduled' : scheduled'[j] = scheduled[k]
  BY DEF KeepsTable
<1>. QED
  BY <1>1, CacheKept

\* reset_prefix_cache takes hashes away, or refuses.
LEMMA ResetHashes ==
  ASSUME Reset \/ UNCHANGED pool, pool.hash \in [Block -> Hash \cup {NoHash}]
  PROVE  \A b \in Block : pool'.hash[b] \in {pool.hash[b], NoHash}
BY DEF Reset, ResetPrefixCache

\* Every step keeps the invariant of the prefix cache.
LEMMA NextReady ==
  ASSUME LengthsFit, ResetsFit, Policy = "FCFS", CInv, [Next]_vars
  PROVE  CInv'
<1>0. KInv' /\ FilledOK' /\ KInv /\ pool.hash \in [Block -> Hash \cup {NoHash}]
  BY NextKV, FilledStep DEF CInv, KInv, Inv, Sound, Typed, Pool
<1>1. ASSUME NEW r \in Request, Add(r) PROVE CInv'
  BY <1>0, <1>1, MoveReady DEF Add, AtIndex, kvVars, stepVars, scheduleVars
<1>2. ASSUME NEW r \in Request, Abort(r) PROVE CInv'
  <2>1. /\ pc \notin Scheduling /\ pc' # "allocate" /\ UNCHANGED filled /\ Free(r)
        /\ computed' = computed
    BY <1>2 DEF Abort, Scheduling, stepVars
  <2>. QED
    BY <1>0, <2>1, FreeReady
<1>3. ASSUME NEW x \in BOOLEAN, StartReset(x) PROVE CInv'
  <2>1. /\ pc' # "allocate" /\ (Reset \/ UNCHANGED pool)
        /\ UNCHANGED <<reqBlocks, computed, scheduled, filled>>
    BY <1>3 DEF StartReset, Reset, kvVars, reqVars, scheduleVars
  <2>. QED
    BY <1>0, <2>1, ResetHashes, MoveReady DEF AtIndex
<1>4. CASE ResetPreempt
  <2>1. PICK r \in Request : r = running[Len(running)]
    BY <1>0, <1>4, DropLastElements DEF ResetPreempt, KInv, QInv, Shape, QueuesMatchStatus
  <2>2. /\ pc \notin Scheduling /\ pc' # "allocate" /\ UNCHANGED filled /\ Free(r)
        /\ computed' = [computed EXCEPT ![r] = 0]
    BY <1>4, <2>1 DEF ResetPreempt, Preempt, Scheduling, stepVars
  <2>3. \A s \in Request : s # r => computed'[s] = computed[s]
    BY <1>0, <2>2, Types
  <2>. QED
    BY <1>0, <2>2, <2>3, FreeReady
<1>5. CASE ResetFinish
  <2>1. /\ pc' # "allocate" /\ (Reset \/ UNCHANGED pool)
        /\ UNCHANGED <<reqBlocks, computed, scheduled, filled>>
    BY <1>5 DEF ResetFinish, Reset, reqVars, scheduleVars
  <2>. QED
    BY <1>0, <2>1, ResetHashes, MoveReady DEF AtIndex
<1>6. ASSUME NEW r \in Request, TryRunning(r) PROVE CInv'
  <2>1. /\ pc = "running" /\ idx <= Len(running) /\ r = running[idx]
        /\ trying' = <<[req |-> r, n |-> NumNewTokens(r)]>>
        /\ UNCHANGED <<pool, reqBlocks, computed, scheduled, filled, running, idx>>
    BY <1>6 DEF TryRunning, Visiting, kvVars, reqVars, queueVars
  <2>2. idx \in Int /\ idx >= 1 /\ running \in Seq(Request)
    BY <1>0, <2>1 DEF KInv, QInv, LoopOK, Shape
  <2>3. AtIndex'
    BY <2>1, <2>2 DEF AtIndex
  <2>. QED
    BY <1>0, <2>1, <2>3, MoveReady
<1>7. ASSUME \/ StepStart \/ StepDrain \/ EndRunning \/ EndWaiting \/ Collect \/ SkipOutput
             \/ DiscardOutput \/ EndUpdate \/ UNCHANGED vars
             \/ \E r \in Request : SkipRunning(r)
      PROVE  CInv'
  <2>1. /\ UNCHANGED <<pool, reqBlocks, computed, scheduled, filled>>
        /\ pc' # "allocate" \/ UNCHANGED <<pc, running, idx, trying>>
    BY <1>7 DEF StepStart, StepDrain, EndRunning, EndWaiting, Collect, SkipOutput, HasEntry,
                DiscardOutput, EndUpdate, SkipRunning, Visiting, vars, kvVars, reqVars, queueVars,
                stepVars, scheduleVars
  <2>2. AtIndex'
    BY <2>1 DEF CInv, AtIndex
  <2>. QED
    BY <1>0, <2>1, <2>2, MoveReady
<1>8. CASE ScheduleRunning
  BY <1>0, <1>8, ScheduleRunningReady
<1>9. CASE PreemptVictim
  BY <1>0, <1>9, PreemptVictimReady
<1>10. ASSUME NEW r \in Request, ScheduleWaiting(r) PROVE CInv'
  BY <1>0, <1>10, ScheduleWaitingReady
<1>11. CASE FinishSchedule
  BY <1>0, <1>11, FinishScheduleReady
<1>12. ASSUME NEW eos \in BOOLEAN, TakeOutput(eos) PROVE CInv'
  BY <1>0, <1>12, TakeOutputReady
<1>13. CASE FreeStopped
  <2>1. PICK r \in Request : r = Entry.req
    BY <1>0, <1>13, EntryFacts DEF FreeStopped, KInv
  <2>2. /\ pc \notin Scheduling /\ pc' # "allocate" /\ UNCHANGED filled /\ Free(r)
        /\ computed' = computed
    BY <1>13, <2>1 DEF FreeStopped, Scheduling
  <2>. QED
    BY <1>0, <2>2, FreeReady
<1>. QED
  BY <1>1, <1>2, <1>3, <1>4, <1>5, <1>6, <1>7, <1>8, <1>9, <1>10, <1>11, <1>12, <1>13
     DEF Next, Client, Engine

\* Under first come, first served the prefix cache never offers a block between
\* steps that no dispatched batch has written: the blocks allocate_slots caches
\* ahead of the computation are those the same step computes, since the victim
\* of a preemption has not been given tokens in the step.  Under the priority
\* policy this fails.
THEOREM CacheIsComputed ==
  ASSUME LengthsFit, ResetsFit, Policy = "FCFS"
  PROVE  Spec => []CachedBlocksComputed
<1>1. Init => CInv
  <2>. SUFFICES ASSUME Init PROVE CInv
    OBVIOUS
  <2>1. KInv
    BY InitKV
  <2>2. /\ filled = [b \in Block |-> 0] /\ pool.hash = [b \in Block |-> NoHash] /\ pc = "idle"
        /\ reqBlocks = [r \in Request |-> <<>>]
    BY DEF Init, KVInit, NewPool
  <2>3. FilledOK
    BY <2>2, SizeAssumption DEF FilledOK
  <2>. QED
    BY <2>1, <2>2, <2>3 DEF CInv, TablesReady, CacheReady, AtIndex
<1>2. CInv /\ [Next]_vars => CInv'
  BY NextReady
<1>3. CInv => CachedBlocksComputed
  BY ReadyIsComputed
<1>. QED
  BY <1>1, <1>2, <1>3, PTL DEF Spec

-----------------------------------------------------------------------------
(***************************************************************************)
(* The tokens of a request come back once each and in order, whatever      *)
(* batches are in flight and whatever is preempted, aborted and resumed    *)
(* meanwhile; and a placeholder stands for each token that is on its way.  *)
(***************************************************************************)
\* When the outputs are in order.  A forced preemption of a request with tokens
\* in flight samples them twice, so either there is none (no reset), or no batch
\* is in flight then (one batch at a time).  Without placeholders a preempted
\* request may also be resumed before its token is back, unless there are at
\* most two batches.
InOrderFits ==
  IF AsyncScheduling THEN MaxResets = 0
  ELSE BatchQueueSize = 1 \/ (BatchQueueSize = 2 /\ MaxResets = 0)

\* Batch i returns the token of r at position p.
Returns(r, i, p) ==
  /\ i \in DOMAIN batches /\ p > 0
  /\ \E j \in DOMAIN batches[i] : batches[i][j].req = r /\ batches[i][j].pos = p

\* A token of r that comes back is used.
Expecting(r) == status[r] # "FINISHED" /\ ~(pc = "free" /\ r = Entry.req)

\* The oldest batch is used before anything is admitted.
Late == pc \in {"collect", "update", "free"} \/ (pc \in Scheduling /\ preempted)

\* Without placeholders at most one batch returns a token of r, the next one.  r
\* waits for it in the running list with nothing to compute, or was preempted
\* and is not resumed before the token is there.
SyncOK(r) ==
  ~AsyncScheduling /\ Expecting(r) =>
    /\ \A i, p \in Nat : Returns(r, i, p) =>
         /\ p = NumTokens(r) + 1
         /\ \/ status[r] = "RUNNING" /\ computed[r] = NumTokens(r)
            \/ status[r] = "PREEMPTED" /\ i = 1 /\ Late
    /\ \A i, k, p, q \in Nat : Returns(r, i, p) /\ Returns(r, k, q) => i = k

\* With them, the batches return the tokens the placeholders of r stand for, each
\* of them, and an older batch an earlier one.
AsyncOK(r) ==
  AsyncScheduling /\ Expecting(r) =>
    /\ \A i, p \in Nat : Returns(r, i, p) =>
         NumTokens(r) + 1 <= p /\ p <= NumTokens(r) + placeholders[r]
    /\ \A i, k, p, q \in Nat : Returns(r, i, p) /\ Returns(r, k, q) /\ i < k => p < q
    /\ \A p \in Nat : NumTokens(r) + 1 <= p /\ p <= NumTokens(r) + placeholders[r] =>
         \E i \in Nat : Returns(r, i, p)

\* The inductive invariant of the outputs.
OInv ==
  /\ \A r \in Request : SyncOK(r) /\ AsyncOK(r)
  /\ pc = "waiting" => ~preempted
  /\ AsyncScheduling => discard = [r \in Request |-> FALSE]
  /\ OutputsInOrder

----------------------------------------------------------------------------

\* The hypothesis is stronger than the one of the KV cache.
LEMMA InOrderResetsFit == ASSUME InOrderFits PROVE ResetsFit
  BY SchedulerAssumption DEF InOrderFits, ResetsFit

\* The batch a token comes from has a number.
LEMMA ReturnsNat ==
  ASSUME KInv, NEW r, NEW i, NEW p, Returns(r, i, p)
  PROVE  i \in Nat /\ i >= 1 /\ i <= Len(batches) /\ p \in Nat
<1>1. /\ batches \in Seq(Seq(Output)) /\ i \in DOMAIN batches /\ p > 0
  BY Types DEF Returns
<1>2. PICK j \in DOMAIN batches[i] : batches[i][j].pos = p
  BY DEF Returns
<1>3. batches[i] \in Seq(Output)
  BY <1>1
<1>4. batches[i][j] \in Output
  BY <1>3
<1>5. p \in Int
  BY <1>2, <1>4 DEF Output
<1>. QED
  BY <1>1, <1>5

\* A batch returns at most one token of a request.
LEMMA ReturnsOnce ==
  ASSUME KInv, NEW r, NEW i, NEW p, NEW q, Returns(r, i, p), Returns(r, i, q)
  PROVE  p = q
  BY DEF Returns, KInv, BatchesOK

\* What is scheduled samples the token after those there are and those awaited.
LEMMA SampledNext ==
  ASSUME KInv, NEW r \in Request
  PROVE  /\ ~IsPrefillChunk(r) => computed[r] + NumScheduled(r) = NumTokens(r) + placeholders[r]
         /\ SampledPosition(r) > 0 => /\ ~IsPrefillChunk(r)
                                      /\ SampledPosition(r) = NumTokens(r) + placeholders[r] + 1
<1>1. /\ NumScheduled(r) \in Nat /\ computed[r] \in Int /\ placeholders[r] \in Int
      /\ NumTokens(r) \in Nat
      /\ computed[r] + NumScheduled(r) <= NumTokens(r) + placeholders[r]
  BY NumScheduledFits, Types DEF Fits
<1>2. ~IsPrefillChunk(r) => computed[r] + NumScheduled(r) = NumTokens(r) + placeholders[r]
  BY <1>1 DEF IsPrefillChunk
<1>3. SampledPosition(r) > 0 => ~IsPrefillChunk(r)
  BY DEF SampledPosition
<1>4. ~IsPrefillChunk(r) => SampledPosition(r) = NumTokens(r) + placeholders[r] + 1
  <2>. SUFFICES ASSUME ~IsPrefillChunk(r)
                PROVE  SampledPosition(r) = NumTokens(r) + placeholders[r] + 1
    OBVIOUS
  <2>1. SampledPosition(r) = computed[r] + NumScheduled(r) + 1
    BY DEF SampledPosition
  <2>. QED
    BY <1>1, <1>2, <2>1
<1>. QED
  BY <1>2, <1>3, <1>4

\* A request the step leaves alone keeps its account, with placeholders ...
LEMMA AsyncKept ==
  ASSUME NEW r \in Request, AsyncOK(r), Expecting(r)' => Expecting(r),
         \A i, p \in Nat : Returns(r, i, p)' <=> Returns(r, i, p),
         out'[r] = out[r], placeholders'[r] = placeholders[r]
  PROVE  AsyncOK(r)'
<1>1. NumTokens(r)' = NumTokens(r)
  BY DEF NumTokens
<1>. QED
  BY <1>1, ZenonT(30) DEF AsyncOK

\* ... and without.
LEMMA SyncKept ==
  ASSUME NEW r \in Request, SyncOK(r), Expecting(r)' => Expecting(r),
         \A i, p \in Nat : Returns(r, i, p)' <=> Returns(r, i, p),
         out'[r] = out[r], status'[r] = status[r], computed'[r] = computed[r],
         Late => Late'
  PROVE  SyncOK(r)'
<1>1. NumTokens(r)' = NumTokens(r)
  BY DEF NumTokens
<1>. QED
  BY <1>1, ZenonT(30) DEF SyncOK

\* Nothing of a request is in flight.
LEMMA SyncNone ==
  ASSUME NEW r \in Request, \A i, p \in Nat : ~Returns(r, i, p)'
  PROVE  SyncOK(r)'
  BY DEF SyncOK

\* Steps that leave the requests and the batches alone.
LEMMA StillOutputs ==
  ASSUME OInv, UNCHANGED <<status, computed, out, placeholders, discard, batches>>,
         \A r \in Request : Expecting(r)' => Expecting(r),
         Late => Late', pc' = "waiting" => ~preempted'
  PROVE  OInv'
<1>1. ASSUME NEW r \in Request PROVE SyncOK(r)' /\ AsyncOK(r)'
  <2>1. SyncOK(r) /\ AsyncOK(r)
    BY DEF OInv
  <2>2. \A i, p \in Nat : Returns(r, i, p)' <=> Returns(r, i, p)
    BY DEF Returns
  <2>3. SyncOK(r)'
    BY <2>1, <2>2, SyncKept
  <2>4. AsyncOK(r)'
    BY <2>1, <2>2, AsyncKept
  <2>. QED
    BY <2>3, <2>4
<1>2. OutputsInOrder'
  BY DEF OInv, OutputsInOrder
<1>. QED
  BY <1>1, <1>2 DEF OInv

\* A new request: nothing of it is in flight.
LEMMA AddOutputs ==
  ASSUME KInv, OInv, NEW r \in Request, Add(r)
  PROVE  OInv'
<1>1. /\ pc = "idle" /\ pc' = "idle" /\ status[r] = "NEW"
      /\ status' = [status EXCEPT ![r] = "WAITING"]
      /\ UNCHANGED <<computed, out, placeholders, discard, batches, preempted>>
  BY DEF Add, stepVars, scheduleVars
<1>2. ASSUME NEW s \in Request PROVE SyncOK(s)' /\ AsyncOK(s)'
  <2>1. SyncOK(s) /\ AsyncOK(s) /\ status[s] \in Statuses
    BY Types DEF OInv
  <2>2. \A i, p \in Nat : Returns(s, i, p)' <=> Returns(s, i, p)
    BY <1>1 DEF Returns
  <2>3. Expecting(s)' => Expecting(s)
    BY <1>1, Types DEF Expecting
  <2>4. AsyncOK(s)'
    BY <1>1, <2>1, <2>2, <2>3, AsyncKept
  <2>5. CASE s # r
    <3>1. status'[s] = status[s] /\ (Late => Late')
      BY <1>1, <2>5, Types DEF Late, Scheduling
    <3>2. SyncOK(s)'
      BY <1>1, <2>1, <2>2, <2>3, <3>1, SyncKept
    <3>. QED
      BY <2>4, <3>2
  <2>6. CASE s = r
    <3>1. \A i, p \in Nat : ~Returns(r, i, p)
      BY <1>1 DEF Returns, KInv, QInv, ControlOK
    <3>2. SyncOK(s)'
      BY <2>2, <2>6, <3>1, SyncNone
    <3>. QED
      BY <2>4, <3>2
  <2>. QED
    BY <2>5, <2>6
<1>3. OutputsInOrder'
  BY <1>1 DEF OInv, OutputsInOrder
<1>. QED
  BY <1>1, <1>2, <1>3 DEF OInv

\* A request leaves, aborted or stopped; what comes back of it is not used.
LEMMA LeaveOutputs ==
  ASSUME KInv, OInv, NEW r \in Request, status' = [status EXCEPT ![r] = "FINISHED"],
         UNCHANGED <<computed, out, placeholders, discard, preempted>>,
         pc' # "free", pc' # "waiting", pc = "free" => r = Entry.req, Late => Late',
         \A s \in Request : s # r =>
           \A i, p \in Nat : Returns(s, i, p)' <=> Returns(s, i, p)
  PROVE  OInv'
<1>1. ASSUME NEW s \in Request PROVE SyncOK(s)' /\ AsyncOK(s)'
  <2>1. CASE s = r
    <3>1. ~Expecting(s)'
      BY <2>1, Types DEF Expecting
    <3>. QED
      BY <3>1 DEF SyncOK, AsyncOK
  <2>2. CASE s # r
    <3>1. SyncOK(s) /\ AsyncOK(s) /\ status'[s] = status[s]
      BY <2>2, Types DEF OInv
    <3>2. Expecting(s)' => Expecting(s)
      BY <2>2, <3>1 DEF Expecting
    <3>3. \A i, p \in Nat : Returns(s, i, p)' <=> Returns(s, i, p)
      BY <2>2
    <3>4. SyncOK(s)'
      BY <3>1, <3>2, <3>3, SyncKept
    <3>5. AsyncOK(s)'
      BY <3>1, <3>2, <3>3, AsyncKept
    <3>. QED
      BY <3>4, <3>5
  <2>. QED
    BY <2>1, <2>2
<1>2. OutputsInOrder'
  BY DEF OInv, OutputsInOrder
<1>. QED
  BY <1>1, <1>2 DEF OInv

\* An abort, between steps or before an output is used.
LEMMA AbortOutputs ==
  ASSUME KInv, OInv, NEW r \in Request, Abort(r)
  PROVE  OInv'
<1>1. /\ pc \in {"idle", "collect"} /\ pc' = pc
      /\ status' = [status EXCEPT ![r] = "FINISHED"]
      /\ UNCHANGED <<computed, out, placeholders, discard, batches, preempted>>
  BY DEF Abort, stepVars, scheduleVars
<1>2. \A s \in Request : \A i, p \in Nat : Returns(s, i, p)' <=> Returns(s, i, p)
  BY <1>1 DEF Returns
<1>3. Late => Late'
  BY <1>1 DEF Late
<1>. QED
  BY <1>1, <1>2, <1>3, LeaveOutputs

\* The oldest output is used up; the others stay where they are.
LEMMA DropReturns ==
  ASSUME KInv, HasEntry \/ pc = "free", DropEntry
  PROVE  /\ \A s \in Request, i, p \in Nat :
              s # Entry.req \/ Entry.pos = 0 \/ i # 1 => (Returns(s, i, p)' <=> Returns(s, i, p))
         /\ \A s \in Request, p \in Nat : s = Entry.req => ~Returns(s, 1, p)'
         /\ \A s \in Request : s = Entry.req /\ Entry.pos > 0 => Returns(s, 1, Entry.pos)
<1>. DEFINE b == batches[1]
            c == batches'[1]
<1>1. /\ batches \in Seq(Seq(Output)) /\ batches # <<>> /\ b # <<>> /\ b \in Seq(Output)
      /\ 1 \in DOMAIN batches /\ 1 \in DOMAIN b /\ Entry = b[1]
  BY EntryFacts DEF Entry, KInv
<1>2. /\ batches' \in Seq(Seq(Output)) /\ Len(batches') = Len(batches)
      /\ \A i \in DOMAIN batches : i # 1 => batches'[i] = batches[i]
      /\ c = Tail(b)
  BY <1>1, DropEntryFacts
<1>3. DOMAIN batches' = DOMAIN batches
  BY <1>1, <1>2
<1>4. /\ Len(b) \in Nat /\ DOMAIN b = 1 .. Len(b) /\ DOMAIN c = 1 .. Len(b) - 1
      /\ \A j \in 1 .. Len(b) - 1 : c[j] = b[j + 1]
  BY <1>1, <1>2
<1>5. \A j, k \in DOMAIN b : b[j].req = b[k].req => j = k
  BY <1>1 DEF KInv, BatchesOK
<1>. HIDE DEF b, c
<1>6. ASSUME NEW s \in Request, NEW p \in Nat
      PROVE  /\ Returns(s, 1, p)' <=> p > 0 /\ \E j \in DOMAIN c : c[j].req = s /\ c[j].pos = p
             /\ Returns(s, 1, p) <=> p > 0 /\ \E j \in DOMAIN b : b[j].req = s /\ b[j].pos = p
  BY <1>1, <1>3 DEF Returns, b, c
<1>7. ASSUME NEW s \in Request, NEW p \in Nat, s = Entry.req PROVE ~Returns(s, 1, p)'
  <2>1. ASSUME NEW j \in DOMAIN c PROVE c[j].req # s
    <3>1. j \in 1 .. Len(b) - 1 /\ c[j] = b[j + 1] /\ j + 1 \in DOMAIN b /\ j + 1 # 1
      BY <1>4
    <3>. QED
      BY <1>1, <1>5, <1>7, <3>1
  <2>. QED
    BY <1>6, <2>1
<1>8. ASSUME NEW s \in Request, NEW p \in Nat, s # Entry.req \/ Entry.pos = 0
      PROVE  Returns(s, 1, p)' <=> Returns(s, 1, p)
  <2>1. ASSUME Returns(s, 1, p)' PROVE Returns(s, 1, p)
    <3>1. PICK j \in DOMAIN c : c[j].req = s /\ c[j].pos = p
      BY <1>6, <2>1
    <3>2. j + 1 \in DOMAIN b /\ c[j] = b[j + 1]
      BY <1>4
    <3>. QED
      BY <1>6, <2>1, <3>1, <3>2
  <2>2. ASSUME Returns(s, 1, p) PROVE Returns(s, 1, p)'
    <3>1. PICK j \in DOMAIN b : b[j].req = s /\ b[j].pos = p /\ p > 0
      BY <1>6, <2>2
    <3>2. j # 1
      BY <1>1, <1>8, <3>1
    <3>3. PICK k \in 1 .. Len(b) - 1 : j = k + 1
      <4>1. j - 1 \in 1 .. Len(b) - 1 /\ j = (j - 1) + 1
        BY <1>4, <3>2
      <4>. QED
        BY <4>1
    <3>4. k \in DOMAIN c /\ c[k] = b[j]
      BY <1>4, <3>3
    <3>. QED
      BY <1>6, <3>1, <3>4
  <2>. QED
    BY <2>1, <2>2
<1>9. ASSUME NEW s \in Request, NEW i \in Nat, NEW p \in Nat, i # 1
      PROVE  Returns(s, i, p)' <=> Returns(s, i, p)
  BY <1>2, <1>3, <1>9 DEF Returns
<1>10. ASSUME NEW s \in Request, s = Entry.req, Entry.pos > 0 PROVE Returns(s, 1, Entry.pos)
  BY <1>1, <1>10 DEF Returns, b
<1>. QED
  BY <1>7, <1>8, <1>9, <1>10

\* An output nobody waits for.
LEMMA SkipOutputs ==
  ASSUME KInv, OInv, SkipOutput
  PROVE  OInv'
<1>1. /\ HasEntry /\ pc = "update" /\ pc' = "update" /\ IsMoot /\ DropEntry
      /\ UNCHANGED <<status, computed, out, placeholders, discard, preempted>>
  BY DEF SkipOutput, HasEntry, reqVars, scheduleVars
<1>2. ASSUME NEW s \in Request PROVE SyncOK(s)' /\ AsyncOK(s)'
  <2>1. CASE status[s] = "FINISHED"
    BY <1>1, <2>1 DEF SyncOK, AsyncOK, Expecting
  <2>2. CASE status[s] # "FINISHED"
    <3>1. s # Entry.req \/ Entry.pos = 0
      BY <1>1, <2>2 DEF IsMoot
    <3>2. \A i, p \in Nat : Returns(s, i, p)' <=> Returns(s, i, p)
      BY <1>1, <3>1, DropReturns
    <3>3. SyncOK(s) /\ AsyncOK(s) /\ Expecting(s) /\ (Late => Late')
      BY <1>1, <2>2 DEF OInv, Expecting, Late
    <3>4. SyncOK(s)'
      BY <1>1, <3>2, <3>3, SyncKept
    <3>5. AsyncOK(s)'
      BY <1>1, <3>2, <3>3, AsyncKept
    <3>. QED
      BY <3>4, <3>5
  <2>. QED
    BY <2>1, <2>2
<1>3. OutputsInOrder'
  BY <1>1 DEF OInv, OutputsInOrder
<1>. QED
  BY <1>1, <1>2, <1>3 DEF OInv

\* A request that stopped is freed.
LEMMA FreeStoppedOutputs ==
  ASSUME KInv, OInv, FreeStopped
  PROVE  OInv'
<1>0. PICK r \in Request : r = Entry.req
  BY EntryFacts DEF KInv, FreeStopped
<1>1. /\ pc = "free" /\ pc' = "update" /\ DropEntry
      /\ status' = [status EXCEPT ![r] = "FINISHED"]
      /\ UNCHANGED <<computed, out, placeholders, discard, preempted>>
  BY <1>0 DEF FreeStopped, scheduleVars
<1>2. \A s \in Request : s # r => \A i, p \in Nat : Returns(s, i, p)' <=> Returns(s, i, p)
  BY <1>0, <1>1, DropReturns
<1>3. Late => Late'
  BY <1>1 DEF Late
<1>. QED
  BY <1>0, <1>1, <1>2, <1>3, LeaveOutputs

\* With resets no batch is in flight when a request is preempted.
LEMMA ResetEmpty ==
  ASSUME KInv, InOrderFits, pc = "reset"
  PROVE  ~AsyncScheduling /\ \A r \in Request, i, p \in Nat : ~Returns(r, i, p)
<1>1. MaxResets \in Nat /\ MaxResets >= 1 /\ BatchQueueSize \in Nat /\ Len(batches) \in Nat
  BY SchedulerAssumption, Types DEF KInv
<1>2. ~AsyncScheduling /\ BatchQueueSize = 1
  BY <1>1 DEF InOrderFits
<1>3. Len(batches) < BatchQueueSize
  BY DEF KInv, BatchesOK
<1>4. Len(batches) = 0
  BY <1>1, <1>2, <1>3
<1>5. ASSUME NEW r \in Request, NEW i \in Nat, NEW p \in Nat PROVE ~Returns(r, i, p)
  <2>. SUFFICES ASSUME Returns(r, i, p) PROVE FALSE
    OBVIOUS
  <2>1. i >= 1 /\ i <= Len(batches)
    BY ReturnsNat
  <2>. QED
    BY <1>4, <2>1
<1>. QED
  BY <1>2, <1>5

\* reset_prefix_cache preempts while nothing is in flight.
LEMMA ResetPreemptOutputs ==
  ASSUME KInv, OInv, InOrderFits, ResetPreempt
  PROVE  OInv'
<1>1. pc = "reset" /\ pc' = "reset" /\ UNCHANGED <<out, batches>>
  BY DEF ResetPreempt, stepVars
<1>2. ~AsyncScheduling /\ \A r \in Request, i, p \in Nat : ~Returns(r, i, p)
  BY <1>1, ResetEmpty
<1>3. ASSUME NEW r \in Request PROVE SyncOK(r)' /\ AsyncOK(r)'
  <2>1. \A i, p \in Nat : ~Returns(r, i, p)'
    BY <1>1, <1>2 DEF Returns
  <2>2. SyncOK(r)'
    BY <2>1, SyncNone
  <2>. QED
    BY <1>2, <2>2 DEF AsyncOK
<1>4. OutputsInOrder'
  BY <1>1 DEF OInv, OutputsInOrder
<1>. QED
  BY <1>1, <1>2, <1>3, <1>4 DEF OInv

\* A victim keeps its placeholders, or its token is used before it is resumed.
LEMMA PreemptVictimOutputs ==
  ASSUME KInv, OInv, InOrderFits, PreemptVictim
  PROVE  OInv'
<1>1. PICK v \in Request : v = Victim /\ v \in Elements(running)
  <2>1. pc = "allocate" /\ running \in Seq(Request)
    BY Types DEF PreemptVictim
  <2>2. running # <<>>
    BY <2>1, TryingFacts DEF KInv, Elements
  <2>. QED
    BY <2>1, <2>2, VictimRuns
<1>2. /\ pc = "allocate" /\ pc' \in {"finish", "allocate"} /\ preempted' = TRUE
      /\ status' = [status EXCEPT ![v] = "PREEMPTED"]
      /\ computed' = [computed EXCEPT ![v] = 0]
      /\ UNCHANGED <<out, placeholders, discard, batches>>
  BY <1>1 DEF PreemptVictim, Preempt
<1>3. status[v] = "RUNNING"
  BY <1>1 DEF KInv, QInv, QueuesMatchStatus
<1>4. Late' /\ Len(batches) < BatchQueueSize
  BY <1>2 DEF Late, Scheduling, KInv, BatchesOK
<1>5. ASSUME NEW s \in Request PROVE SyncOK(s)' /\ AsyncOK(s)'
  <2>1. SyncOK(s) /\ AsyncOK(s) /\ status[s] \in Statuses
    BY Types DEF OInv
  <2>2. \A i, p \in Nat : Returns(s, i, p)' <=> Returns(s, i, p)
    BY <1>2 DEF Returns
  <2>3. Expecting(s)' => Expecting(s)
    BY <1>2, <1>3, Types DEF Expecting
  <2>4. AsyncOK(s)'
    BY <1>2, <2>1, <2>2, <2>3, AsyncKept
  <2>5. CASE s # v
    <3>1. status'[s] = status[s] /\ computed'[s] = computed[s]
      BY <1>2, <2>5, Types
    <3>2. SyncOK(s)'
      BY <1>2, <1>4, <2>1, <2>2, <2>3, <3>1, SyncKept
    <3>. QED
      BY <2>4, <3>2
  <2>6. CASE s = v
    <3>. SUFFICES ASSUME ~AsyncScheduling, Expecting(s)
                  PROVE  SyncOK(s)'
      BY <2>3, <2>4 DEF SyncOK
    <3>1. status'[s] = "PREEMPTED" /\ NumTokens(s)' = NumTokens(s)
      BY <1>2, <2>6, Types DEF NumTokens
    <3>2. ASSUME NEW i \in Nat, NEW p \in Nat, Returns(s, i, p)
          PROVE  i = 1 /\ p = NumTokens(s) + 1
      <4>1. i >= 1 /\ i <= Len(batches) /\ Len(batches) \in Nat /\ BatchQueueSize \in Nat
        BY <3>2, ReturnsNat, Types
      <4>2. BatchQueueSize <= 2
        BY <4>1 DEF InOrderFits
      <4>3. p = NumTokens(s) + 1
        BY <2>1, <3>2 DEF SyncOK
      <4>. QED
        BY <1>4, <4>1, <4>2, <4>3
    <3>3. \A i, k, p, q \in Nat : Returns(s, i, p) /\ Returns(s, k, q) => i = k
      BY <2>1 DEF SyncOK
    <3>. QED
      BY <1>4, <2>2, <3>1, <3>2, <3>3 DEF SyncOK
  <2>. QED
    BY <2>5, <2>6
<1>6. OutputsInOrder'
  BY <1>2 DEF OInv, OutputsInOrder
<1>. QED
  BY <1>2, <1>5, <1>6 DEF OInv

\* A request that is admitted has no token in flight, or placeholders for them.
LEMMA ScheduleWaitingOutputs ==
  ASSUME KInv, OInv, NEW r \in Request, ScheduleWaiting(r)
  PROVE  OInv'
<1>1. /\ pc = "waiting" /\ pc' = "waiting" /\ waiting # <<>> /\ r = waiting[1]
      /\ status' = [status EXCEPT ![r] = "RUNNING"]
      /\ computed' = [computed EXCEPT ![r] = NumHitTokens(r)]
      /\ UNCHANGED <<out, placeholders, discard, batches, preempted>>
  BY DEF ScheduleWaiting, Admissible
<1>2. r \in Elements(waiting) /\ status[r] \in {"WAITING", "PREEMPTED"}
  <2>1. r \in Elements(waiting)
    BY <1>1, Types, TailElements DEF KInv, QInv, QueuesMatchStatus
  <2>. QED
    BY <2>1 DEF KInv, QInv, QueuesMatchStatus
<1>3. ~Late /\ ~preempted
  BY <1>1 DEF OInv, Late
<1>4. ASSUME NEW s \in Request PROVE SyncOK(s)' /\ AsyncOK(s)'
  <2>1. SyncOK(s) /\ AsyncOK(s)
    BY DEF OInv
  <2>2. \A i, p \in Nat : Returns(s, i, p)' <=> Returns(s, i, p)
    BY <1>1 DEF Returns
  <2>3. Expecting(s)' => Expecting(s)
    BY <1>1, <1>2, Types DEF Expecting
  <2>4. AsyncOK(s)'
    BY <1>1, <2>1, <2>2, <2>3, AsyncKept
  <2>5. CASE s # r
    <3>1. status'[s] = status[s] /\ computed'[s] = computed[s]
      BY <1>1, <2>5, Types
    <3>2. SyncOK(s)'
      BY <1>1, <1>3, <2>1, <2>2, <2>3, <3>1, SyncKept
    <3>. QED
      BY <2>4, <3>2
  <2>6. CASE s = r
    <3>. SUFFICES ASSUME ~AsyncScheduling
                  PROVE  SyncOK(s)'
      BY <2>4 DEF SyncOK
    <3>1. Expecting(s)
      BY <1>1, <1>2, <2>6 DEF Expecting
    <3>2. \A i, p \in Nat : ~Returns(s, i, p)
      BY <1>2, <1>3, <2>1, <2>6, <3>1 DEF SyncOK
    <3>. QED
      BY <2>2, <3>2, SyncNone
  <2>. QED
    BY <2>5, <2>6
<1>5. OutputsInOrder'
  BY <1>1 DEF OInv, OutputsInOrder
<1>. QED
  BY <1>1, <1>3, <1>4, <1>5 DEF OInv

\* The batch is dispatched: it returns the token after all that are expected.
LEMMA FinishScheduleReturns ==
  ASSUME KInv, FinishSchedule, NEW r \in Request
  PROVE  LET L == Len(batches) + 1
             samples == \E j \in DOMAIN scheduled : scheduled[j].req = r /\ SampledPosition(r) > 0
         IN  /\ \A i, p \in Nat : Returns(r, i, p) => Returns(r, i, p)' /\ i < L
             /\ \A i, p \in Nat : Returns(r, i, p)' =>
                  Returns(r, i, p) \/ (i = L /\ samples /\ p = SampledPosition(r))
             /\ \A i, p \in Nat : i = L /\ samples /\ p = SampledPosition(r) => Returns(r, i, p)'
<1>. DEFINE L == Len(batches) + 1
            samples == \E j \in DOMAIN scheduled : scheduled[j].req = r /\ SampledPosition(r) > 0
<1>1. /\ Len(batches') = L /\ DOMAIN batches = 1 .. Len(batches)
      /\ \A i \in DOMAIN batches : batches'[i] = batches[i]
      /\ batches'[L] = [i \in DOMAIN scheduled |->
           [req |-> scheduled[i].req, pos |-> SampledPosition(scheduled[i].req)]]
  BY FinishScheduleQueues DEF KInv
<1>2. Len(batches) \in Nat /\ DOMAIN batches' = 1 .. L
  <2>1. QInv'
    BY FinishScheduleQueues DEF KInv
  <2>2. batches' \in Seq(Seq(Output))
    BY <2>1 DEF QInv, Shape
  <2>. QED
    BY <1>1, <2>2, Types
<1>3. \A i \in DOMAIN batches : i \in DOMAIN batches' /\ i < L
  BY <1>1, <1>2
<1>4. \A i \in DOMAIN batches' : i = L \/ i \in DOMAIN batches
  BY <1>1, <1>2
<1>5. /\ DOMAIN batches'[L] = DOMAIN scheduled /\ L \in DOMAIN batches'
      /\ \A j \in DOMAIN scheduled :
           /\ batches'[L][j].req = scheduled[j].req
           /\ batches'[L][j].pos = SampledPosition(scheduled[j].req)
  BY <1>1, <1>2
<1>. HIDE DEF L
<1>6. ASSUME NEW i \in Nat, NEW p \in Nat, Returns(r, i, p)
      PROVE  Returns(r, i, p)' /\ i < L
  BY <1>1, <1>3, <1>6 DEF Returns
<1>7. ASSUME NEW i \in Nat, NEW p \in Nat, Returns(r, i, p)'
      PROVE  Returns(r, i, p) \/ (i = L /\ samples /\ p = SampledPosition(r))
  <2>1. i \in DOMAIN batches' /\ p > 0
    BY <1>7 DEF Returns
  <2>2. PICK j \in DOMAIN batches'[i] : batches'[i][j].req = r /\ batches'[i][j].pos = p
    BY <1>7 DEF Returns
  <2>3. CASE i \in DOMAIN batches
    BY <1>1, <2>1, <2>2, <2>3 DEF Returns
  <2>4. CASE i = L
    <3>1. j \in DOMAIN scheduled /\ scheduled[j].req = r /\ SampledPosition(r) = p
      BY <1>5, <2>2, <2>4
    <3>. QED
      BY <2>1, <2>4, <3>1
  <2>. QED
    BY <1>4, <2>1, <2>3, <2>4
<1>8. ASSUME NEW i \in Nat, NEW p \in Nat, i = L, samples, p = SampledPosition(r)
      PROVE  Returns(r, i, p)'
  <2>1. PICK j \in DOMAIN scheduled : scheduled[j].req = r /\ SampledPosition(r) > 0
    BY <1>8
  <2>2. j \in DOMAIN batches'[i] /\ batches'[i][j].req = r /\ batches'[i][j].pos = p /\ p > 0
    BY <1>5, <1>8, <2>1
  <2>. QED
    BY <1>5, <1>8, <2>2 DEF Returns
<1>. HIDE DEF samples
<1>. QED
  BY <1>6, <1>7, <1>8 DEF L, samples

\* What is in flight after the dispatch is in order again.
LEMMA FinishScheduleOutputs ==
  ASSUME KInv, KInv', OInv, InOrderFits, FinishSchedule
  PROVE  OInv'
<1>. DEFINE L == Len(batches) + 1
            samples(r) == \E j \in DOMAIN scheduled :
                            scheduled[j].req = r /\ SampledPosition(r) > 0
<1>1. /\ pc = "finish" /\ pc' \in {"collect", "idle"}
      /\ pc' = "idle" => Len(batches) + 1 < BatchQueueSize
      /\ computed' = [r \in Request |-> computed[r] + NumScheduled(r)]
      /\ placeholders' = [r \in Request |-> PlaceholdersAfter(r)]
      /\ UNCHANGED <<status, out, discard>>
  BY DEF FinishSchedule
<1>2. Len(batches) \in Nat /\ BatchQueueSize \in Nat
  BY Types
<1>3. ASSUME NEW r \in Request
      PROVE  /\ SyncOK(r) /\ AsyncOK(r) /\ (Expecting(r)' => Expecting(r))
             /\ NumTokens(r)' = NumTokens(r) /\ NumTokens(r) \in Nat
             /\ placeholders[r] \in Int /\ placeholders[r] >= 0
             /\ computed'[r] = computed[r] + NumScheduled(r)
             /\ placeholders'[r] = PlaceholdersAfter(r)
  <2>1. CountersOK(r)
    BY DEF KInv
  <2>. QED
    BY <1>1, <2>1, Types DEF OInv, Expecting, NumTokens, CountersOK
<1>4. ASSUME NEW r \in Request
      PROVE  /\ \A i, p \in Nat : Returns(r, i, p) => Returns(r, i, p)' /\ i < L
             /\ \A i, p \in Nat : Returns(r, i, p)' =>
                  Returns(r, i, p) \/ (i = L /\ samples(r) /\ p = SampledPosition(r))
             /\ \A i, p \in Nat : i = L /\ samples(r) /\ p = SampledPosition(r)
                  => Returns(r, i, p)'
  BY FinishScheduleReturns
<1>5. ASSUME NEW r \in Request, samples(r)
      PROVE  /\ SampledPosition(r) = NumTokens(r) + placeholders[r] + 1
             /\ AsyncScheduling => placeholders'[r] = placeholders[r] + 1
             /\ computed'[r] = NumTokens(r) + placeholders[r]
             /\ NumScheduled(r) >= 1 /\ status[r] = "RUNNING"
  <2>1. PICK j \in DOMAIN scheduled : scheduled[j].req = r /\ SampledPosition(r) > 0
    BY <1>5
  <2>2. NumScheduled(r) >= 1 /\ NumScheduled(r) \in Nat /\ status[r] = "RUNNING"
    BY <2>1, NumScheduledFits DEF KInv, QInv, ControlOK
  <2>3. /\ ~IsPrefillChunk(r) /\ SampledPosition(r) = NumTokens(r) + placeholders[r] + 1
        /\ computed[r] + NumScheduled(r) = NumTokens(r) + placeholders[r]
    BY <2>1, SampledNext
  <2>. QED
    BY <1>3, <2>2, <2>3 DEF PlaceholdersAfter
<1>6. ASSUME NEW r \in Request, ~samples(r)
      PROVE  placeholders'[r] = placeholders[r]
  <2>1. CASE ~AsyncScheduling \/ NumScheduled(r) = 0 \/ IsPrefillChunk(r)
    BY <1>3, <2>1 DEF PlaceholdersAfter
  <2>2. CASE NumScheduled(r) # 0 /\ ~IsPrefillChunk(r)
    <3>1. \E j \in DOMAIN scheduled : scheduled[j].req = r
      BY <2>2, Types, ScheduledFacts
    <3>2. SampledPosition(r) > 0
      <4>1. /\ SampledPosition(r) = computed[r] + NumScheduled(r) + 1
            /\ computed[r] \in Int /\ NumScheduled(r) \in Nat
        BY <2>2, Types, NumScheduledFits DEF SampledPosition
      <4>2. CountersOK(r)
        BY DEF KInv
      <4>3. computed[r] >= 0
        BY <4>2 DEF CountersOK
      <4>. QED
        BY <4>1, <4>3
    <3>. QED
      BY <1>6, <3>1, <3>2
  <2>. QED
    BY <2>1, <2>2
<1>. HIDE DEF L, samples
<1>7. ASSUME NEW r \in Request, AsyncScheduling, Expecting(r) PROVE AsyncOK(r)'
  <2>. DEFINE N == NumTokens(r)
              h == placeholders[r]
              g == placeholders'[r]
  <2>0. N \in Nat /\ h \in Int /\ h >= 0 /\ NumTokens(r)' = N
    BY <1>3
  <2>1. /\ \A i, p \in Nat : Returns(r, i, p) => N + 1 <= p /\ p <= N + h
        /\ \A i, k, p, q \in Nat : Returns(r, i, p) /\ Returns(r, k, q) /\ i < k => p < q
        /\ \A p \in Nat : N + 1 <= p /\ p <= N + h => \E i \in Nat : Returns(r, i, p)
    BY <1>3, <1>7 DEF AsyncOK
  <2>2. samples(r) => SampledPosition(r) = N + h + 1 /\ g = h + 1
    BY <1>5, <1>7
  <2>3. ~samples(r) => g = h
    BY <1>6
  <2>4. L \in Nat
    BY <1>2 DEF L
  <2>. HIDE DEF N, h, g
  <2>5. ASSUME NEW i \in Nat, NEW p \in Nat, Returns(r, i, p)'
        PROVE  N + 1 <= p /\ p <= N + g
    BY <1>4, <2>0, <2>1, <2>2, <2>3, <2>5
  <2>6. ASSUME NEW i \in Nat, NEW k \in Nat, NEW p \in Nat, NEW q \in Nat,
               Returns(r, i, p)', Returns(r, k, q)', i < k
        PROVE  p < q
    <3>1. CASE Returns(r, k, q)
      <4>1. k < L
        BY <1>4, <3>1
      <4>2. Returns(r, i, p)
        BY <1>4, <2>4, <2>6, <4>1
      <4>. QED
        BY <2>1, <2>6, <3>1, <4>2
    <3>2. CASE k = L /\ samples(r) /\ q = SampledPosition(r)
      <4>1. Returns(r, i, p)
        BY <1>4, <2>4, <2>6, <3>2
      <4>. QED
        BY <2>0, <2>1, <2>2, <3>2, <4>1
    <3>. QED
      BY <1>4, <2>6, <3>1, <3>2
  <2>7. ASSUME NEW p \in Nat, N + 1 <= p, p <= N + g
        PROVE  \E i \in Nat : Returns(r, i, p)'
    <3>1. CASE p <= N + h
      BY <1>4, <2>1, <2>7, <3>1
    <3>2. CASE ~(p <= N + h)
      <4>1. samples(r) /\ p = SampledPosition(r)
        BY <2>0, <2>2, <2>3, <2>7, <3>2
      <4>. QED
        BY <1>4, <2>4, <4>1
    <3>. QED
      BY <3>1, <3>2
  <2>. QED
    BY <2>0, <2>5, <2>6, <2>7 DEF AsyncOK, g
<1>8. ASSUME NEW r \in Request, ~AsyncScheduling, Expecting(r) PROVE SyncOK(r)'
  <2>0. /\ \A i, p \in Nat : Returns(r, i, p) =>
             /\ p = NumTokens(r) + 1
             /\ \/ status[r] = "RUNNING" /\ computed[r] = NumTokens(r)
                \/ status[r] = "PREEMPTED" /\ i = 1 /\ Late
        /\ \A i, k, p, q \in Nat : Returns(r, i, p) /\ Returns(r, k, q) => i = k
        /\ NumTokens(r)' = NumTokens(r) /\ NumTokens(r) \in Nat /\ placeholders[r] = 0
    <3>1. CountersOK(r) /\ SyncOK(r)
      BY <1>3 DEF KInv
    <3>. QED
      BY <1>3, <1>8, <3>1 DEF SyncOK, CountersOK
  <2>1. ASSUME NEW i \in Nat, NEW p \in Nat, Returns(r, i, p)
        PROVE  /\ ~samples(r)
               /\ \/ status[r] = "RUNNING" /\ computed'[r] = NumTokens(r)
                  \/ status[r] = "PREEMPTED" /\ i = 1 /\ pc' = "collect"
    <3>1. CASE status[r] = "RUNNING" /\ computed[r] = NumTokens(r)
      <4>1. NumScheduled(r) \in Nat /\ Fits(r, NumScheduled(r))
        BY NumScheduledFits
      <4>2. NumScheduled(r) = 0
        BY <2>0, <3>1, <4>1 DEF Fits
      <4>3. ~samples(r)
        BY <1>5, <4>2
      <4>. QED
        BY <1>3, <2>0, <3>1, <4>2, <4>3
    <3>2. CASE status[r] = "PREEMPTED" /\ i = 1 /\ Late
      <4>1. i >= 1 /\ i <= Len(batches)
        BY <2>1, ReturnsNat
      <4>2. BatchQueueSize <= 2
        BY <1>2, <1>8 DEF InOrderFits
      <4>3. pc' = "collect"
        BY <1>1, <1>2, <4>1, <4>2
      <4>. QED
        BY <1>5, <3>2, <4>3
    <3>. QED
      BY <2>0, <2>1, <3>1, <3>2
  <2>2. ASSUME samples(r) PROVE /\ SampledPosition(r) = NumTokens(r) + 1
                                /\ status[r] = "RUNNING" /\ computed'[r] = NumTokens(r)
    BY <1>5, <2>0, <2>2
  <2>3. ASSUME NEW i \in Nat, NEW p \in Nat, Returns(r, i, p)'
        PROVE  /\ p = NumTokens(r) + 1
               /\ \/ status[r] = "RUNNING" /\ computed'[r] = NumTokens(r)
                  \/ status[r] = "PREEMPTED" /\ i = 1 /\ pc' = "collect"
    BY <1>4, <2>0, <2>1, <2>2, <2>3
  <2>4. ASSUME NEW i \in Nat, NEW k \in Nat, NEW p \in Nat, NEW q \in Nat,
               Returns(r, i, p)', Returns(r, k, q)'
        PROVE  i = k
    BY <1>4, <2>0, <2>1, <2>4
  <2>5. pc' = "collect" => Late'
    BY DEF Late
  <2>. QED
    BY <1>1, <2>0, <2>3, <2>4, <2>5 DEF SyncOK
<1>9. ASSUME NEW r \in Request PROVE SyncOK(r)' /\ AsyncOK(r)'
  BY <1>3, <1>7, <1>8 DEF SyncOK, AsyncOK
<1>10. OutputsInOrder'
  BY <1>1 DEF OInv, OutputsInOrder
<1>. QED
  BY <1>1, <1>9, <1>10 DEF OInv

\* The oldest batch is used up; the next one takes its place.
LEMMA EndUpdateOutputs ==
  ASSUME KInv, OInv, EndUpdate
  PROVE  OInv'
<1>1. /\ pc = "update" /\ pc' = "idle" /\ batches[1] = <<>>
      /\ UNCHANGED <<status, computed, out, placeholders, discard>>
  BY DEF EndUpdate, reqVars
<1>2. /\ batches \in Seq(Seq(Output)) /\ Len(batches) \in Nat \ {0}
      /\ Len(batches') = Len(batches) - 1
      /\ \A i \in 1 .. Len(batches) - 1 : batches'[i] = batches[i + 1]
      /\ batches' \in Seq(Seq(Output))
  BY EndUpdateQueues DEF KInv, QInv, Shape
<1>3. DOMAIN batches = 1 .. Len(batches) /\ DOMAIN batches' = 1 .. Len(batches) - 1
  BY <1>2
<1>4. ASSUME NEW r \in Request, NEW i \in Nat, NEW p \in Nat
      PROVE  /\ Returns(r, i, p)' => Returns(r, i + 1, p)
             /\ Returns(r, i + 1, p) /\ i # 0 => Returns(r, i, p)'
             /\ ~Returns(r, 1, p)
  <2>1. ~Returns(r, 1, p)
    BY <1>1 DEF Returns
  <2>2. CASE i \in 1 .. Len(batches) - 1
    <3>1. /\ i \in DOMAIN batches' /\ i + 1 \in DOMAIN batches
          /\ batches'[i] = batches[i + 1]
      <4>1. PICK L \in Nat : L = Len(batches)
        BY <1>2
      <4>2. i \in 1 .. L - 1 /\ i + 1 \in 1 .. L
        BY <2>2, <4>1
      <4>. QED
        BY <1>2, <1>3, <4>1, <4>2, SMTT(30)
    <3>. QED
      BY <2>1, <3>1 DEF Returns
  <2>3. CASE ~(i \in 1 .. Len(batches) - 1)
    <3>1. i \notin DOMAIN batches' /\ (i # 0 => i + 1 \notin DOMAIN batches)
      BY <1>2, <1>3, <2>3
    <3>. QED
      BY <2>1, <3>1 DEF Returns
  <2>. QED
    BY <2>2, <2>3
<1>5. ASSUME NEW r \in Request PROVE SyncOK(r)' /\ AsyncOK(r)'
  <2>1. SyncOK(r) /\ AsyncOK(r) /\ (Expecting(r)' => Expecting(r))
    BY <1>1 DEF OInv, Expecting
  <2>2. NumTokens(r)' = NumTokens(r) /\ status' = status /\ computed' = computed
        /\ placeholders' = placeholders
    BY <1>1 DEF NumTokens
  <2>3. SyncOK(r)'
    <3>. SUFFICES ASSUME ~AsyncScheduling, Expecting(r) PROVE SyncOK(r)'
      BY <2>1 DEF SyncOK
    <3>0. /\ \A i, p \in Nat : Returns(r, i, p) =>
               /\ p = NumTokens(r) + 1
               /\ \/ status[r] = "RUNNING" /\ computed[r] = NumTokens(r)
                  \/ status[r] = "PREEMPTED" /\ i = 1 /\ Late
          /\ \A i, k, p, q \in Nat : Returns(r, i, p) /\ Returns(r, k, q) => i = k
      BY <2>1 DEF SyncOK
    <3>1. ASSUME NEW i \in Nat, NEW p \in Nat, Returns(r, i, p)'
          PROVE  p = NumTokens(r) + 1 /\ status[r] = "RUNNING" /\ computed[r] = NumTokens(r)
      <4>1. PICK n \in Nat : n = i + 1
        OBVIOUS
      <4>2. Returns(r, n, p) /\ ~Returns(r, 1, p)
        BY <1>4, <3>1, <4>1
      <4>. QED
        BY <3>0, <4>2
    <3>2. ASSUME NEW i \in Nat, NEW k \in Nat, NEW p \in Nat, NEW q \in Nat,
                 Returns(r, i, p)', Returns(r, k, q)'
          PROVE  i = k
      <4>1. PICK n \in Nat, m \in Nat : n = i + 1 /\ m = k + 1
        OBVIOUS
      <4>2. Returns(r, n, p) /\ Returns(r, m, q)
        BY <1>4, <3>2, <4>1
      <4>3. n = m
        BY <3>0, <4>2
      <4>. QED
        BY <4>1, <4>3
    <3>. QED
      BY <2>2, <3>1, <3>2 DEF SyncOK
  <2>4. AsyncOK(r)'
    <3>. SUFFICES ASSUME AsyncScheduling, Expecting(r) PROVE AsyncOK(r)'
      BY <2>1 DEF AsyncOK
    <3>0. /\ \A i, p \in Nat : Returns(r, i, p) =>
               NumTokens(r) + 1 <= p /\ p <= NumTokens(r) + placeholders[r]
          /\ \A i, k, p, q \in Nat : Returns(r, i, p) /\ Returns(r, k, q) /\ i < k => p < q
          /\ \A p \in Nat : NumTokens(r) + 1 <= p /\ p <= NumTokens(r) + placeholders[r] =>
               \E i \in Nat : Returns(r, i, p)
      BY <2>1 DEF AsyncOK
    <3>1. ASSUME NEW i \in Nat, NEW p \in Nat, Returns(r, i, p)'
          PROVE  NumTokens(r) + 1 <= p /\ p <= NumTokens(r) + placeholders[r]
      <4>1. PICK n \in Nat : n = i + 1
        OBVIOUS
      <4>2. Returns(r, n, p)
        BY <1>4, <3>1, <4>1
      <4>. QED
        BY <3>0, <4>2, Zenon
    <3>2. ASSUME NEW i \in Nat, NEW k \in Nat, NEW p \in Nat, NEW q \in Nat,
                 Returns(r, i, p)', Returns(r, k, q)', i < k
          PROVE  p < q
      <4>1. PICK n \in Nat, m \in Nat : n = i + 1 /\ m = k + 1
        OBVIOUS
      <4>2. Returns(r, n, p) /\ Returns(r, m, q)
        BY <1>4, <3>2, <4>1
      <4>3. n < m
        BY <3>2, <4>1
      <4>. QED
        BY <3>0, <4>2, <4>3, Zenon
    <3>3. ASSUME NEW p \in Nat, NumTokens(r) + 1 <= p, p <= NumTokens(r) + placeholders[r]
          PROVE  \E i \in Nat : Returns(r, i, p)'
      <4>1. PICK n \in Nat : Returns(r, n, p)
        BY <3>0, <3>3, Zenon
      <4>2. n >= 1
        BY <4>1, ReturnsNat
      <4>3. n # 1
        BY <1>4, <4>1
      <4>4. n - 1 \in Nat /\ n - 1 # 0 /\ n = (n - 1) + 1
        BY <4>2, <4>3
      <4>5. PICK i \in Nat : i # 0 /\ n = i + 1
        BY <4>4
      <4>. QED
        BY <1>4, <4>1, <4>5
    <3>. QED
      BY <2>2, <3>1, <3>2, <3>3, Zenon DEF AsyncOK
  <2>. QED
    BY <2>3, <2>4
<1>6. OutputsInOrder'
  BY <1>1 DEF OInv, OutputsInOrder
<1>. QED
  BY <1>1, <1>5, <1>6 DEF OInv

\* The token that is used is the next one of its request.
LEMMA EntryIsNext ==
  ASSUME KInv, OInv, HasEntry, ~IsMoot
  PROVE  /\ Entry.req \in Request /\ Entry.pos \in Nat /\ Entry.pos > 0
         /\ Returns(Entry.req, 1, Entry.pos)
         /\ Entry.pos = NumTokens(Entry.req) + 1
<1>1. /\ Entry.req \in Request /\ Entry.pos \in Int
      /\ 1 \in DOMAIN batches /\ 1 \in DOMAIN batches[1]
  BY EntryFacts DEF KInv
<1>2. Entry.pos >= 0 /\ Entry.pos # 0 /\ status[Entry.req] # "FINISHED"
  BY <1>1 DEF KInv, BatchesOK, Entry, IsMoot
<1>3. PICK r \in Request, e \in Nat : r = Entry.req /\ e = Entry.pos
  BY <1>1, <1>2
<1>4. Returns(r, 1, e) /\ e > 0
  BY <1>1, <1>2, <1>3 DEF Returns, Entry
<1>5. Expecting(r)
  BY <1>2, <1>3 DEF Expecting, HasEntry
<1>6. SyncOK(r) /\ AsyncOK(r)
  BY DEF OInv
<1>7. NumTokens(r) \in Nat /\ placeholders[r] \in Int
  BY Types
<1>8. CASE ~AsyncScheduling
  BY <1>1, <1>2, <1>3, <1>4, <1>5, <1>6, <1>8 DEF SyncOK
<1>9. CASE AsyncScheduling
  <2>1. /\ \A i, p \in Nat : Returns(r, i, p) =>
             NumTokens(r) + 1 <= p /\ p <= NumTokens(r) + placeholders[r]
        /\ \A i, k, p, q \in Nat : Returns(r, i, p) /\ Returns(r, k, q) /\ i < k => p < q
        /\ \A p \in Nat : NumTokens(r) + 1 <= p /\ p <= NumTokens(r) + placeholders[r] =>
             \E i \in Nat : Returns(r, i, p)
    BY <1>5, <1>6, <1>9 DEF AsyncOK
  <2>2. NumTokens(r) + 1 <= e /\ e <= NumTokens(r) + placeholders[r]
    BY <1>4, <2>1
  <2>3. PICK n \in Nat : n = NumTokens(r) + 1
    BY <1>7
  <2>4. PICK i \in Nat : Returns(r, i, n)
    BY <1>7, <2>1, <2>2, <2>3
  <2>5. i >= 1
    BY <2>4, ReturnsNat
  <2>6. CASE i = 1
    <3>1. n = e
      BY <1>4, <2>4, <2>6, ReturnsOnce
    <3>. QED
      BY <1>1, <1>2, <1>3, <1>4, <2>3, <3>1
  <2>7. CASE i > 1
    <3>1. e < n
      BY <1>4, <2>1, <2>4, <2>7
    <3>. QED
      BY <1>7, <2>2, <2>3, <3>1
  <2>. QED
    BY <2>5, <2>6, <2>7
<1>. QED
  BY <1>8, <1>9

\* A token is appended: the next ones are still on their way, in order.
LEMMA TakeOutputs ==
  ASSUME KInv, OInv, NEW eos \in BOOLEAN, TakeOutput(eos)
  PROVE  OInv'
<1>0. HasEntry /\ ~IsMoot
  BY DEF TakeOutput
<1>1. PICK r \in Request, e \in Nat :
        /\ r = Entry.req /\ e = Entry.pos /\ e > 0 /\ Returns(r, 1, e) /\ e = NumTokens(r) + 1
  BY <1>0, EntryIsNext
<1>2. /\ pc = "update" /\ pc' \in {"update", "free"}
      /\ out' = [out EXCEPT ![r] = Append(@, e)]
      /\ placeholders' = [placeholders EXCEPT ![r] = IF AsyncScheduling THEN @ - 1 ELSE @]
      /\ \/ pc' = "free" /\ UNCHANGED batches
         \/ pc' = "update" /\ DropEntry
      /\ UNCHANGED <<status, computed, discard, preempted>>
  BY <1>1 DEF TakeOutput, HasEntry, scheduleVars
<1>3. /\ out \in [Request -> Seq(Int)] /\ placeholders \in [Request -> Int]
      /\ NumTokens(r) \in Nat /\ placeholders[r] \in Int /\ Len(out[r]) \in Nat
      /\ PromptLen[r] \in Nat
  BY Types
<1>4. /\ out'[r] = Append(out[r], e)
      /\ placeholders'[r] = IF AsyncScheduling THEN placeholders[r] - 1 ELSE placeholders[r]
      /\ \A s \in Request : s # r => out'[s] = out[s] /\ placeholders'[s] = placeholders[s]
  BY <1>2, <1>3
<1>5. /\ Len(out'[r]) = Len(out[r]) + 1 /\ out'[r][Len(out[r]) + 1] = e
      /\ \A i \in 1 .. Len(out[r]) : out'[r][i] = out[r][i]
      /\ DOMAIN out[r] = 1 .. Len(out[r]) /\ DOMAIN out'[r] = 1 .. Len(out[r]) + 1
  <2>1. out[r] \in Seq(Int) /\ e \in Int
    BY <1>3
  <2>. QED
    BY <1>4, <2>1
<1>6. NumTokens(r)' = NumTokens(r) + 1
  BY <1>3, <1>5, SMTT(30) DEF NumTokens
<1>7. OutputsInOrder'
  <2>. SUFFICES ASSUME NEW s \in Request, NEW i \in DOMAIN out'[s]
                PROVE  out'[s][i] = PromptLen[s] + i
    BY DEF OutputsInOrder
  <2>0. \A t \in Request : \A j \in DOMAIN out[t] : out[t][j] = PromptLen[t] + j
    BY DEF OInv, OutputsInOrder
  <2>1. CASE s # r
    BY <1>4, <2>0, <2>1
  <2>2. CASE s = r /\ i \in 1 .. Len(out[r])
    BY <1>5, <2>0, <2>2
  <2>3. CASE s = r /\ i = Len(out[r]) + 1
    <3>1. e = PromptLen[r] + Len(out[r]) + 1
      BY <1>1 DEF NumTokens
    <3>. QED
      BY <1>3, <1>5, <2>3, <3>1
  <2>. QED
    BY <1>3, <1>5, <2>1, <2>2, <2>3
<1>8. ASSUME NEW s \in Request, s # r PROVE SyncOK(s)' /\ AsyncOK(s)'
  <2>1. \A i, p \in Nat : Returns(s, i, p)' <=> Returns(s, i, p)
    <3>1. CASE UNCHANGED batches
      BY <3>1 DEF Returns
    <3>2. CASE DropEntry
      BY <1>0, <1>1, <1>8, <3>2, DropReturns
    <3>. QED
      BY <1>2, <3>1, <3>2
  <2>2. SyncOK(s) /\ AsyncOK(s) /\ (Expecting(s)' => Expecting(s)) /\ Late'
    BY <1>2 DEF OInv, Expecting, Late
  <2>3. SyncOK(s)'
    BY <1>2, <1>4, <1>8, <2>1, <2>2, SyncKept
  <2>4. AsyncOK(s)'
    BY <1>2, <1>4, <1>8, <2>1, <2>2, AsyncKept
  <2>. QED
    BY <2>3, <2>4
<1>9. CASE pc' = "free"
  <2>1. ~Expecting(r)'
    <3>1. Entry' = Entry
      BY <1>2, <1>9 DEF Entry
    <3>. QED
      BY <1>1, <1>9, <3>1 DEF Expecting
  <2>2. SyncOK(r)' /\ AsyncOK(r)'
    BY <2>1 DEF SyncOK, AsyncOK
  <2>. QED
    BY <1>2, <1>7, <1>8, <2>2 DEF OInv
<1>10. CASE pc' = "update" /\ DropEntry
  <2>1. /\ \A i, p \in Nat : i # 1 => (Returns(r, i, p)' <=> Returns(r, i, p))
        /\ \A p \in Nat : ~Returns(r, 1, p)'
    BY <1>0, <1>1, <1>10, DropReturns
  <2>2. SyncOK(r) /\ AsyncOK(r) /\ Expecting(r)
    BY <1>0, <1>1, <1>2 DEF OInv, Expecting, IsMoot
  <2>3. SyncOK(r)'
    <3>1. CASE ~AsyncScheduling
      <4>1. \A i, k, p, q \in Nat : Returns(r, i, p) /\ Returns(r, k, q) => i = k
        BY <2>2, <3>1 DEF SyncOK
      <4>2. ASSUME NEW i \in Nat, NEW p \in Nat, Returns(r, i, p)' PROVE FALSE
        <5>1. i # 1 /\ Returns(r, i, p)
          BY <2>1, <4>2
        <5>. QED
          BY <1>1, <4>1, <5>1
      <4>. QED
        BY <4>2, SyncNone
    <3>2. CASE AsyncScheduling
      BY <3>2 DEF SyncOK
    <3>. QED
      BY <3>1, <3>2
  <2>4. AsyncOK(r)'
    <3>. SUFFICES ASSUME AsyncScheduling PROVE AsyncOK(r)'
      BY DEF AsyncOK
    <3>. DEFINE N == NumTokens(r)
                h == placeholders[r]
                g == placeholders'[r]
    <3>0. /\ \A i, p \in Nat : Returns(r, i, p) => N + 1 <= p /\ p <= N + h
          /\ \A i, k, p, q \in Nat : Returns(r, i, p) /\ Returns(r, k, q) /\ i < k => p < q
          /\ \A p \in Nat : N + 1 <= p /\ p <= N + h => \E i \in Nat : Returns(r, i, p)
      BY <2>2 DEF AsyncOK
    <3>1. N \in Nat /\ h \in Int /\ g = h - 1 /\ NumTokens(r)' = N + 1 /\ e = N + 1
      BY <1>1, <1>3, <1>4, <1>6
    <3>. HIDE DEF N, h, g
    <3>2. ASSUME NEW i \in Nat, NEW p \in Nat, Returns(r, i, p)'
          PROVE  (N + 1) + 1 <= p /\ p <= (N + 1) + g
      <4>1. i # 1 /\ Returns(r, i, p)
        BY <2>1, <3>2
      <4>2. i >= 1
        BY <4>1, ReturnsNat
      <4>3. e < p
        BY <1>1, <3>0, <4>1, <4>2
      <4>4. p <= N + h
        BY <3>0, <4>1
      <4>. QED
        BY <3>1, <4>3, <4>4
    <3>3. ASSUME NEW i \in Nat, NEW k \in Nat, NEW p \in Nat, NEW q \in Nat,
                 Returns(r, i, p)', Returns(r, k, q)', i < k
          PROVE  p < q
      BY <2>1, <3>0, <3>3
    <3>4. ASSUME NEW p \in Nat, (N + 1) + 1 <= p, p <= (N + 1) + g
          PROVE  \E i \in Nat : Returns(r, i, p)'
      <4>1. N + 1 <= p /\ p <= N + h /\ p # e
        BY <3>1, <3>4
      <4>2. PICK i \in Nat : Returns(r, i, p)
        BY <3>0, <4>1
      <4>3. i # 1
        BY <1>1, <4>1, <4>2, ReturnsOnce
      <4>. QED
        BY <2>1, <4>2, <4>3
    <3>. QED
      BY <3>1, <3>2, <3>3, <3>4 DEF AsyncOK, g
  <2>. QED
    BY <1>2, <1>7, <1>8, <1>10, <2>3, <2>4 DEF OInv
<1>. QED
  BY <1>2, <1>9, <1>10

\* Initially nothing is in flight.
LEMMA InitOutputs == ASSUME Init PROVE OInv
<1>1. /\ out = [r \in Request |-> <<>>] /\ placeholders = [r \in Request |-> 0]
      /\ discard = [r \in Request |-> FALSE] /\ batches = <<>> /\ pc = "idle"
  BY DEF Init
<1>2. ASSUME NEW r \in Request PROVE SyncOK(r) /\ AsyncOK(r)
  <2>1. \A i, p \in Nat : ~Returns(r, i, p)
    BY <1>1 DEF Returns
  <2>2. NumTokens(r) = PromptLen[r] + 0 /\ PromptLen[r] \in Nat /\ placeholders[r] = 0
    BY <1>1, SchedulerAssumption, SizeAssumption DEF NumTokens
  <2>. QED
    BY <2>1, <2>2 DEF SyncOK, AsyncOK
<1>. QED
  BY <1>1, <1>2 DEF OInv, OutputsInOrder

\* Every step keeps the outputs in order.
LEMMA NextOutputs ==
  ASSUME KInv, KInv', OInv, InOrderFits, [Next]_vars
  PROVE  OInv'
<1>. DEFINE Still == /\ UNCHANGED <<status, computed, out, placeholders, discard, batches>>
                     /\ (\A r \in Request : Expecting(r)' => Expecting(r))
                     /\ (Late => Late') /\ (pc' = "waiting" => ~preempted')
<1>0. ASSUME Still PROVE OInv'
  BY <1>0, StillOutputs
<1>1. ASSUME NEW r \in Request, Add(r) PROVE OInv'
  BY <1>1, AddOutputs
<1>2. ASSUME NEW r \in Request, Abort(r) PROVE OInv'
  BY <1>2, AbortOutputs
<1>3. ASSUME NEW resetRunning \in BOOLEAN, StartReset(resetRunning) PROVE Still
  BY <1>3 DEF StartReset, reqVars, scheduleVars, Expecting, Late, Scheduling
<1>4. CASE ResetPreempt
  BY <1>4, ResetPreemptOutputs
<1>5. CASE ResetFinish \/ StepStart \/ StepDrain \/ Collect
  <2>1. Still
    BY <1>5 DEF ResetFinish, StepStart, StepDrain, Collect, reqVars, scheduleVars, Expecting,
                Late, Scheduling
  <2>. QED
    BY <1>0, <2>1
<1>6. ASSUME NEW r \in Request, SkipRunning(r) \/ TryRunning(r) PROVE Still
  BY <1>6 DEF SkipRunning, TryRunning, Visiting, reqVars, Expecting, Late, Scheduling
<1>7. CASE ScheduleRunning \/ EndRunning
  <2>1. Still
    BY <1>7 DEF ScheduleRunning, EndRunning, reqVars, scheduleVars, Expecting, Late, Scheduling
  <2>. QED
    BY <1>0, <2>1
<1>8. CASE PreemptVictim
  BY <1>8, PreemptVictimOutputs
<1>9. ASSUME NEW r \in Request, ScheduleWaiting(r) PROVE OInv'
  BY <1>9, ScheduleWaitingOutputs
<1>10. CASE EndWaiting
  <2>1. Still
    BY <1>10 DEF EndWaiting, OInv, reqVars, scheduleVars, Expecting, Late, Scheduling
  <2>. QED
    BY <1>0, <2>1
<1>11. CASE FinishSchedule
  BY <1>11, FinishScheduleOutputs
<1>12. CASE SkipOutput
  BY <1>12, SkipOutputs
<1>13. CASE DiscardOutput
  <2>1. AsyncScheduling /\ HasEntry /\ discard[Entry.req]
    BY <1>13 DEF DiscardOutput
  <2>2. Entry.req \in Request
    BY <2>1, EntryFacts DEF KInv
  <2>. QED
    BY <2>1, <2>2 DEF OInv
<1>14. ASSUME NEW eos \in BOOLEAN, TakeOutput(eos) PROVE OInv'
  BY <1>14, TakeOutputs
<1>15. CASE FreeStopped
  BY <1>15, FreeStoppedOutputs
<1>16. CASE EndUpdate
  BY <1>16, EndUpdateOutputs
<1>17. CASE UNCHANGED vars
  <2>1. UNCHANGED <<status, computed, out, placeholders, discard, batches, pc, preempted>>
    BY <1>17 DEF vars, reqVars, stepVars, scheduleVars
  <2>2. Still
    BY <2>1 DEF OInv, Expecting, Entry, Late
  <2>. QED
    BY <1>0, <2>2
<1>. HIDE DEF Still
<1>. QED
  BY <1>0, <1>1, <1>2, <1>3, <1>4, <1>5, <1>6, <1>7, <1>8, <1>9, <1>10, <1>11, <1>12, <1>13,
     <1>14, <1>15, <1>16, <1>17 DEF Next, Client, Engine

\* What a request returns is the tokens right after its prompt, each once and in
\* order: with placeholders for any number of batches in flight, and without for
\* up to two.
THEOREM OutputsCorrect ==
  ASSUME LengthsFit, InOrderFits
  PROVE  Spec => []OutputsInOrder
<1>1. Init => OInv
  BY InitOutputs
<1>2. KInv /\ KInv' /\ OInv /\ [Next]_vars => OInv'
  BY NextOutputs
<1>3. OInv => OutputsInOrder
  BY DEF OInv
<1>4. Spec => []KInv
  BY InOrderResetsFit, KVInvariant
<1>. QED
  BY <1>1, <1>2, <1>3, <1>4, PTL DEF Spec

----------------------------------------------------------------------------
(* The placeholders                                                        *)

\* No more requests run, and no batch has more entries, than max_num_seqs.
WidthOK ==
  /\ Len(running) <= MaxNumSeqs
  /\ \A i \in DOMAIN batches : Len(batches[i]) <= MaxNumSeqs

\* A list of distinct requests is no longer than one that has them all.
LEMMA DistinctFits ==
  ASSUME NEW s \in Seq(Request), NEW t \in Seq(Request), Distinct(s),
         Elements(s) \subseteq Elements(t)
  PROVE  Len(s) <= Len(t)
<1>. DEFINE f == [j \in 1 .. Len(s) |-> CHOOSE i \in DOMAIN t : t[i] = s[j]]
<1>1. Len(s) \in Nat /\ Len(t) \in Nat /\ DOMAIN s = 1 .. Len(s) /\ DOMAIN t = 1 .. Len(t)
  OBVIOUS
<1>2. ASSUME NEW j \in 1 .. Len(s) PROVE f[j] \in 1 .. Len(t) /\ t[f[j]] = s[j]
  <2>1. \E i \in DOMAIN t : t[i] = s[j]
    BY <1>1 DEF Elements
  <2>. QED
    BY <1>1, <2>1
<1>3. f \in Injection(1 .. Len(s), 1 .. Len(t))
  <2>1. f \in [1 .. Len(s) -> 1 .. Len(t)]
    BY <1>2
  <2>2. ASSUME NEW j \in 1 .. Len(s), NEW k \in 1 .. Len(s), f[j] = f[k] PROVE j = k
    <3>1. s[j] = s[k]
      BY <1>2, <2>2
    <3>. QED
      BY <1>1, <3>1 DEF Distinct
  <2>. HIDE DEF f
  <2>. QED
    BY <2>1, <2>2 DEF Injection, IsInjective
<1>. HIDE DEF f
<1>4. /\ IsFiniteSet(1 .. Len(t)) /\ Cardinality(1 .. Len(t)) = Len(t)
      /\ Cardinality(1 .. Len(s)) = Len(s)
  BY <1>1, IntervalSize
<1>. QED
  BY <1>3, <1>4, FS_Injection

\* No request starts to run: the running list grows no longer.
LEMMA RunningFits ==
  ASSUME QInv, QInv', WidthOK,
         \A r \in Request : status'[r] = "RUNNING" => status[r] = "RUNNING"
  PROVE  Len(running') <= MaxNumSeqs
<1>1. /\ running \in Seq(Request) /\ running' \in Seq(Request) /\ Distinct(running')
      /\ \A r \in Request : r \in Elements(running) <=> status[r] = "RUNNING"
      /\ \A r \in Request : r \in Elements(running') <=> status'[r] = "RUNNING"
  BY DEF QInv, Shape, QueuesMatchStatus
<1>2. Elements(running') \subseteq Request
  BY <1>1 DEF Elements
<1>3. Len(running') <= Len(running)
  BY <1>1, <1>2, DistinctFits
<1>4. Len(running) \in Nat /\ Len(running') \in Nat /\ MaxNumSeqs \in Nat
  BY <1>1, SchedulerAssumption
<1>. QED
  BY <1>3, <1>4 DEF WidthOK

\* One entry leaves the oldest batch.
LEMMA DropWidth ==
  ASSUME QInv, WidthOK, HasEntry \/ pc = "free", DropEntry
  PROVE  \A i \in DOMAIN batches' : Len(batches'[i]) <= MaxNumSeqs
<1>1. /\ batches \in Seq(Seq(Output)) /\ batches # <<>> /\ batches[1] # <<>>
      /\ 1 \in DOMAIN batches /\ batches[1] \in Seq(Output)
  BY EntryFacts
<1>2. /\ batches' \in Seq(Seq(Output)) /\ Len(batches') = Len(batches)
      /\ \A i \in DOMAIN batches : i # 1 => batches'[i] = batches[i]
      /\ batches'[1] = Tail(batches[1])
  BY <1>1, DropEntryFacts
<1>3. DOMAIN batches' = DOMAIN batches
  BY <1>1, <1>2
<1>4. Len(batches'[1]) = Len(batches[1]) - 1 /\ Len(batches[1]) \in Nat
  BY <1>1, <1>2
<1>5. MaxNumSeqs \in Nat /\ Len(batches[1]) <= MaxNumSeqs
  BY <1>1, SchedulerAssumption DEF WidthOK
<1>6. Len(batches'[1]) <= MaxNumSeqs
  BY <1>4, <1>5
<1>. QED
  BY <1>2, <1>3, <1>6 DEF WidthOK

\* The new batch has at most one entry for each running request.
LEMMA FinishScheduleWidth ==
  ASSUME QInv, WidthOK, FinishSchedule
  PROVE  \A i \in DOMAIN batches' : Len(batches'[i]) <= MaxNumSeqs
<1>. DEFINE L == Len(batches) + 1
            s == [i \in 1 .. Len(scheduled) |-> scheduled[i].req]
<1>1. /\ Len(batches') = L /\ DOMAIN batches = 1 .. Len(batches)
      /\ \A i \in DOMAIN batches : batches'[i] = batches[i]
      /\ batches'[L] = [i \in DOMAIN scheduled |->
           [req |-> scheduled[i].req, pos |-> SampledPosition(scheduled[i].req)]]
      /\ QInv'
  BY FinishScheduleQueues
<1>2. /\ batches \in Seq(Seq(Output)) /\ batches' \in Seq(Seq(Output))
      /\ scheduled \in Seq(Grant) /\ running \in Seq(Request)
  BY <1>1 DEF QInv, Shape
<1>3. DOMAIN batches' = 1 .. L /\ Len(batches) \in Nat
  BY <1>1, <1>2
<1>4. Len(scheduled) \in Nat /\ DOMAIN scheduled = 1 .. Len(scheduled) /\ Len(running) \in Nat
  BY <1>2
<1>5. Len(batches'[L]) = Len(scheduled)
  <2>1. DOMAIN batches'[L] = 1 .. Len(scheduled)
    BY <1>1, <1>4
  <2>2. batches'[L] \in Seq(Output)
    BY <1>2, <1>3
  <2>. QED
    BY <1>4, <2>1, <2>2
<1>. HIDE DEF L
<1>6. \A i \in 1 .. Len(scheduled) :
        scheduled[i].req \in Request /\ scheduled[i].req \in Elements(running)
  <2>. SUFFICES ASSUME NEW i \in 1 .. Len(scheduled)
                PROVE  scheduled[i].req \in Request /\ scheduled[i].req \in Elements(running)
    OBVIOUS
  <2>0. i \in DOMAIN scheduled /\ ControlOK
    BY <1>4 DEF QInv
  <2>1. scheduled[i] \in Grant /\ status[scheduled[i].req] = "RUNNING"
    <3>1. scheduled[i] \in Grant
      BY <1>2, <2>0
    <3>. QED
      BY <2>0, <3>1, Zenon DEF ControlOK
  <2>2. scheduled[i].req \in Request
    BY <2>1 DEF Grant
  <2>. QED
    BY <2>1, <2>2 DEF QInv, QueuesMatchStatus
<1>7. s \in Seq(Request) /\ Len(s) = Len(scheduled) /\ DOMAIN s = 1 .. Len(scheduled)
  BY <1>4, <1>6
<1>8. Distinct(s) /\ Elements(s) \subseteq Elements(running)
  <2>1. \A i, j \in DOMAIN scheduled : scheduled[i].req = scheduled[j].req => i = j
    BY DEF QInv, LoopOK
  <2>. QED
    BY <1>4, <1>6, <1>7, <2>1 DEF Distinct, Elements
<1>. HIDE DEF s
<1>9. Len(s) <= Len(running)
  BY <1>2, <1>7, <1>8, DistinctFits
<1>10. Len(batches'[L]) <= MaxNumSeqs
  <2>1. Len(running) <= MaxNumSeqs /\ MaxNumSeqs \in Nat
    BY SchedulerAssumption DEF WidthOK
  <2>. QED
    BY <1>4, <1>5, <1>7, <1>9, <2>1
<1>11. \A i \in DOMAIN batches' : i = L \/ i \in DOMAIN batches
  BY <1>1, <1>3 DEF L
<1>. QED
  BY <1>1, <1>10, <1>11 DEF WidthOK

\* Every step keeps to max_num_seqs.
LEMMA WidthStep ==
  ASSUME QInv, QInv', WidthOK, [Next]_vars
  PROVE  WidthOK'
<1>. DEFINE Calm == \A r \in Request : status'[r] = "RUNNING" => status[r] = "RUNNING"
<1>0. status \in [Request -> Statuses]
  BY DEF QInv, Shape
<1>1. ASSUME Calm, UNCHANGED batches PROVE WidthOK'
  BY <1>1, RunningFits DEF WidthOK
<1>2. ASSUME Calm, HasEntry \/ pc = "free", DropEntry PROVE WidthOK'
  BY <1>2, RunningFits, DropWidth DEF WidthOK
<1>3. ASSUME NEW r \in Request, Add(r) \/ Abort(r) \/ SkipRunning(r) \/ TryRunning(r)
      PROVE  WidthOK'
  <2>1. Calm /\ UNCHANGED batches
    BY <1>0, <1>3 DEF Add, Abort, SkipRunning, TryRunning, reqVars, stepVars
  <2>. QED
    BY <1>1, <2>1
<1>4. ASSUME NEW resetRunning \in BOOLEAN, StartReset(resetRunning) PROVE WidthOK'
  <2>1. Calm /\ UNCHANGED batches
    BY <1>4 DEF StartReset, reqVars
  <2>. QED
    BY <1>1, <2>1
<1>5. CASE ResetPreempt \/ PreemptVictim
  <2>1. Calm /\ UNCHANGED batches
    BY <1>0, <1>5 DEF ResetPreempt, PreemptVictim, Preempt, stepVars
  <2>. QED
    BY <1>1, <2>1
<1>6. CASE ResetFinish \/ StepStart \/ StepDrain \/ Collect \/ ScheduleRunning \/ EndRunning
           \/ EndWaiting \/ UNCHANGED vars
  <2>1. Calm /\ UNCHANGED batches
    BY <1>6 DEF ResetFinish, StepStart, StepDrain, Collect, ScheduleRunning, EndRunning,
                EndWaiting, vars, reqVars, stepVars
  <2>. QED
    BY <1>1, <2>1
<1>7. ASSUME NEW r \in Request, ScheduleWaiting(r) PROVE WidthOK'
  <2>1. running' = Append(running, r) /\ Len(running) < MaxNumSeqs /\ UNCHANGED batches
    BY <1>7 DEF ScheduleWaiting, Admissible
  <2>2. running \in Seq(Request) /\ MaxNumSeqs \in Nat
    BY SchedulerAssumption DEF QInv, Shape
  <2>3. Len(running') <= MaxNumSeqs
    BY <2>1, <2>2
  <2>. QED
    BY <2>1, <2>3 DEF WidthOK
<1>8. CASE FinishSchedule
  <2>1. Calm
    BY <1>8 DEF FinishSchedule
  <2>2. Len(running') <= MaxNumSeqs
    BY <2>1, RunningFits
  <2>. QED
    BY <1>8, <2>2, FinishScheduleWidth DEF WidthOK
<1>9. CASE SkipOutput \/ DiscardOutput
  <2>1. Calm /\ HasEntry /\ DropEntry
    BY <1>9 DEF SkipOutput, DiscardOutput, reqVars
  <2>. QED
    BY <1>2, <2>1
<1>10. ASSUME NEW eos \in BOOLEAN, TakeOutput(eos) PROVE WidthOK'
  <2>1. Calm /\ HasEntry /\ (DropEntry \/ UNCHANGED batches)
    BY <1>10 DEF TakeOutput
  <2>. QED
    BY <1>1, <1>2, <2>1
<1>11. CASE FreeStopped
  <2>1. Calm /\ pc = "free" /\ DropEntry
    BY <1>0, <1>11 DEF FreeStopped
  <2>. QED
    BY <1>2, <2>1
<1>12. CASE EndUpdate
  <2>1. Calm
    BY <1>12 DEF EndUpdate, reqVars
  <2>2. /\ batches \in Seq(Seq(Output)) /\ Len(batches) \in Nat \ {0}
        /\ Len(batches') = Len(batches) - 1 /\ batches' \in Seq(Seq(Output))
        /\ \A i \in 1 .. Len(batches) - 1 : batches'[i] = batches[i + 1]
    BY <1>12, EndUpdateQueues DEF QInv, Shape
  <2>3. \A i \in DOMAIN batches' : i + 1 \in DOMAIN batches /\ batches'[i] = batches[i + 1]
    <3>1. PICK L \in Nat : L = Len(batches)
      BY <2>2
    <3>2. DOMAIN batches = 1 .. L /\ DOMAIN batches' = 1 .. L - 1
      BY <2>2, <3>1
    <3>3. \A i \in 1 .. L - 1 : i + 1 \in 1 .. L
      OBVIOUS
    <3>. QED
      BY <2>2, <3>1, <3>2, <3>3, SMTT(30)
  <2>4. Len(running') <= MaxNumSeqs
    BY <2>1, RunningFits
  <2>. QED
    BY <2>3, <2>4 DEF WidthOK
<1>. QED
  BY <1>3, <1>4, <1>5, <1>6, <1>7, <1>8, <1>9, <1>10, <1>11, <1>12 DEF Next, Client, Engine

\* The places of the tokens of r in flight and the positions its placeholders
\* stand for correspond one to one.
LEMMA InFlightCounted ==
  ASSUME KInv, OInv, WidthOK, AsyncScheduling, NEW r \in Request, Expecting(r)
  PROVE  placeholders[r] =
           Cardinality({at \in (1 .. BatchQueueSize) \X (1 .. MaxNumSeqs) :
                          /\ at[1] <= Len(batches) /\ at[2] <= Len(batches[at[1]])
                          /\ batches[at[1]][at[2]].req = r
                          /\ batches[at[1]][at[2]].pos > 0})
<1>. DEFINE S == {at \in (1 .. BatchQueueSize) \X (1 .. MaxNumSeqs) :
                    /\ at[1] <= Len(batches) /\ at[2] <= Len(batches[at[1]])
                    /\ batches[at[1]][at[2]].req = r
                    /\ batches[at[1]][at[2]].pos > 0}
            h == placeholders[r]
            N == NumTokens(r)
            f == [at \in S |-> batches[at[1]][at[2]].pos - N]
<1>0. /\ batches \in Seq(Seq(Output)) /\ Len(batches) \in Nat /\ h \in Int /\ N \in Nat
      /\ BatchQueueSize \in Nat /\ MaxNumSeqs \in Nat /\ Len(batches) <= BatchQueueSize
      /\ DOMAIN batches = 1 .. Len(batches)
  BY Types, SchedulerAssumption DEF KInv, BatchesOK
<1>1. h \in Nat
  <2>1. CountersOK(r)
    BY DEF KInv
  <2>. QED
    BY <1>0, <2>1 DEF CountersOK
<1>2. /\ \A i, p \in Nat : Returns(r, i, p) => N + 1 <= p /\ p <= N + h
      /\ \A i, k, p, q \in Nat : Returns(r, i, p) /\ Returns(r, k, q) /\ i < k => p < q
      /\ \A p \in Nat : N + 1 <= p /\ p <= N + h => \E i \in Nat : Returns(r, i, p)
  <2>1. AsyncOK(r)
    BY DEF OInv
  <2>. QED
    BY <2>1 DEF AsyncOK
<1>. HIDE DEF h, N
<1>3. ASSUME NEW i \in DOMAIN batches
      PROVE  DOMAIN batches[i] = 1 .. Len(batches[i]) /\ Len(batches[i]) \in Nat
             /\ Len(batches[i]) <= MaxNumSeqs /\ i \in 1 .. BatchQueueSize
  <2>1. batches[i] \in Seq(Output)
    BY <1>0
  <2>. QED
    BY <1>0, <2>1 DEF WidthOK
<1>4. ASSUME NEW i, NEW j
      PROVE  <<i, j>> \in S <=> /\ i \in DOMAIN batches /\ j \in DOMAIN batches[i]
                                /\ batches[i][j].req = r /\ batches[i][j].pos > 0
  <2>1. ASSUME i \in DOMAIN batches, j \in DOMAIN batches[i],
               batches[i][j].req = r, batches[i][j].pos > 0
        PROVE  <<i, j>> \in S
    <3>1. i \in 1 .. BatchQueueSize /\ i <= Len(batches)
      BY <1>0, <1>3, <2>1
    <3>2. j \in 1 .. MaxNumSeqs /\ j <= Len(batches[i])
      BY <1>0, <1>3, <2>1
    <3>. QED
      BY <2>1, <3>1, <3>2
  <2>2. ASSUME <<i, j>> \in S
        PROVE  /\ i \in DOMAIN batches /\ j \in DOMAIN batches[i]
               /\ batches[i][j].req = r /\ batches[i][j].pos > 0
    <3>1. /\ i \in 1 .. BatchQueueSize /\ j \in 1 .. MaxNumSeqs
          /\ i <= Len(batches) /\ j <= Len(batches[i])
          /\ batches[i][j].req = r /\ batches[i][j].pos > 0
      BY <2>2
    <3>2. i \in DOMAIN batches
      BY <1>0, <3>1
    <3>3. j \in DOMAIN batches[i]
      BY <1>0, <1>3, <3>1, <3>2
    <3>. QED
      BY <3>1, <3>2, <3>3
  <2>. QED
    BY <2>1, <2>2
<1>5. \A at \in S : at = <<at[1], at[2]>>
  OBVIOUS
<1>. HIDE DEF S
<1>6. ASSUME NEW at \in S
      PROVE  \E i, p \in Nat : i = at[1] /\ p = batches[at[1]][at[2]].pos /\ Returns(r, i, p)
  <2>1. PICK i, j : at = <<i, j>>
    BY <1>5
  <2>2. /\ i \in DOMAIN batches /\ j \in DOMAIN batches[i]
        /\ batches[i][j].req = r /\ batches[i][j].pos > 0
    BY <1>4, <2>1
  <2>3. PICK p : p = batches[i][j].pos
    OBVIOUS
  <2>4. Returns(r, i, p)
    BY <2>2, <2>3 DEF Returns
  <2>5. i \in Nat /\ p \in Nat
    BY <2>4, ReturnsNat
  <2>. QED
    BY <2>1, <2>3, <2>4, <2>5
<1>7. f \in [S -> 1 .. h]
  <2>1. ASSUME NEW at \in S PROVE f[at] \in 1 .. h
    <3>1. PICK i, p \in Nat : p = batches[at[1]][at[2]].pos /\ Returns(r, i, p)
      BY <1>6
    <3>2. f[at] = p - N
      BY <3>1
    <3>3. N + 1 <= p /\ p <= N + h
      BY <1>2, <3>1
    <3>4. p - N \in 1 .. h
      BY <1>0, <1>1, <3>3 DEF N, h
    <3>. QED
      BY <3>2, <3>4
  <2>. QED
    BY <2>1
<1>8. ASSUME NEW a \in S, NEW b \in S, f[a] = f[b] PROVE a = b
  <2>1. PICK i, p \in Nat : i = a[1] /\ p = batches[a[1]][a[2]].pos /\ Returns(r, i, p)
    BY <1>6
  <2>2. PICK k, q \in Nat : k = b[1] /\ q = batches[b[1]][b[2]].pos /\ Returns(r, k, q)
    BY <1>6
  <2>3. p = q
    <3>1. f[a] = p - N /\ f[b] = q - N
      BY <2>1, <2>2
    <3>2. p - N = q - N /\ N \in Int
      BY <1>0, <1>8, <3>1
    <3>. HIDE DEF f
    <3>. QED
      BY <3>2
  <2>4. i = k
    <3>1. ~(p < q) /\ ~(q < p)
      BY <2>3
    <3>2. Returns(r, i, p) /\ Returns(r, k, q)
      BY <2>1, <2>2
    <3>3. \A m, n, u, v \in Nat : Returns(r, m, u) /\ Returns(r, n, v) /\ m < n => u < v
      BY <1>2
    <3>4. ~(i < k)
      BY <3>1, <3>2, <3>3, SMTT(30)
    <3>5. ~(k < i)
      BY <3>1, <3>2, <3>3, SMTT(30)
    <3>. QED
      BY <3>4, <3>5
  <2>5. a = <<i, a[2]>> /\ b = <<i, b[2]>>
    BY <1>5, <2>1, <2>2, <2>4
  <2>6. PICK j, m : a = <<i, j>> /\ b = <<i, m>>
    BY <2>5
  <2>7. /\ i \in DOMAIN batches /\ j \in DOMAIN batches[i] /\ m \in DOMAIN batches[i]
        /\ batches[i][j].req = r /\ batches[i][m].req = r
    BY <1>4, <2>6
  <2>8. j = m
    BY <2>7 DEF KInv, BatchesOK
  <2>. QED
    BY <2>6, <2>8
<1>9. ASSUME NEW n \in 1 .. h PROVE \E at \in S : f[at] = n
  <2>1. PICK p \in Nat : p = N + n
    BY <1>0
  <2>2. N + 1 <= p /\ p <= N + h
    BY <1>0, <1>1, <2>1
  <2>3. PICK i \in Nat : Returns(r, i, p)
    BY <1>2, <2>2
  <2>4. PICK j \in DOMAIN batches[i] : batches[i][j].req = r /\ batches[i][j].pos = p
    BY <2>3 DEF Returns
  <2>5. <<i, j>> \in S
    BY <1>4, <2>3, <2>4 DEF Returns
  <2>6. f[<<i, j>>] = p - N
    BY <2>4, <2>5
  <2>. QED
    BY <1>0, <2>1, <2>5, <2>6
<1>. HIDE DEF f
<1>10. f \in Bijection(S, 1 .. h)
  BY <1>7, <1>8, <1>9 DEF Bijection, Injection, Surjection, IsInjective
<1>11. IsFiniteSet(1 .. h) /\ Cardinality(1 .. h) = h
  BY <1>1, IntervalSize
<1>12. f \in Injection(S, 1 .. h) /\ f \in Surjection(S, 1 .. h)
  BY <1>10 DEF Bijection
<1>13. Cardinality(S) = Cardinality(1 .. h)
  BY <1>11, <1>12, FS_Injection
<1>. QED
  BY <1>11, <1>13 DEF S, h

\* AsyncScheduler: while nothing forces a preemption, num_output_placeholders of
\* a live request is the number of its tokens in flight, in all batches.
THEOREM PlaceholdersCorrect ==
  ASSUME LengthsFit, InOrderFits
  PROVE  Spec => []PlaceholdersMatchInFlight
<1>1. Init => OInv /\ WidthOK
  <2>. SUFFICES ASSUME Init PROVE OInv /\ WidthOK
    OBVIOUS
  <2>1. running = <<>> /\ batches = <<>> /\ MaxNumSeqs \in Nat
    BY SchedulerAssumption DEF Init
  <2>. QED
    BY <2>1, InitOutputs DEF WidthOK
<1>2. KInv /\ KInv' /\ (OInv /\ WidthOK) /\ [Next]_vars => (OInv /\ WidthOK)'
  BY NextOutputs, WidthStep DEF KInv
<1>3. KInv /\ OInv /\ WidthOK => PlaceholdersMatchInFlight
  <2>. SUFFICES ASSUME KInv, OInv, WidthOK, AsyncScheduling, pc # "free",
                       NEW r \in Request, status[r] # "FINISHED"
                PROVE  placeholders[r] =
                         Cardinality({at \in (1 .. BatchQueueSize) \X (1 .. MaxNumSeqs) :
                           /\ at[1] <= Len(batches) /\ at[2] <= Len(batches[at[1]])
                           /\ batches[at[1]][at[2]].req = r
                           /\ batches[at[1]][at[2]].pos > 0})
    BY DEF PlaceholdersMatchInFlight
  <2>1. Expecting(r)
    BY DEF Expecting
  <2>. QED
    BY <2>1, InFlightCounted
<1>4. Spec => []KInv
  BY InOrderResetsFit, KVInvariant
<1>. QED
  BY <1>1, <1>2, <1>3, <1>4, PTL DEF Spec
=============================================================================
