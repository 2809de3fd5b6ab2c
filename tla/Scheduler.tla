------------------------------ MODULE Scheduler ------------------------------
(***************************************************************************)
(* The scheduler of one engine (vllm/v1/core/sched/scheduler.py and        *)
(* async_scheduler.py) driven by the step loop of EngineCore               *)
(* (vllm/v1/engine/core.py), over KVCacheManager: admission of waiting     *)
(* requests, chunked prefill, preemption when blocks run out, output       *)
(* tokens that arrive one or more steps after they were scheduled, aborts  *)
(* in between, and the forced preemption of reset_prefix_cache.            *)
(*                                                                         *)
(* The engine core is one thread: `pc' says where it is, one action is one *)
(* iteration of a loop, and clients are served only where the thread       *)
(* serves them (between steps, and aborts also before an output is used).  *)
(* The executor runs batches in the order they were dispatched; a batch    *)
(* entry samples a token unless it is a non-final prefill chunk.           *)
(***************************************************************************)
EXTENDS KVCacheManager

CONSTANTS PromptLen,      \* num_prompt_tokens of every request
          MaxTokens,      \* max_tokens of every request
          MinTokens,      \* min_tokens of every request
          Urgency,        \* rank of every request by (priority, arrival_time)
          Policy,         \* "FCFS" or "PRIORITY"
          MaxNumSeqs,     \* max_num_running_reqs
          TokenBudget,    \* max_num_scheduled_tokens
          LongPrefill,    \* long_prefill_token_threshold, 0 when off
          ChunkedPrefill, \* enable_chunked_prefill
          AsyncScheduling,\* AsyncScheduler rather than Scheduler
          BatchQueueSize, \* max_concurrent_batches of the executor
          MaxResets       \* bound: calls of reset_prefix_cache

VARIABLES status,         \* RequestStatus, "NEW" before the request arrives
          computed,       \* num_computed_tokens
          out,            \* output tokens, each by the position it was sampled for
          placeholders,   \* num_output_placeholders
          discard,        \* discard_latest_async_tokens
          waiting,        \* the waiting queue
          running,        \* the running list
          finishedIds,    \* finished_req_ids, for the workers
          batches,        \* batch_queue, oldest first
          pc,             \* where the engine core thread is
          idx,            \* req_index of the running loop
          budget,         \* token_budget left in this step
          trying,         \* what allocate_slots is retried for, <<>> when nothing
          scheduled,      \* num_scheduled_tokens of this step, in order
          preempted,      \* preempted_reqs is not empty
          resets,         \* calls of reset_prefix_cache so far
          filled          \* history: slots of a block written by a dispatched batch

reqVars == <<status, computed, out, placeholders, discard>>
queueVars == <<waiting, running, finishedIds>>
scheduleVars == <<idx, budget, trying, scheduled, preempted>>  \* locals of schedule
stepVars == <<batches, pc, scheduleVars>>
vars == <<kvVars, reqVars, queueVars, stepVars, resets, filled>>

ASSUME SchedulerAssumption ==
  /\ \A r \in Request : /\ PromptLen[r] \in 1 .. MaxModelLen - 1
                        /\ MaxTokens[r] \in Nat \ {0}
                        /\ MinTokens[r] \in 0 .. MaxTokens[r]
                        /\ Urgency[r] \in Nat
                        /\ Len(Stream[r]) >=
                             Min2(PromptLen[r] + MaxTokens[r], MaxModelLen)
  /\ Policy \in {"FCFS", "PRIORITY"}
  /\ MaxNumSeqs \in Nat \ {0} /\ TokenBudget \in Nat \ {0} /\ LongPrefill \in Nat
  /\ BatchQueueSize \in Nat \ {0} /\ MaxResets \in Nat

NumTokens(r) == PromptLen[r] + Len(out[r])

----------------------------------------------------------------------------
(* Request queues (request_queue.py).  The heap of the priority policy is  *)
(* kept in order of urgency.                                               *)

\* Mutant: off by one, the request behind is overwritten.
InsertOverwriting(q, r) ==
  LET n == Cardinality({i \in DOMAIN q : Urgency[q[i]] < Urgency[r]})
  IN TakeFirst(q, n) \o <<r>> \o DropFirst(q, n + 1)

InsertUrgent(q, r) ==
  LET n == Cardinality({i \in DOMAIN q : Urgency[q[i]] < Urgency[r]})
  IN TakeFirst(q, n) \o <<r>> \o DropFirst(q, n)

AddRequest(q, r) == IF Policy = "FCFS" THEN Append(q, r) ELSE InsertUrgent(q, r)

\* Mutant: a preempted request queues up behind the others.
PrependLast(q, r) == IF Policy = "FCFS" THEN Append(q, r) ELSE InsertUrgent(q, r)

PrependRequest(q, r) == IF Policy = "FCFS" THEN <<r>> \o q ELSE InsertUrgent(q, r)
RemoveRequests(q, S) == Without(q, S)

----------------------------------------------------------------------------

Init ==
  /\ KVInit
  /\ status = [r \in Request |-> "NEW"]
  /\ computed = [r \in Request |-> 0]
  /\ out = [r \in Request |-> <<>>]
  /\ placeholders = [r \in Request |-> 0]
  /\ discard = [r \in Request |-> FALSE]
  /\ waiting = <<>> /\ running = <<>> /\ finishedIds = {}
  /\ batches = <<>> /\ pc = "idle" /\ idx = 1 /\ budget = 0
  /\ trying = <<>> /\ scheduled = <<>> /\ preempted = FALSE
  /\ resets = 0
  /\ filled = [b \in Block |-> 0]

(***************************************************************************)
(* Clients                                                                 *)
(***************************************************************************)

Add(r) ==
  /\ pc = "idle"
  /\ status[r] = "NEW"
  /\ status' = [status EXCEPT ![r] = "WAITING"]
  /\ waiting' = AddRequest(waiting, r)
  /\ UNCHANGED <<kvVars, computed, out, placeholders, discard, running,
                 finishedIds, stepVars, resets, filled>>

\* finish_requests(r, FINISHED_ABORTED), from the input queue between steps or
\* from the aborts queue while the model runs.
Abort(r) ==
  /\ pc \in {"idle", "collect"}
  /\ status[r] \in {"WAITING", "RUNNING", "PREEMPTED"}
  /\ IF status[r] = "RUNNING"
     THEN running' = RemoveRequests(running, {r}) /\ UNCHANGED waiting
     ELSE waiting' = RemoveRequests(waiting, {r}) /\ UNCHANGED running
  /\ status' = [status EXCEPT ![r] = "FINISHED"]
  /\ finishedIds' = finishedIds \cup {r}
  /\ Free(r)
  /\ UNCHANGED <<computed, out, placeholders, discard, stepVars, resets, filled>>

\* reset_prefix_cache, with reset_running_requests or without.
StartReset(resetRunning) ==
  /\ pc = "idle"
  /\ resets < MaxResets
  /\ resets' = resets + 1
  /\ IF resetRunning
     THEN pc' = "reset" /\ UNCHANGED kvVars
     ELSE Reset /\ UNCHANGED pc
  /\ UNCHANGED <<reqVars, queueVars, batches, scheduleVars, filled>>

\* Mutant: the victim keeps its blocks.
PreemptKeepingBlocks(r) ==
  /\ status' = [status EXCEPT ![r] = "PREEMPTED"]
  /\ computed' = [computed EXCEPT ![r] = 0]
  /\ waiting' = PrependRequest(waiting, r)
  /\ UNCHANGED kvVars

\* Mutant: the victim is not put back into the waiting queue.
PreemptLosing(r) ==
  /\ Free(r)
  /\ status' = [status EXCEPT ![r] = "PREEMPTED"]
  /\ computed' = [computed EXCEPT ![r] = 0]
  /\ UNCHANGED waiting

\* _preempt_request, the victim already taken off the running list.
Preempt(r) ==
  /\ Free(r)
  /\ status' = [status EXCEPT ![r] = "PREEMPTED"]
  /\ computed' = [computed EXCEPT ![r] = 0]
  /\ waiting' = PrependRequest(waiting, r)

\* Mutant: the loop preempts the head of the running list but pops its end.
ResetPreemptFirst ==
  LET r == running[1] IN
  /\ pc = "reset"
  /\ running # <<>>
  /\ running' = TakeFirst(running, Len(running) - 1)
  /\ Preempt(r)
  /\ placeholders' = [placeholders EXCEPT ![r] = 0]
  /\ discard' = [discard EXCEPT ![r] = TRUE]
  /\ UNCHANGED <<out, finishedIds, stepVars, resets, filled>>

\* The loop of reset_prefix_cache, last running request first.
ResetPreempt ==
  LET r == running[Len(running)] IN
  /\ pc = "reset"
  /\ running # <<>>
  /\ running' = TakeFirst(running, Len(running) - 1)
  /\ Preempt(r)
  /\ placeholders' = [placeholders EXCEPT ![r] = 0]
  /\ discard' = [discard EXCEPT ![r] = TRUE]
  /\ UNCHANGED <<out, finishedIds, stepVars, resets, filled>>

\* Mutant: the cache is reset before every running request is preempted.
ResetEarly ==
  /\ pc = "reset"
  /\ pc' = "idle"
  /\ IF IsUnused(pool)
     THEN Reset
     ELSE error' = TRUE /\ UNCHANGED <<pool, reqBlocks, numCached>>
  /\ UNCHANGED <<reqVars, queueVars, batches, scheduleVars, resets, filled>>

\* Raises when blocks are still held.
ResetFinish ==
  /\ pc = "reset"
  /\ running = <<>>
  /\ pc' = "idle"
  /\ IF IsUnused(pool)
     THEN Reset
     ELSE error' = TRUE /\ UNCHANGED <<pool, reqBlocks, numCached>>
  /\ UNCHANGED <<reqVars, queueVars, batches, scheduleVars, resets, filled>>

(***************************************************************************)
(* schedule(): the running requests                                        *)
(***************************************************************************)

HasRequests == waiting # <<>> \/ running # <<>> \/ finishedIds # {}

StepStart ==
  /\ pc = "idle"
  /\ Len(batches) < BatchQueueSize
  /\ HasRequests
  /\ pc' = "running"
  /\ budget' = TokenBudget
  /\ UNCHANGED <<kvVars, reqVars, queueVars, batches, idx, trying, scheduled,
                 preempted, resets, filled>>

\* Nothing left to schedule, outputs still to come.
StepDrain ==
  /\ pc = "idle"
  /\ ~HasRequests
  /\ batches # <<>>
  /\ pc' = "collect"
  /\ UNCHANGED <<kvVars, reqVars, queueVars, batches, scheduleVars, resets, filled>>

\* A step that was scheduled already reaches max_tokens.
ReachesMaxTokens(r) ==
  /\ placeholders[r] > 0
  /\ computed[r] + 2 - placeholders[r] >= PromptLen[r] + MaxTokens[r]

Capped(n) == IF 0 < LongPrefill /\ LongPrefill < n THEN LongPrefill ELSE n

NumNewTokens(r) ==
  Min2(Min2(Capped(NumTokens(r) + placeholders[r] - computed[r]), budget),
          MaxModelLen - 1 - computed[r])

NeedSlot(c, n) == Min2(c + n, MaxModelLen)

Visiting(r) ==
  /\ pc = "running"
  /\ idx <= Len(running)
  /\ budget > 0
  /\ r = running[idx]

SkipRunning(r) ==
  /\ Visiting(r)
  /\ ReachesMaxTokens(r) \/ NumNewTokens(r) = 0
  /\ idx' = idx + 1
  /\ UNCHANGED <<kvVars, reqVars, queueVars, batches, pc, budget, trying, scheduled,
                 preempted, resets, filled>>

\* The number of tokens is settled before the blocks are asked for, and stays
\* when a victim gives its tokens back.
TryRunning(r) ==
  /\ Visiting(r)
  /\ ~ReachesMaxTokens(r)
  /\ NumNewTokens(r) # 0
  /\ pc' = "allocate"
  /\ trying' = <<[req |-> r, n |-> NumNewTokens(r)]>>
  /\ UNCHANGED <<kvVars, reqVars, queueVars, batches, idx, budget, scheduled,
                 preempted, resets, filled>>

\* Mutant: the blocks of the tokens that are not scheduled yet are cached too.
AllocateCachingAll(r, hits, c, n) ==
  /\ AllocateSlots(r, hits, NeedSlot(c, n), NumTokens(r))
  /\ filled' = [b \in Block |->
       IF b \in Elements(reqBlocks'[r]) \ Elements(reqBlocks[r] \o hits)
       THEN 0 ELSE filled[b]]

\* allocate_slots; the blocks taken from the free queue hold nothing yet.
Allocate(r, hits, c, n) ==
  /\ AllocateSlots(r, hits, NeedSlot(c, n), Min2(c + n, NumTokens(r)))
  /\ filled' = [b \in Block |->
       IF b \in Elements(reqBlocks'[r]) \ Elements(reqBlocks[r] \o hits)
       THEN 0 ELSE filled[b]]

ScheduleRunning ==
  LET r == trying[1].req
      n == trying[1].n IN
  /\ pc = "allocate"
  /\ Allocate(r, <<>>, computed[r], n)
  /\ scheduled' = Append(scheduled, trying[1])
  /\ budget' = budget - n
  /\ idx' = idx + 1
  /\ trying' = <<>>
  /\ pc' = "running"
  /\ UNCHANGED <<reqVars, queueVars, batches, preempted, resets>>

Victim ==
  IF Policy = "FCFS" THEN running[Len(running)]
  ELSE CHOOSE v \in Elements(running) :
         \A w \in Elements(running) : Urgency[w] <= Urgency[v]

\* Mutant: the tokens the victim got in this step are not given back.
PreemptKeepingBudget ==
  LET r == trying[1].req
      undone == {i \in DOMAIN scheduled : scheduled[i].req = Victim}
      given == {scheduled[i] : i \in undone} IN
  /\ pc = "allocate"
  /\ ~CanAllocate(r, <<>>, NeedSlot(computed[r], trying[1].n))
  /\ Preempt(Victim)
  /\ running' = RemoveRequests(running, {Victim})
  /\ scheduled' = RemoveRequests(scheduled, given)
  /\ idx' = IF undone = {} THEN idx ELSE idx - 1
  /\ preempted' = TRUE
  /\ IF Victim = r THEN pc' = "finish" /\ trying' = <<>>
                   ELSE UNCHANGED <<pc, trying>>
  /\ UNCHANGED <<budget, out, placeholders, discard, finishedIds, batches, resets, filled>>

\* Not enough blocks: preempt, undo what this step gave the victim, and try
\* again unless the victim is the request itself.
PreemptVictim ==
  LET r == trying[1].req
      undone == {i \in DOMAIN scheduled : scheduled[i].req = Victim}
      given == {scheduled[i] : i \in undone} IN
  /\ pc = "allocate"
  /\ ~CanAllocate(r, <<>>, NeedSlot(computed[r], trying[1].n))
  /\ Preempt(Victim)
  /\ running' = RemoveRequests(running, {Victim})
  /\ scheduled' = RemoveRequests(scheduled, given)
  /\ budget' = IF undone = {} THEN budget
               ELSE budget + scheduled[CHOOSE i \in undone : TRUE].n
  /\ idx' = IF undone = {} THEN idx ELSE idx - 1
  /\ preempted' = TRUE
  /\ IF Victim = r THEN pc' = "finish" /\ trying' = <<>>
                   ELSE UNCHANGED <<pc, trying>>
  /\ UNCHANGED <<out, placeholders, discard, finishedIds, batches, resets, filled>>

EndRunning ==
  /\ pc = "running"
  /\ idx > Len(running) \/ budget = 0
  /\ pc' = IF preempted THEN "finish" ELSE "waiting"
  /\ UNCHANGED <<kvVars, reqVars, queueVars, batches, scheduleVars, resets, filled>>

(***************************************************************************)
(* schedule(): the waiting requests                                        *)
(***************************************************************************)

Hits(r) == GetComputedBlocks(r, NumTokens(r))
NumHitTokens(r) == Len(Hits(r)) * BlockSize
NumPrefill(r) == Capped(NumTokens(r) - NumHitTokens(r))

Admissible(r) ==
  /\ waiting # <<>> /\ r = waiting[1]
  /\ budget > 0
  /\ Len(running) < MaxNumSeqs
  /\ ChunkedPrefill \/ NumPrefill(r) <= budget
  /\ CanAllocate(r, Hits(r),
       NeedSlot(NumHitTokens(r), Min2(NumPrefill(r), budget)))

ScheduleWaiting(r) ==
  LET n == Min2(NumPrefill(r), budget) IN
  /\ pc = "waiting"
  /\ Admissible(r)
  /\ Allocate(r, Hits(r), NumHitTokens(r), n)
  /\ waiting' = Tail(waiting)
  /\ running' = Append(running, r)
  /\ status' = [status EXCEPT ![r] = "RUNNING"]
  /\ computed' = [computed EXCEPT ![r] = NumHitTokens(r)]
  /\ scheduled' = Append(scheduled, [req |-> r, n |-> n])
  /\ budget' = budget - n
  /\ UNCHANGED <<out, placeholders, discard, finishedIds, batches, pc, idx, trying,
                 preempted, resets>>

EndWaiting ==
  /\ pc = "waiting"
  /\ ~ \E r \in Request : Admissible(r)
  /\ pc' = "finish"
  /\ UNCHANGED <<kvVars, reqVars, queueVars, batches, scheduleVars, resets, filled>>

(***************************************************************************)
(* The end of schedule() (_update_after_schedule) and the dispatch of the  *)
(* batch: the engine waits for an output only when the queue is full, the  *)
(* batch is empty, or the oldest output is there already.                  *)
(***************************************************************************)

NumScheduled(r) ==
  LET at == {i \in DOMAIN scheduled : scheduled[i].req = r}
  IN IF at = {} THEN 0 ELSE scheduled[CHOOSE i \in at : TRUE].n

\* Mutant: every chunk samples.
NoPrefillChunk(r) == FALSE

IsPrefillChunk(r) == computed[r] + NumScheduled(r) < NumTokens(r) + placeholders[r]

\* What the executor will return for r: the token after the last computed one,
\* or nothing (0) when the prompt is not computed to its end.
SampledPosition(r) ==
  IF IsPrefillChunk(r) THEN 0 ELSE computed[r] + NumScheduled(r) + 1

\* Mutant: a placeholder for every chunk.
PlaceholderPerChunk(r) ==
  IF AsyncScheduling /\ NumScheduled(r) > 0 THEN placeholders[r] + 1 ELSE placeholders[r]

\* Mutant: no placeholder at all.
NoPlaceholder(r) == placeholders[r]

\* AsyncScheduler expects a token of every request that samples.
PlaceholdersAfter(r) ==
  IF AsyncScheduling /\ NumScheduled(r) > 0 /\ ~IsPrefillChunk(r)
  THEN placeholders[r] + 1 ELSE placeholders[r]

\* The slots of block b that the batch makes r fill: those of the scheduled
\* tokens, up to the end of the block.
Place(r, b) == CHOOSE i \in DOMAIN reqBlocks[r] : reqBlocks[r][i] = b
Writers(b) ==
  {r \in Request : /\ NumScheduled(r) > 0
                   /\ b \in Elements(reqBlocks[r])
                   /\ computed[r] < Place(r, b) * BlockSize}
FilledBy(r, b) ==
  Min2(computed[r] + NumScheduled(r) - (Place(r, b) - 1) * BlockSize, BlockSize)

FinishSchedule ==
  /\ pc = "finish"
  /\ computed' = [r \in Request |-> computed[r] + NumScheduled(r)]
  /\ placeholders' = [r \in Request |-> PlaceholdersAfter(r)]
  /\ finishedIds' = {}
  /\ batches' = Append(batches, [i \in DOMAIN scheduled |->
       [req |-> scheduled[i].req, pos |-> SampledPosition(scheduled[i].req)]])
  /\ filled' = [b \in Block |->
       LET upTo == {FilledBy(r, b) : r \in Writers(b)} \cup {filled[b]}
       IN CHOOSE m \in upTo : \A k \in upTo : k <= m]
  /\ \/ pc' = "collect"
     \/ /\ scheduled # <<>>
        /\ Len(batches) + 1 < BatchQueueSize
        /\ pc' = "idle"
  /\ idx' = 1 /\ budget' = 0 /\ scheduled' = <<>> /\ preempted' = FALSE
  /\ UNCHANGED <<kvVars, status, out, discard, waiting, running, trying, resets>>

(***************************************************************************)
(* update_from_output() for the oldest batch, one entry at a time          *)
(***************************************************************************)

Collect ==
  /\ pc = "collect"
  /\ batches # <<>>
  /\ pc' = "update"
  /\ UNCHANGED <<kvVars, reqVars, queueVars, batches, scheduleVars, resets, filled>>

HasEntry == pc = "update" /\ batches[1] # <<>>
Entry == batches[1][1]
DropEntry == batches' = [batches EXCEPT ![1] = Tail(@)]

\* The request finished meanwhile, or its prompt is not computed to its end.
IsMoot == status[Entry.req] = "FINISHED" \/ Entry.pos = 0

SkipOutput ==
  /\ HasEntry
  /\ IsMoot
  /\ DropEntry
  /\ UNCHANGED <<kvVars, reqVars, queueVars, pc, scheduleVars, resets, filled>>

\* AsyncScheduler drops the token of a request reset_prefix_cache preempted.
DiscardOutput ==
  /\ HasEntry
  /\ ~IsMoot
  /\ AsyncScheduling /\ discard[Entry.req]
  /\ discard' = [discard EXCEPT ![Entry.req] = FALSE]
  /\ DropEntry
  /\ UNCHANGED <<kvVars, status, computed, out, placeholders, queueVars, pc,
                 scheduleVars, resets, filled>>

\* check_stop of a request that has got its next token; eos stands for eos, the
\* stop tokens and the repetition detector.  Below min_tokens nothing stops it.
CheckStop(r, eos) ==
  LET numOutput == Len(out[r]) + 1 IN
  /\ numOutput >= MinTokens[r]
  /\ eos \/ NumTokens(r) + 1 >= MaxModelLen \/ numOutput >= MaxTokens[r]

\* _update_request_with_output.
TakeOutput(eos) ==
  LET r == Entry.req IN
  /\ HasEntry
  /\ ~IsMoot
  /\ ~(AsyncScheduling /\ discard[r])
  /\ out' = [out EXCEPT ![r] = Append(@, Entry.pos)]
  /\ placeholders' = [placeholders EXCEPT ![r] = IF AsyncScheduling THEN @ - 1 ELSE @]
  /\ IF AsyncScheduling /\ status[r] = "RUNNING"
     THEN CacheComputed(r, computed[r] - placeholders'[r], NumTokens(r) + 1)
     ELSE UNCHANGED kvVars
  /\ IF CheckStop(r, eos)
     THEN pc' = "free" /\ UNCHANGED batches
     ELSE DropEntry /\ UNCHANGED pc
  /\ UNCHANGED <<status, computed, discard, queueVars, scheduleVars, resets, filled>>

\* Mutant: a stopped request is looked for in the running list only.
FreeStoppedRunning ==
  LET r == Entry.req IN
  /\ pc = "free"
  /\ status' = [status EXCEPT ![r] = "FINISHED"]
  /\ finishedIds' = finishedIds \cup {r}
  /\ Free(r)
  /\ running' = RemoveRequests(running, {r})
  /\ DropEntry
  /\ pc' = "update"
  /\ UNCHANGED <<waiting, computed, out, placeholders, discard, scheduleVars, resets,
                 filled>>

\* _free_request of a request that stopped, and its removal from its queue.
FreeStopped ==
  LET r == Entry.req IN
  /\ pc = "free"
  /\ status' = [status EXCEPT ![r] = "FINISHED"]
  /\ finishedIds' = finishedIds \cup {r}
  /\ Free(r)
  /\ IF status[r] = "RUNNING"
     THEN running' = RemoveRequests(running, {r}) /\ UNCHANGED waiting
     ELSE waiting' = RemoveRequests(waiting, {r}) /\ UNCHANGED running
  /\ DropEntry
  /\ pc' = "update"
  /\ UNCHANGED <<computed, out, placeholders, discard, scheduleVars, resets, filled>>

EndUpdate ==
  /\ pc = "update"
  /\ batches[1] = <<>>
  /\ batches' = Tail(batches)
  /\ pc' = "idle"
  /\ UNCHANGED <<kvVars, reqVars, queueVars, scheduleVars, resets, filled>>

----------------------------------------------------------------------------

Client ==
  \/ \E r \in Request : Add(r) \/ Abort(r)
  \/ \E resetRunning \in BOOLEAN : StartReset(resetRunning)

Engine ==
  \/ ResetPreempt \/ ResetFinish
  \/ StepStart \/ StepDrain
  \/ \E r \in Request : SkipRunning(r) \/ TryRunning(r)
  \/ ScheduleRunning \/ PreemptVictim \/ EndRunning
  \/ \E r \in Request : ScheduleWaiting(r)
  \/ EndWaiting \/ FinishSchedule
  \/ Collect \/ SkipOutput \/ DiscardOutput
  \/ \E eos \in BOOLEAN : TakeOutput(eos)
  \/ FreeStopped \/ EndUpdate

Next == Client \/ Engine

Spec == Init /\ [][Next]_vars

\* The engine core thread keeps stepping while it has work (run_busy_loop).
FairSpec == Spec /\ WF_vars(Engine)

----------------------------------------------------------------------------

Statuses == {"NEW", "WAITING", "RUNNING", "PREEMPTED", "FINISHED"}

\* No request is computed beyond max_model_len - 1 tokens, no step exceeds its
\* token budget, and no more tokens are returned than there are placeholders
\* for (the assertion of AsyncScheduler._update_request_with_output).
TypeOK ==
  /\ KVTypeOK
  /\ status \in [Request -> Statuses]
  /\ computed \in [Request -> 0 .. MaxModelLen - 1]
  /\ out \in [Request -> Seq(Nat)]
  /\ placeholders \in [Request -> Nat]
  /\ discard \in [Request -> BOOLEAN]
  /\ waiting \in Seq(Request) /\ running \in Seq(Request)
  /\ finishedIds \subseteq Request
  /\ batches \in Seq(Seq([req : Request, pos : Nat]))
  /\ pc \in {"idle", "reset", "running", "allocate", "waiting", "finish", "collect",
             "update", "free"}
  /\ idx \in Nat /\ budget \in 0 .. TokenBudget
  /\ trying \in Seq([req : Request, n : Nat])
  /\ scheduled \in Seq([req : Request, n : Nat])
  /\ preempted \in BOOLEAN /\ resets \in 0 .. MaxResets
  /\ filled \in [Block -> 0 .. BlockSize]

\* Every live request is in exactly one queue, once, and its status says which,
\* whatever aborts, stops and preemptions crossed each other; no other request
\* is in a queue, and only running requests hold blocks.
QueuesMatchStatus ==
  /\ Distinct(running) /\ Distinct(waiting)
  /\ \A r \in Request :
       /\ r \in Elements(running) <=> status[r] = "RUNNING"
       /\ r \in Elements(waiting) <=> status[r] \in {"WAITING", "PREEMPTED"}
       /\ reqBlocks[r] # <<>> => status[r] = "RUNNING"

\* What a request returned is the tokens right after its prompt, each once and
\* in order, although a token is sampled while the one before it is still on
\* its way and the request may be preempted and recomputed in between.
OutputsInOrder ==
  \A r \in Request : \A i \in DOMAIN out[r] : out[r][i] = PromptLen[r] + i

\* Between steps every block the prefix cache offers has been computed: all of
\* its slots are written by batches the executor has been given.
CachedBlocksComputed ==
  pc \in {"idle", "collect", "update", "free"} =>
    \A b \in Block : pool.hash[b] # NoHash => filled[b] = BlockSize

\* A placeholder stands for each token of a live request that is sampled but
\* not returned yet, through preemption and recomputation, in any order of the
\* outputs.  It is a claim for engines that are never reset: a forced reset
\* forgets the placeholders of tokens that are still in flight.
PlaceholdersMatchInFlight ==
  AsyncScheduling /\ pc # "free" =>
    \A r \in Request : status[r] # "FINISHED" =>
      placeholders[r] =
        Cardinality({at \in (1 .. BatchQueueSize) \X (1 .. MaxNumSeqs) :
                       /\ at[1] <= Len(batches) /\ at[2] <= Len(batches[at[1]])
                       /\ batches[at[1]][at[2]].req = r
                       /\ batches[at[1]][at[2]].pos > 0})

\* The books of one step: whatever the loops grant, and take back from a victim
\* that was scheduled earlier in the same step, token_budget is what the grants
\* have left of max_num_scheduled_tokens, and only running requests have a
\* grant, one each.
Scheduling == {"running", "allocate", "waiting", "finish"}  \* inside schedule()
GrantedTokens == {p \in Request \X (1 .. TokenBudget) : p[2] <= NumScheduled(p[1])}
StepBooksBalance ==
  pc \in Scheduling =>
    /\ budget + Cardinality(GrantedTokens) = TokenBudget
    /\ \A i, j \in DOMAIN scheduled :
         /\ scheduled[i].req \in Elements(running)
         /\ scheduled[i].req = scheduled[j].req => i = j

\* A block of a chain of hashes is cached only together with the blocks before
\* it, as the tail of a table is evicted first: a miss ends the search.
PrefixesStayCached ==
  \A r \in Request : \A i \in 2 .. NumHashes(r) :
    IsCached(pool, BlockHash(r, i)) => IsCached(pool, BlockHash(r, i - 1))

\* First come, first served: no step ever changes the order of two live
\* requests in the running list followed by the waiting queue, so a preempted
\* request, even one of several that reset_prefix_cache preempts, resumes where
\* its arrival put it, before those that came later.
Line == running \o waiting
OrderKept ==
  [][Policy = "FCFS" =>
       \A r, s \in Elements(Line) \cap Elements(Line') :
         Before(Line, r, s) => Before(Line', r, s)]_vars

\* The scheduler keeps the contract of the KV cache manager.
ImplementsKVCacheManager == KVSpec

\* Every request that is not withdrawn is answered to its end: neither
\* preemption nor the lag of the outputs starves one.  The check of the memory
\* at start-up (check_enough_kv_cache_memory) promises room for a request of
\* max_model_len; whether that makes the pool large enough is for the instance
\* to say.  The promise ends with a reset_prefix_cache of an asynchronous
\* scheduler: with no output in flight its flag drops the next token, the
\* placeholder of that token stays, and the request is skipped for ever on the
\* blocks it holds, so others starve too.
EveryRequestFinishes ==
  \A r \in Request :
    status[r] = "WAITING" ~> status[r] = "FINISHED" \/ resets > 0
=============================================================================
