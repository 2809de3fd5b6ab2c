---------------------------- MODULE EncoderCache ----------------------------
(***************************************************************************)
(* The encoder cache: bookkeeping in the scheduler, tensors in the worker. *)
(*                                                                         *)
(* EncoderCacheManager (core/encoder_cache_manager.py) counts the slots of *)
(* the cache and the requests that refer to each entry; it never sees a    *)
(* tensor. What it evicts and what has to be computed reaches the worker   *)
(* with the output of a scheduler step, and several outputs may be on      *)
(* their way. The worker drops, computes and then looks up what the        *)
(* scheduled tokens need; an entry that is not there is an assertion       *)
(* failure in _gather_mm_embeddings.                                       *)
(*                                                                         *)
(* A step takes its requests one after the other: the scheduler picks the  *)
(* encoder inputs, then asks the KV cache for blocks, and only then        *)
(* allocates the inputs. The KV cache may refuse at any time. The budgets  *)
(* and thresholds that limit the tokens of a request are a free choice.    *)
(***************************************************************************)
EXTENDS Integers, Queues

CONSTANTS Request,
          Features,       \* Features[r]: inputs [hash, start, len] by position
          PromptLen,
          Precedence,     \* by priority and arrival; the least is preempted
          CacheSize, ComputeBudget,
          Eagle,          \* the drafter reads one token ahead
          ChunkedInput,   \* not disable_chunked_mm_input
          Policy,         \* "FCFS" or "PRIORITY"
          MaxInFlight     \* bound: outputs on their way to the worker

End(f) == f.start + f.len
Inputs == UNION {Elements(Features[r]) : r \in Request}
Hash == {f.hash : f \in Inputs}

\* get_num_encoder_embeds: equal inputs have equal sizes.
Embeds(h) == (CHOOSE f \in Inputs : f.hash = h).len

ASSUME EncoderAssumption ==
  /\ CacheSize \in Nat /\ ComputeBudget \in Nat /\ MaxInFlight \in Nat
  /\ Eagle \in BOOLEAN /\ ChunkedInput \in BOOLEAN /\ Policy \in {"FCFS", "PRIORITY"}
  /\ \A r \in Request : PromptLen[r] \in Nat /\ Precedence[r] \in Nat

ASSUME InputAssumption ==
  /\ IsFiniteSet(Hash)
  /\ \A r \in Request : Features[r] \in Seq(Inputs)
  /\ \A f \in Inputs : f.start \in Nat /\ f.len \in Nat \ {0}
  /\ \A f, g \in Inputs : f.hash = g.hash => f.len = g.len
  /\ \A f \in Inputs : f.len <= CacheSize /\ f.len <= ComputeBudget
  /\ \A r \in Request : \A i \in DOMAIN Features[r] :
       /\ End(Features[r][i]) <= PromptLen[r]
       /\ \A j \in 1 .. i - 1 : End(Features[r][j]) <= Features[r][i].start

VARIABLES
  ecm,            \* the manager: cached, freeable, freed, free, freeableSlots
  running,        \* the running list
  waiting,        \* the waiting requests; any of them may be the next
  computed,       \* num_computed_tokens, up to the end of the prompt
  pc, idx,        \* the scheduler's place in the step
  trying,         \* what it wants to schedule for one request
  budget,         \* encoder_compute_budget
  scheduled,      \* what it has scheduled
  preempted,      \* whether it has preempted a request
  batches,        \* outputs on their way to the worker
  store           \* the hashes in the worker's encoder_cache

stepVars == <<pc, idx, trying, budget, scheduled, preempted>>
vars == <<ecm, running, waiting, computed, stepVars, batches, store>>

EmptyCache ==
  [cached |-> <<>>, freeable |-> <<>>, freed |-> {},
   free |-> CacheSize, freeableSlots |-> CacheSize]

Init ==
  /\ ecm = EmptyCache
  /\ running = <<>>
  /\ waiting = {}
  /\ computed = [r \in Request |-> 0]
  /\ pc = "idle" /\ idx = 1 /\ trying = <<>>
  /\ budget = ComputeBudget
  /\ scheduled = <<>>
  /\ preempted = FALSE
  /\ batches = <<>>
  /\ store = {}

-----------------------------------------------------------------------------
(* EncoderCacheManager                                                     *)

\* An entry h takes the slots <<h, 1>> .. <<h, Embeds(h)>>.
Slots(H) == Cardinality({s \in H \X (1 .. CacheSize) : s[2] <= Embeds(s[1])})

\* Mutant: an entry that is found is not protected by a reference.
TouchUnreferenced(m, r, h) == m

\* check_and_update_cache of an entry that is cached.
Touch(m, r, h) ==
  LET idle == m.cached[h] = {}
  IN  [m EXCEPT !.cached[h] = @ \union {r},
                !.freeable = IF idle THEN Without(@, {h}) ELSE @,
                !.freeableSlots = IF idle THEN @ - Embeds(h) ELSE @]

CanAllocate(m, h, compute, toSchedule) ==
  /\ Embeds(h) <= compute
  /\ \/ Embeds(h) + toSchedule <= m.free
     \/ Embeds(h) + toSchedule <= m.freeableSlots

\* The eviction in can_allocate: the oldest entries, as many as needed.
Evict(m, needed) ==
  LET Oldest(k) == Elements(TakeFirst(m.freeable, k))
      Enough(k) == needed <= m.free + Slots(Oldest(k))
      n == CHOOSE k \in 0 .. Len(m.freeable) : Enough(k) /\ \A j \in 0 .. k - 1 : ~Enough(j)
  IN  [m EXCEPT !.freeable = DropFirst(@, n),
                !.cached = [h \in DOMAIN m.cached \ Oldest(n) |-> m.cached[h]],
                !.freed = @ \union Oldest(n),
                !.free = @ + Slots(Oldest(n))]

\* allocate, for all the inputs that were decided on.
Allocate(m, r, H) ==
  [m EXCEPT !.cached = [h \in DOMAIN m.cached \union H |->
                          (IF h \in DOMAIN m.cached THEN m.cached[h] ELSE {})
                            \union (IF h \in H THEN {r} ELSE {})],
            !.free = @ - Slots(H),
            !.freeableSlots = @ - Slots(H)]

FreeEncoderInput(m, r, h) ==
  IF h \notin DOMAIN m.cached \/ m.cached[h] = {} THEN m
  ELSE LET last == m.cached[h] \ {r} = {}
       IN  [m EXCEPT !.cached[h] = @ \ {r},
                     !.freeable = IF last THEN Append(@, h) ELSE @,
                     !.freeableSlots = IF last THEN @ + Embeds(h) ELSE @]

\* The inputs of r with an index in I, one after the other.
FreeInputs(m, r, I) ==
  LET after[i \in 0 .. Len(Features[r])] ==
        IF i = 0 THEN m
        ELSE IF i \in I THEN FreeEncoderInput(after[i - 1], r, Features[r][i].hash)
        ELSE after[i - 1]
  IN  after[Len(Features[r])]

\* free: all inputs of the request.
FreeRequest(m, r) == FreeInputs(m, r, DOMAIN Features[r])

-----------------------------------------------------------------------------
(* The scheduler                                                           *)

Shift == IF Eagle THEN 1 ELSE 0

\* One input of _try_schedule_encoder_inputs: a is what has been decided for the
\* inputs before, for tokens base .. base + a.num - 1.
TryInput(a, r, base, f) ==
  LET before == IF f.start > base + Shift THEN f.start - (base + Shift) ELSE 0
      fits == /\ \/ ChunkedInput \/ base >= f.start
                 \/ base + a.num >= End(f)
              /\ CanAllocate(a.m, f.hash, a.budget, a.embeds)
  IN  IF a.stop \/ f.start >= base + a.num + Shift THEN [a EXCEPT !.stop = TRUE]
      ELSE IF End(f) <= base \/ f.hash \in a.hashes THEN a
      ELSE IF f.hash \in DOMAIN a.m.cached
      THEN [a EXCEPT !.m = Touch(@, r, f.hash)]
      ELSE IF ~fits THEN [a EXCEPT !.num = before, !.stop = TRUE]
      ELSE LET m == Evict(a.m, f.len + a.embeds)
           IN  IF base + a.num = f.start THEN [a EXCEPT !.m = m]
               ELSE [a EXCEPT !.m = m, !.embeds = @ + f.len, !.budget = @ - f.len,
                              !.hashes = @ \union {f.hash}]

TryScheduleEncoderInputs(r, base, num, compute) ==
  LET after[i \in 0 .. Len(Features[r])] ==
        IF i = 0 THEN [m |-> ecm, num |-> num, budget |-> compute, embeds |-> 0,
                       hashes |-> {}, stop |-> FALSE]
        ELSE TryInput(after[i - 1], r, base, Features[r][i])
  IN  after[Len(Features[r])]

Live == waiting \union Elements(running)
Pending(r) == pc = "allocate" /\ trying.req = r

AddRequest(r) ==
  /\ pc = "idle" /\ r \notin Live
  /\ waiting' = waiting \union {r}
  /\ UNCHANGED <<ecm, running, computed, stepVars, batches, store>>

StartStep ==
  /\ pc = "idle" /\ Live # {} /\ Len(batches) < MaxInFlight
  /\ pc' = "running" /\ idx' = 1
  /\ budget' = ComputeBudget
  /\ scheduled' = <<>>
  /\ preempted' = FALSE
  /\ UNCHANGED <<ecm, running, waiting, computed, trying, batches, store>>

\* The inputs are decided; if tokens are left, the KV cache is asked for blocks.
Try(r, base, num, next) ==
  LET t == TryScheduleEncoderInputs(r, base, num, budget)
  IN  /\ ecm' = t.m
      /\ pc' = IF t.num = 0 THEN next ELSE "allocate"
      /\ trying' = IF t.num = 0 THEN trying
                   ELSE [req |-> r, base |-> base, num |-> t.num,
                         hashes |-> t.hashes, budget |-> t.budget]

\* A request whose prompt is computed decodes one token.
TryRunning(r, num) ==
  /\ pc = "running" /\ idx <= Len(running) /\ r = running[idx]
  /\ num = 1 \/ num <= PromptLen[r] - computed[r]
  /\ Try(r, computed[r], num, "running")
  /\ idx' = IF pc' = "running" THEN idx + 1 ELSE idx
  /\ UNCHANGED <<running, waiting, computed, budget, scheduled, preempted, batches, store>>

\* The tokens before base are in the prefix cache, here or at a connector.
TryWaiting(r, base, num) ==
  /\ pc = "waiting" /\ r \in waiting /\ num > 0 /\ base + num <= PromptLen[r]
  /\ Try(r, base, num, "finish")
  /\ UNCHANGED <<running, waiting, computed, idx, budget, scheduled, preempted, batches, store>>

\* The KV cache has blocks: the inputs are allocated and will be computed.
Schedule ==
  LET r == trying.req
  IN  /\ pc = "allocate"
      /\ ecm' = Allocate(ecm, r, trying.hashes)
      /\ scheduled' = Append(scheduled, trying)
      /\ budget' = IF trying.hashes = {} THEN budget ELSE trying.budget
      /\ computed' = [computed EXCEPT ![r] = trying.base]
      /\ trying' = <<>>
      /\ IF r \in waiting
         THEN pc' = "waiting" /\ running' = Append(running, r) /\ UNCHANGED idx
         ELSE pc' = "running" /\ idx' = idx + 1 /\ UNCHANGED running
      /\ waiting' = waiting \ {r}
      /\ UNCHANGED <<preempted, batches, store>>

\* The KV cache has no blocks for a running request: another one has to go, or
\* the request itself. What was scheduled for it in this step is taken back.
PreemptVictim ==
  LET r == trying.req
      v == IF Policy = "FCFS" THEN running[Len(running)]
           ELSE CHOOSE s \in Elements(running) :
                  \A t \in Elements(running) : Precedence[s] <= Precedence[t]
      mine == {t \in Elements(scheduled) : t.req = v}
  IN  /\ pc = "allocate" /\ r \notin waiting
      /\ running' = Without(running, {v})
      /\ waiting' = waiting \union {v}
      /\ scheduled' = Without(scheduled, mine)
      /\ budget' = budget + Slots(UNION {t.hashes : t \in mine})
      /\ idx' = IF mine = {} THEN idx ELSE idx - 1
      /\ ecm' = FreeRequest(ecm, v)
      /\ computed' = [computed EXCEPT ![v] = 0]
      /\ preempted' = TRUE
      /\ pc' = IF v = r THEN "finish" ELSE pc
      /\ trying' = IF v = r THEN <<>> ELSE trying
      /\ UNCHANGED <<batches, store>>

\* Mutant: the references of the request are kept.
RefuseKeepingReferences ==
  /\ pc = "allocate" /\ trying.req \in waiting
  /\ pc' = "finish" /\ trying' = <<>>
  /\ UNCHANGED <<ecm, running, waiting, computed, idx, budget, scheduled, preempted,
                 batches, store>>

\* The KV cache has no blocks for a waiting request: it drops its references.
RefuseWaiting ==
  /\ pc = "allocate" /\ trying.req \in waiting
  /\ ecm' = FreeRequest(ecm, trying.req)
  /\ pc' = "finish" /\ trying' = <<>>
  /\ UNCHANGED <<running, waiting, computed, idx, budget, scheduled, preempted, batches, store>>

\* The running list or the token budget is exhausted.
EndRunning ==
  /\ pc = "running" /\ (idx > Len(running) \/ scheduled # <<>>)
  /\ pc' = IF preempted THEN "finish" ELSE "waiting"
  /\ UNCHANGED <<ecm, running, waiting, computed, idx, trying, budget, scheduled,
                 preempted, batches, store>>

\* Mutant: the references are kept until the request is finished.
FreeNothing(m, r, upto) == m

\* _free_encoder_inputs: the inputs that are in the KV cache by now.
FreeComputed(m, r, upto) ==
  FreeInputs(m, r, {i \in DOMAIN Features[r] : End(Features[r][i]) <= upto})

\* What the model and the drafter look up for the tokens of t.
Needed(t) ==
  {f.hash : f \in {g \in Elements(Features[t.req]) :
     \E shift \in {0, Shift} : /\ g.start < t.base + shift + t.num
                               /\ End(g) > t.base + shift}}

\* Mutant: the list of evicted entries is lost.
OutputNothingFreed ==
  [freed |-> {}, compute |-> UNION {t.hashes : t \in Elements(scheduled)},
   need |-> UNION {Needed(t) : t \in Elements(scheduled)}]

\* The SchedulerOutput, as far as the worker's encoder cache goes.
Output ==
  [freed |-> ecm.freed, compute |-> UNION {t.hashes : t \in Elements(scheduled)},
   need |-> UNION {Needed(t) : t \in Elements(scheduled)}]

\* num_computed_tokens of a scheduled request, as far as the prompt goes.
Upto(t) == IF t.base + t.num < PromptLen[t.req] THEN t.base + t.num ELSE PromptLen[t.req]

\* _update_after_schedule, for the scheduled requests in their order.
FreeScheduled(m) ==
  LET after[k \in 0 .. Len(scheduled)] ==
        IF k = 0 THEN m
        ELSE FreeComputed(after[k - 1], scheduled[k].req, Upto(scheduled[k]))
  IN  after[Len(scheduled)]

FinishStep ==
  /\ pc \in {"waiting", "finish"}
  /\ batches' = Append(batches, Output)
  /\ computed' = [r \in Request |->
       IF \E t \in Elements(scheduled) : t.req = r
       THEN Upto(CHOOSE t \in Elements(scheduled) : t.req = r) ELSE computed[r]]
  /\ ecm' = FreeScheduled([ecm EXCEPT !.freed = {}])
  /\ pc' = "idle" /\ scheduled' = <<>> /\ preempted' = FALSE
  /\ idx' = 1 /\ budget' = ComputeBudget
  /\ UNCHANGED <<running, waiting, trying, store>>

\* A request stops or is aborted.
FinishRequest(r) ==
  /\ pc = "idle" /\ r \in Live
  /\ running' = Without(running, {r})
  /\ waiting' = waiting \ {r}
  /\ computed' = [computed EXCEPT ![r] = 0]
  /\ ecm' = FreeRequest(ecm, r)
  /\ UNCHANGED <<stepVars, batches, store>>

\* reset_encoder_cache: for the worker a call behind the outputs on their way.
ResetEncoderCache ==
  /\ pc = "idle" /\ Len(batches) < MaxInFlight
  /\ ecm' = EmptyCache
  /\ batches' = Append(batches, [freed |-> Hash, compute |-> {}, need |-> {}])
  /\ UNCHANGED <<running, waiting, computed, stepVars, store>>

-----------------------------------------------------------------------------
(* The worker                                                              *)

\* The cache of the worker after it has served output b.
After(s, b) == (s \ b.freed) \union b.compute

Execute ==
  /\ batches # <<>>
  /\ store' = After(store, Head(batches))
  /\ batches' = Tail(batches)
  /\ UNCHANGED <<ecm, running, waiting, computed, stepVars>>

-----------------------------------------------------------------------------
Next ==
  \/ StartStep
  \/ \E r \in Request : \E num \in 1 .. PromptLen[r] : TryRunning(r, num)
  \/ \E r \in Request : \E base, num \in 0 .. PromptLen[r] : TryWaiting(r, base, num)
  \/ Schedule \/ PreemptVictim \/ RefuseWaiting \/ EndRunning \/ FinishStep
  \/ \E r \in Request : AddRequest(r) \/ FinishRequest(r)
  \/ ResetEncoderCache \/ Execute

Spec == Init /\ [][Next]_vars

-----------------------------------------------------------------------------
(* Properties                                                              *)

Referenced == {h \in DOMAIN ecm.cached : ecm.cached[h] # {}}

\* The two counters of the manager stay true to the entries: free slots are those
\* of no entry, freeable ones those of no referenced entry, the eviction order
\* lists every unreferenced entry once, and no counter goes below zero (the
\* assertions of allocate).
CountersMatch ==
  /\ ecm.free = CacheSize - Slots(DOMAIN ecm.cached) /\ ecm.free >= 0
  /\ ecm.freeableSlots = CacheSize - Slots(Referenced)
  /\ Elements(ecm.freeable) = DOMAIN ecm.cached \ Referenced
  /\ Distinct(ecm.freeable)

\* The counters stay true to the entries, and the entries to the requests: only a
\* request that is running, or about to, holds on to an entry.
SlotsMatchEntries ==
  /\ CountersMatch
  /\ \A h \in Referenced : \A r \in ecm.cached[h] : r \in Elements(running) \/ Pending(r)

\* What the worker holds once it has served n of the outputs on their way: what
\* was there, or was computed, and has not been dropped since.
Served(n) ==
  {h \in Hash : \E j \in 0 .. n :
     /\ IF j = 0 THEN h \in store ELSE h \in batches[j].compute
     /\ \A k \in j + 1 .. n : h \notin batches[k].freed}

\* Between two steps the worker will hold exactly the entries the manager counts,
\* once it has served the outputs on their way: nothing leaks in its memory, and
\* nothing is believed to be cached that is not.
WorkerFollows == pc = "idle" => Served(Len(batches)) = DOMAIN ecm.cached

\* The worker finds every entry it looks up ("Encoder cache miss"), although the
\* entry may be evicted, dropped and computed again with outputs in flight.
NoCacheMiss == batches # <<>> => Head(batches).need \subseteq After(store, Head(batches))

\* The requests never block one another on the cache: between two steps, one of
\* the running requests with a prompt to compute could be given tokens.
NoHoldAndWait ==
  LET Prefilling == {r \in Elements(running) : computed[r] < PromptLen[r]}
  IN  pc = "idle" /\ Prefilling # {} =>
        \E r \in Prefilling :
          TryScheduleEncoderInputs(r, computed[r], PromptLen[r] - computed[r],
                                   ComputeBudget).num > 0
=============================================================================
