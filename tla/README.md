# A TLA+ development for the vLLM serving core of this repository

The repository is a competition entry that serves a large model on one
accelerator: shell scripts and patches around a copy of vLLM
(`src/remote-home/vllm_cscc`). What decides whether it answers correctly, and
what is hard to test, is the core of the v1 engine (`vllm/v1`): the scheduler,
the KV cache with its prefix cache, the encoder cache, the engine loop that keeps
several batches in flight, the waves that keep data-parallel engines together,
and the shared-memory queue between an engine and its workers. This project
models these in TLA+ and checks them with TLC. With TLAPS it proves, for every
size, the linked list of free blocks, the KV cache manager and the encoder cache
correct, that the scheduler keeps its queues, the order of arrival and the
manager's contract and returns tokens in order, that the message queue is a FIFO
broadcast, and that engines meet in their collectives. Every safety property of
the passing runs is also proved, as far as its hypotheses (section 4) reach;
liveness is model-checked only.
Paths below are relative to
`src/remote-home/vllm_cscc/vllm/v1` unless they say otherwise.

## 1. Inventory

| component | state | operations | interacts with |
|---|---|---|---|
| `FreeKVCacheBlockQueue` (`core/kv_cache_utils.py`) | links of the free blocks, their count | popleft, popleft_n, remove, append, append_n | used by BlockPool |
| `BlockPool` (`core/block_pool.py`) | reference counts, block hashes, map from hashes to blocks, free queue | get_new_blocks, touch, free_blocks, cache_full_blocks, evict_blocks, reset_prefix_cache | called several times in one call of the manager |
| `KVCacheManager` with its coordinator and single-type managers | block table and number of cached blocks of each request | get_computed_blocks, allocate_slots, cache_blocks, free, evict_blocks, reset_prefix_cache | called by the scheduler |
| `Scheduler`, `AsyncScheduler` (`core/sched`) | waiting queue, running list, status and counters of each request | add_request, finish_requests, schedule, update_from_output, reset_prefix_cache | called by EngineCore |
| `EngineCore` (`engine/core.py`) | batch queue, input and aborts queues | step, step_with_batch_queue, the busy loop | clients, executor |
| `EncoderCacheManager` (`core/encoder_cache_manager.py`) | slots, references, freeable entries, evicted ones | check_and_update_cache, can_allocate, allocate, free, reset | scheduler; the tensors are in the worker |
| hybrid, sliding-window, Mamba groups | skipped blocks, one state block per request | remove_skipped_blocks, aligned allocation | manager |
| KV connectors, offloading | requests waiting for remote KV, loads and stores in flight | promote, invalid blocks, LRU/ARC | scheduler |
| data-parallel coordinator (`engine/coordinator.py`) | wave number, engines running; copies in every engine and front end | first request, start and end of a wave, statistics | engines and front ends over sockets |
| shared-memory broadcast (`distributed/device_communicators/shm_broadcast.py`) | ring of chunks, a written flag and one read flag per reader, sockets | enqueue, dequeue, notify, shutdown | executor and workers, without a lock |
| micro-batching (`worker/ubatching.py`) | CPU and GPU events | yield to the other thread | model runner |
| output processing, parallel sampling | collectors per request | process outputs, abort | clients |
| model runner, kernels, API servers, scripts | | | out of scope |

What is hard here: the engine schedules a step before the output of the step
before it is known; requests are preempted, aborted and stopped in between;
a free block is at the same time an entry of the prefix cache; counts are kept
apart from what they count; one loop changes several lists and may have to undo
part of what it did. Between processes: shared memory without a lock, sleeping
readers, notices that cross each other, views that are out of date, and a cache
whose books and contents are in different processes. `PROJECT.json` lists each of these hazards at its line.

Properties that make the parts correct:

* free queue: one list, never cyclic, its count exact, first in first out;
* pool and manager: no block leaks or is used twice; a block is shared only by
  requests that have the same tokens; no assertion can fail after admission;
* scheduler: each live request is in one queue; tokens come back in order,
  each once; only computed blocks are offered as hits; order of arrival is
  kept; every request is answered, if the pool has room for it alone;
* encoder cache: the counters are exact; the worker finds what it looks up;
  requests never block one another on the cache;
* message queue: a FIFO broadcast; no torn read, no lost wake-up, and a shutdown
  reaches its reader;
* waves: engines enter the same collective; none is left paused with a request;
  the coordinator's view becomes right once the messages have arrived.

## 2. Modules

| module | models |
|---|---|
| `Queues` | operators on queues of distinct elements, without recursion |
| `EvictionQueue` | the abstract queue of free blocks |
| `FreeBlockQueue` | the doubly linked list, operation by operation |
| `BlockPool` | the pool as a value, its methods as operators |
| `KVCacheManager` | block tables over a pool; any caller that keeps the contract |
| `Scheduler` | scheduler, asynchronous scheduler and engine loop over `KVCacheManager` |
| `EncoderCache` | the encoder cache manager, its use in a scheduler step, the worker's store |
| `BroadcastQueue` | what a message queue promises: a bounded FIFO broadcast |
| `MessageQueue` | the ring in shared memory, one access to a flag per action |
| `DPWaves` | data-parallel engines, their coordinator and the front ends |
| `QueuesProofs` | facts about queues, and induction over an interval |
| `FreeBlockQueueProofs`, `KVCacheManagerProofs`, `EncoderCacheProofs`, `MessageQueueProofs`, `DPWavesProofs` | theorems about the module of that name |
| `SchedulerProofs` | the scheduler's queues and the order of arrival |
| `SchedulerEngineProofs` | the scheduler's counters, that it implements `KVCacheManager`, what its prefix cache offers, the order of the output tokens, and the placeholders |
| `MC*` | the instances for TLC |

`FreeBlockQueue` implements `EvictionQueue`; `BlockPool` uses that queue as a
sequence. `KVCacheManager` instantiates `BlockPool`. `Scheduler` extends
`KVCacheManager`, drives its variables through its operators and implements
`KVSpec` (`ImplementsKVCacheManager`), so the theorems about the manager hold of
the pool the scheduler drives. `MessageQueue` implements `BroadcastQueue`. All
three refinements are checked by TLC and proved. `EncoderCache` models the encoder side of `schedule`
apart from its KV side: the two meet only where the KV cache refuses, which is
a free choice there.

### FreeBlockQueue
`prev`, `next` and `numFree` are the attributes of the code; `ret` is what the
last call returned. The loops of `popleft_n` and `append_n` are stated by the
blocks they walk. `popleft_n` trusts the count, as the code does. The caller's
duty is a guard: only blocks that left the list are appended.

### BlockPool and KVCacheManager
A pool is a record; the methods are operators from pools to pools because one
call of the manager applies several. The hash of a block is the token prefix it
stands for: hashes are chained, and collisions are left out. The map keeps, per
hash, the blocks in insertion order (the code keeps one block or a dict of them).
`error` becomes true where the code would fail an assertion or raise.
`AllocateSlots` is `allocate_slots` from the admission test to the caching;
when the test fails, nothing changes and the caller goes on. `KVNext` lets any
caller act: any number of tokens, hits looked up only for a request without
blocks, caching only of tokens the request has. `remove_skipped_blocks` does
nothing for full attention.

### Scheduler
The engine core is one thread. `pc` is its place: `idle` (clients served),
`running`, `allocate`, `waiting`, `finish` (inside `schedule`), `collect`
(waiting for the oldest output, where aborts are served), `update`, `free`
(inside `update_from_output`), `reset`. One action is one iteration of a loop.
`trying` holds what the preemption loop retries: the number of tokens is settled
before the first attempt. `batches` is the batch queue; an entry carries the
position of the token it will return, 0 for a chunk that does not reach the end
of the prompt. An output token is recorded by the position it was sampled for,
which makes lost and repeated tokens visible. `filled` is a history variable:
the slots of a block that a dispatched batch writes.

Correspondence notes:

* After dispatching a batch the engine goes on scheduling unless the queue is
  full, the batch is empty or the oldest future is done. Whether the future is
  done is free, hence the two outcomes of `FinishSchedule`.
* `update_from_output` removes the stopped requests from the queues once, after
  its loop; the model does it with each request. Nothing reads the queues in
  between, and the thread serves no client there.
* `eos` of `CheckStop` stands for the stop tokens and the repetition detector.
  `min_tokens` is checked first, as in the code. `sampling_params.py` validates
  `min_tokens` only against `max_tokens`: with a prompt and a `min_tokens` that
  together exceed `max_model_len` a request is never scheduled again and never
  stops. The instances keep `min_tokens` within `max_model_len`.
* The size of the pool is not assumed to suffice for one request: the check of
  the memory (`core/kv_cache_utils.py:616`) accepts `cdiv(max_model_len,
  block_size)` blocks, of which `BlockPool` takes one for the null block, and
  `num_gpu_blocks_override` sets any number. A request computes at most
  `max_model_len - 1` tokens, so it can finish alone where
  `CDiv(MaxModelLen - 1, BlockSize) <= NumBlocks - 1`. All instances but one
  have that room, which nothing in the code enforces; `scheduler_pool_boundary`
  is the smallest pool the check accepts, and there a request starves.
* `SampledPosition` is the model runner's mask of requests not to sample
  (`worker/gpu_model_runner.py:1799`): a token is returned only for a request
  computed to its end.
* Tokens a request will sample are part of `Stream`, so a recomputed request
  samples the same tokens again.
* The priority heap is kept as a sequence in order of urgency; urgency is a
  total order (the code breaks ties by arrival and id).

### EncoderCache
`ecm` is the manager (`cached`, `freeable` in eviction order, `freed`, the two
counters); the operators are its methods. One step takes the running requests,
then waiting ones: `Try` decides the encoder inputs and cuts the number of
tokens, `Schedule` is the KV cache granting blocks, after which `allocate` is
called, and `PreemptVictim` and `RefuseWaiting` are the KV cache refusing. How
many tokens a request may get, how many of its tokens are in the prefix cache
and when the running loop runs out of budget are free. `FinishStep` hands
evictions, inputs to compute and lookups to the worker and frees what is now in
the KV cache. `batches` are the outputs on their way, `store` the worker's
dictionary. `Needed` is what `_gather_mm_embeddings` looks up, with EAGLE also
for the drafter, one token ahead. Any waiting request may come next, a superset
of both queues. A finished request may be added again. `reset_encoder_cache`
is a call that the worker serves behind the outputs before it.

The loops over the inputs of a request and over the scheduled requests are
recursive functions of an index. `Allocate` is the loop of calls of `allocate`
for one request: the inputs have different identifiers, so their order does not
matter, and as the counters only decrease, the assertions of `allocate` hold in
every call if no counter is negative at the end. `Slots(H)` counts the embeddings
of a set of entries, as pairs of an entry and a number.

`EncoderAssumption` and `InputAssumption` describe what a request can be: its
inputs lie in its prompt, in order and without overlap
(`vllm/multimodal/inputs.py`), inputs with the same identifier have the same
size, and one input fits into the cache and into the budget, which
`compute_mm_encoder_budget` (`core/encoder_cache_manager.py:312`) sees to.

An input without an `is_embed` mask has as many embeddings as positions; masks
are left out, and so are encoder-decoder models, which do not use the cache, and
encoder-cache connectors.

### MessageQueue
`wpc` and `rpc` are the places of the writer in `enqueue` and of each reader in
`dequeue`. An access to a flag is an action, and accesses happen in program
order. The code has a fence before it tests the flags and on both sides of
setting the written flag, but none between clearing the written flag
(`shm_broadcast.py:576`), writing the data and clearing the read flags (`:588`);
there the order is the one a TSO processor such as x86 keeps, and on a weaker
one the model promises more than the code. `Torn` stands for the content of a
chunk from the moment the written flag is cleared to the last byte. A read lasts
until the read flag is set. Buffers of 1 MiB and more that travel out of band in
a chunk are handed out as slices of it (`shm_broadcast.py:766`), which the
caller may read when the chunk is filled again; such reads are left out, and
`NoTornRead` says nothing of them. A large message puts the overflow mark in the
chunk and goes through the local socket *after* the chunk is marked; remote
readers get everything through their socket. Sockets deliver in order and lose
nothing, but notifications are conflated (`zmq.CONFLATE`): `notified` is one
bit. `Spin` and `Sleep` are the two branches of `SpinCondition.wait`, which
depend on time only. A poll may end by a timeout (deadline or warning) for the
processes in `Impatient`. `Shutdown` and `Cancel` are the two statements of
`shutdown()`, run in another thread.

`recv` of an overflowing message may time out *after* the chunk was counted as
read (`shm_broadcast.py:779`). The payload then stays in the socket and the next
overflowing dequeue returns it instead of its own. `late` records it, and order
and delivery are claimed until then; the executor passes the timeout on as a
failed RPC call (`executor/multiproc_executor.py:378`).

The abstract queue has room for `MaxChunks + 1` messages: a reader between the
mark and the payload has freed the chunk without having dequeued the message.

### DPWaves
An engine is in its `loop`, in the `forward` pass, or in the all-reduce
(`reduce`) that ends every `SyncPeriod`-th step (32 in the code). The forward
pass is collective in a mixture-of-experts model, so it is one action of all
engines, guarded by every one being there. The step counter is kept modulo
`SyncPeriod`; the code resets it when the engines pause, where it is 0 in the
model too. `coord` is the coordinator's state, `view[c]` a front end's copy;
every connection is a queue of its own, so messages on different sockets cross
freely. A front end reports its first request through an internal socket to its
statistics task (`first`), which informs the coordinator (`front`).
`PublishStats` is the periodic publication. The front end drains its socket and
keeps the latest state; the model also shows the ones before it.

Front ends name an engine by the identity of its socket, two bytes
(`core_client.py:610`); engines compare with their index, an integer
(`core.py:1659`). So the exclusion of the engine that has the request never
applies to a front end's start, which is harmless: every engine is woken.
`Identity` keeps this.

`asked` and `withdrawn` are history variables. `asked` is the engines that asked
the coordinator for a start of the current wave; `withdrawn` becomes true when
such an engine, still paused, loses its last request (section 3).

## 3. Runs

| run | instance | what it shows | states |
|---|---|---|---|
| `free_block_queue` | 4 blocks | links and count consistent, refinement of the queue | 261 |
| `kv_cache_manager` | 3 requests, 3 usable blocks of 2 tokens | the invariants of the manager, no error | 6 048 |
| `scheduler_async` | 3 requests, 3 usable blocks, 2 batches in flight | queues, tokens, placeholders, cache, order, contract | 49 064 |
| `scheduler_async_reset` | 2 requests, at most one reset, weak fairness | queues, order, contract; every request finishes if no reset comes | 24 619 |
| `scheduler_priority_reset` | 2 requests, priority, synchronous, at most two resets | rollback of a scheduled victim, exact books, no token lost, the reset never raises | 31 421 |
| `message_queue` | 2 local readers, 1 remote, 2 chunks, 3 messages | no torn read, FIFO broadcast, delivery, shutdown | 155 479 |
| `dp_waves` | 2 engines, 1 front end, 2 requests, one may be aborted | coordinator right once quiet, same collective, every request served | 318 789 |
| `encoder_cache` | 3 requests sharing 3 inputs, 3 slots, 2 outputs on their way | books exact, worker follows, no miss, no mutual blocking | 502 200 |
| `scheduler_reset_token` | 1 request, one reset | violation, see below | |
| `scheduler_pool_boundary` | 1 request, the smallest pool that is accepted, weak fairness | violation, see below | |
| `scheduler_priority_cache` | a long and an urgent request, priority, synchronous | violation, see below | |
| `encoder_cache_eagle` | 2 requests, text before an input, EAGLE | violation, see below | |

Bounds. Blocks hold two tokens, so that full and partial blocks both occur. Two
requests start with the same block, the third does not, so that hits, misses,
sharing and several blocks under one hash occur. Three usable blocks cannot hold
two requests to their end: preemption happens, of a request that has tokens in
flight too. A budget of three tokens cuts a second prompt into chunks. A
victim that was scheduled earlier in the same step is produced only by the
priority policy. In `scheduler_priority_reset` the chunks of two tokens
(`LongPrefill`) let a less urgent request be scheduled for the last token its
blocks hold, just before the urgent one asks for another block. In the long
instance the chunks of three tokens end inside a block, so that the victim has
just been given a full one. Resets are checked under the synchronous scheduler
with the priority policy and under the asynchronous one first come, first
served; the theorems of section 4 on queues, order, contract and books cover
every combination that their hypotheses allow. `MaxResets` bounds the calls of
`reset_prefix_cache`. At most two
batches are in flight, what asynchronous scheduling on one accelerator uses.
With three (synchronous, pipeline parallel) a request can be resumed before its
token of the first time arrives, and the same position is returned twice; no
document of the repository says what such a pipeline promises.

The message queue has a ring shorter than the number of messages, so that chunks
are reused while a slow reader is behind, one message that overflows, and three
readers: one that passes timeouts (so does the writer), one that waits without a
deadline and may be shut down, and a remote one. The waves need
two engines, so that one can be paused behind the other's back, and a period of
two, so that steps with and without all-reduce occur; the requests are of
different lengths, and the second may be sent at every point of the first one's
wave, with every stale view, into the same or another engine. In the encoder
cache three slots hold the short input and one of the two long ones, but not all
three; each request shares an input with another one, one prompt has the same
input twice, and an input is found cached, referenced, freeable, evicted or on
its way.

Deadlock checking is on for the block queue and the KV cache manager, whose
callers can always act. It is off elsewhere: an engine is idle when every request
has finished, a writer when no one enqueues.

Fairness.

* Scheduler (`scheduler_async_reset`, `scheduler_pool_boundary`): weak fairness
  of the engine's actions only. `run_busy_loop` steps as long as `has_work` holds, and an executor
  returns every batch. Two requests keep the graph small; they compete for
  blocks and preempt one another.
* Message queue: weak fairness of each process's steps and of the second half
  of `shutdown()`; the threads run. A reader that finds nothing time and again
  finds so before its deadline some time (strong fairness of `Spin` or `Sleep`
  against `ReadTimeout`): the deadline is set anew with each dequeue. No timeout
  has to expire, so delivery does not lean on the polling for warnings.
* Waves: weak fairness of every process's loop and of the collectives; strong
  fairness of serving a start or a request, because an engine drains its input
  queue before every step but not during one.

Clients never have to send, abort, reset or shut down anything.

Deviations found:

* `scheduler_reset_token`. `reset_prefix_cache(reset_running_requests=True)`
  sets `discard_latest_async_tokens` on every running request
  (`core/sched/scheduler.py:1859`), also on one with no token in flight, for
  instance in the middle of a chunked prefill. The flag then drops the next
  legitimate token. Its placeholder remains counted, so the request may in the
  end count its last token as on its way: it is skipped in every step and keeps
  its blocks, and others that need them starve too. `EveryRequestFinishes` is
  therefore stated for behaviours without a reset (TLC refutes it otherwise).
* `scheduler_pool_boundary`. The check of the memory counts the null block
  (`core/block_pool.py:175`) as usable. At the smallest size it accepts, which is
  the one `_auto_fit_max_model_len` fits `max_model_len` to, a request that grows
  to `max_model_len` needs one block more than there is: it preempts itself and
  waits for ever, alone in the engine. (Only if `max_model_len` is one more than
  a multiple of the block size does the last token spare it.) So
  `EveryRequestFinishes` is a promise of pools with room for each request alone,
  as in `scheduler_async_reset`. With one block more the run passes.
* `scheduler_priority_cache`. When a victim that was already scheduled in this
  step is rolled back (`core/sched/scheduler.py:471`), the blocks that
  `allocate_slots` cached for it stay in the prefix cache although no batch
  computes them. A later request with the same prefix hits them.
* `encoder_cache_eagle`. With EAGLE, a chunk that ends exactly where an encoder
  input begins needs the input for the drafter. `_try_schedule_encoder_inputs`
  looks at the input because of the shift, but computes its range without the
  shift, finds it empty (`core/sched/scheduler.py:1227`) and goes on without the
  input. The drafter's lookup then fails the assertion of
  `worker/gpu_model_runner.py:2725`.

Met while modelling, excepted from the properties, and stated by no document:

* Under the priority policy with asynchronous scheduling the victim may be a
  request the loop has skipped because all its tokens are on their way. It is not
  in `scheduled_running_reqs`, so `req_index` does not move back
  (`core/sched/scheduler.py:471`), and the request behind the one at hand misses
  its turn in this step.
* A paused engine that receives a request of a past wave asks for a start and is
  left out of it (`engine/coordinator.py:393`), since it has the request. If the
  request is aborted before the engine steps, the engine stays paused and the
  others wait for it in the collective until another request comes to it
  (`withdrawn` in `DPWaves`).
* Under the priority policy a victim rolled back in the step that scheduled it
  leaves encoder inputs in the manager that no worker computes
  (`core/sched/scheduler.py:477`): with `Policy = "PRIORITY"` both
  `WorkerFollows` and `NoCacheMiss` fail. The cause is the one
  `scheduler_priority_cache` shows for the prefix cache.
* With EAGLE a request whose inputs are adjacent needs two of them at once, but
  the cache is only guaranteed to hold one (`core/encoder_cache_manager.py:312`):
  `NoHoldAndWait` fails. And a waiting request that is given no token after it
  found an input cached leaves the loop with the reference it took
  (`core/sched/scheduler.py:687`): `SlotsMatchEntries` fails until it is
  scheduled or finished. Without EAGLE the input that takes the last token lies at
  the tokens to compute, so nothing was found before it (`TryProgress`).

Each property of a passing run is paired in `PROJECT.json` with a plausible bug
(an operator commented "Mutant") under which TLC finds the property violated.

## 4. Proofs

Every theorem holds for every value of the constants that the named assumptions
of the modules allow; `PROJECT.json` says which run checks the same property on a
small instance.

### FreeBlockQueueProofs
For every pool and every initial list of distinct blocks (`NodeAssumption`):

* `TypeCorrect`, `LinksCorrect`: `Spec => []TypeOK`, `Spec => []WellLinked`;
* `LinksImplementQueue`: `Spec => ImplementsQueue`.

The proofs look at the list by position: `At(s, i)` is the i-th node of the
chain, the fakes at both ends, and `Linked(s, nx, pv)` says that two functions
are the links of `s`. What an operation does to the links is a predicate of old
and new links (`Popped`, `Removed`, `Appended`), and `PopLinks`, `RemoveLinks`,
`AppendLinks` show that the new links are those of the shorter or longer list.
The invariant is that the links hold *some* list of `numFree` blocks, which is
what `popleft_n` needs: that its walk of n hops meets the first n blocks is an
induction over the hops, possible only because the count it trusts is right.
`WalkMeets` identifies what `get_all_free_blocks` returns with that list, which
makes the refinement a matter of comparing lists.

### KVCacheManagerProofs
For every number of blocks, block size, finite set of requests and token streams,
with and without prefix caching and eagle:

* `InvHolds`: `KVSpec => []Inv`, the inductive invariant;
* `TypeCorrect`, `RefCountsCorrect`, `HashMapCorrect`, `SharingCorrect`,
  `SplitCorrect`, `NeverRaises`: the six invariants of `kv_cache_manager`.

The assumptions are `SizeAssumption` and `StreamAssumption` of `KVCacheManager`:
positive sizes, finitely many requests, streams over a set of tokens.

None of the invariants is inductive alone. That a block to be
cached has no hash needs that `num_cached_block` splits each table
(`TablesMatchCache`); that a cached private block may be hit by another request
needs that its hash names the place and the tokens (`SharedBlocksAgree`); that
new blocks are unreferenced needs the free queue to be exactly the unreferenced
blocks. `Sound(p, t, c)` is their conjunction over a pool, the tables and the
counts. It is a predicate of values, not of the state, because one call of
`allocate_slots` passes through states in between: `TouchSound`, `GrowSound` and
`CacheSound` each preserve it and `AllocateSound` chains them, showing on the
way that nothing raises: the admission test counts the new blocks plus the hits
that wait in the free queue, and touching removes exactly the latter
(`WithoutLength`). `FreeSound`, `EvictSound` and `ResetSound` do the rest, and
`StepSound` has one step per action. That `CHOOSE` finds a longest hit is
`InitialSegmentMax`, by cardinality rather than induction. `QueuesProofs` has
the facts about queues, above all `WithoutElements`.

The last part is about callers that never evict blocks of their own choice
(`KVStep`, which is `KVNext` without `Evict`). `Linked` says that a block cached
for a request keeps its hash while the request holds it, and that a free block
with a hash is outlived by one with the hash before it: one in use, or one behind
it in the queue. `TouchLinked`, `GrowLinked`, `CacheLinked`, `FreeLinked` and
`ResetLinked` each preserve it: blocks are taken from the front of the queue, so
those behind the taken ones lose nothing; a table is freed from its end, so that
each of its blocks is put before the one it was behind; and a reset goes through
only when no table holds a block.

### SchedulerProofs
For every set of requests, pool, policy, number of batches in flight and number
of resets, from `SchedulerAssumption` alone:

* `QueuesCorrect`: `Spec => []QueuesMatchStatus`;
* `OrderCorrect`: `Spec => OrderKept`.

`QueuesMatchStatus` is not inductive: the running loop walks a list that
preemption shortens under its index. `ControlOK` states what the thread relies on
at each place of its loops (the request it asks blocks for is still running, only
running requests are scheduled, a request about to be freed is live) and
`LoopOK` that what was scheduled lies before the index and the request at hand at
the index or, after a victim before it was removed, before it; so no request is
scheduled twice in a step. `QInv` is their conjunction. For the order,
`WithoutOrder` says that removing requests keeps the others in their order, and
each action's queue is the one before it with requests removed, moved from the
end of one list to the front of the other, or appended.

### SchedulerEngineProofs
* `KeepsContract`: `Spec => ImplementsKVCacheManager`, every step of the engine
  is a step of `KVNext`;
* `EngineKeepsKVInvariants`: hence the invariants of the manager, `NoError` among
  them, hold of the engine;
* `EngineTypeCorrect`: `Spec => []TypeOK`, the bounds of the counters included:
  no request computed beyond `max_model_len - 1`, the token budget never
  negative, one placeholder at least for each token on its way;
* `BooksBalance`: `Spec => []StepBooksBalance`, the budget and the grants of a
  step, rolled back victims included;
* `PrefixesAlwaysCached`: `Spec => []PrefixesStayCached`;
* `CacheIsComputed`: `Spec => []CachedBlocksComputed` if `Policy` is `"FCFS"`.

The invariant `KInv` adds to `QInv` what the contract needs. `CountersOK`: a
request is computed no further than it has tokens or placeholders and than its
block table reaches, so that `cache_blocks` is only asked for tokens the request
has. `AwaitedOK`: there is a placeholder for each batch that will return a token
of a request, or the flag that drops one. `GrantOK` and `TryOK`: the number of
tokens settled before the preemption loop still fits when the loop succeeds, even
though the loop may roll back other requests. `BatchesOK` bounds what is in
flight. The budget is an equation, `budget` plus the tokens given away is
`TokenBudget`, which rolling back a victim restores (`BudgetOK`); to avoid a sum
over a sequence, the tokens given are counted as a set of pairs
(`GrantedTokens`).

Every step of the engine turns out to be a step of `KVStep`, so `Linked` holds of
the engine's pool too; a held block with a hash stands in a table behind the
block with the hash before it, and a free one is outlived by one: that is
`PrefixesAlwaysCached`.

`CachedBlocksComputed` speaks of the states between steps, but a block gets its
hash when its tokens are scheduled, before anything is computed. The invariant
`CInv` therefore says *ready* instead of computed: a block that counts as computed
in a table (`TablesReady`), or that carries a hash (`CacheReady`), is written to its
end or will be by a grant of this step. Blocks taken from the free queue are in
no table and have lost their hash, so writing them anew breaks no promise; a hit
carries a hash; `FinishSchedule` turns the grants into written slots. A
promise is broken only if a request loses the grant it has got in the same step.
First come, first served excludes that: the victim is the last of the running
list, the request at hand stands at the index (`AtIndex`), and grants lie before
it. Under the priority policy the theorem is false (run
`scheduler_priority_cache`).

The theorems on the contract and the types have two hypotheses on the constants,
neither of which the code enforces. `EngineTypeCorrect` is false without either one (TLC finds it on
small instances); whether the contract needs them is open.

* `LengthsFit`: the prompt and `min_tokens` fit in `max_model_len`.
  `check_stop` (`core/sched/utils.py:100`) returns before its length test while
  there are fewer output tokens than `min_tokens`; a request that has grown to
  `max_model_len` and is then preempted is computed to `max_model_len`.
* `ResetsFit`: an asynchronous engine that resets while requests run has at most
  two batches in flight. There is one `discard_latest_async_tokens` flag per
  request, which drops one token; with a third batch the placeholders go below
  zero, which `AsyncScheduler` asserts they never do. Two is what `max_concurrent_batches` is for
  asynchronous scheduling without pipeline stages.

The second half of the module is about the tokens a request returns:

* `OutputsCorrect`: `Spec => []OutputsInOrder`;
* `PlaceholdersCorrect`: `Spec => []PlaceholdersMatchInFlight`.

A token that arrives is appended whatever position it was sampled for, so the
order is a fact about everything in flight. `Returns(r, i, p)` says that batch i
will return the token of r at position p. With placeholders (`AsyncOK`), the
positions in flight are exactly those between the tokens r has and the tokens
plus placeholders it has, and an older batch returns an earlier one: a new batch
samples the position after all of them, because a request that samples is
computed to the last placeholder; and the oldest output, which is the smallest,
must be the next token. Preemption changes none of this, as it keeps the
placeholders. Without placeholders (`SyncOK`), at most one batch returns a token
of r, the next one; meanwhile r is running with nothing to compute, or it was
preempted in the current step, which then admits nothing, and the token is used
before the next step. That the number of placeholders is the number of
entries in flight follows by a bijection between the entries and the positions,
for which the batches must not be wider than `max_num_seqs` (`WidthOK`).

Besides `LengthsFit` the theorems assume `InOrderFits`: no reset if scheduling is
asynchronous; one batch at a time, or two and no reset, if it is not. TLC refutes
`OutputsInOrder` on small instances beyond it: asynchronous with a reset (run
`scheduler_reset_token`), synchronous with two batches and a reset, synchronous
with three batches.

### MessageQueueProofs
For every number of readers, chunks and messages, with every choice of timeouts
and shutdowns, from `QueueAssumption`:

* `TypeCorrect`: `Spec => []TypeOK`;
* `NoReaderSeesTornData`: `Spec => []NoTornRead`;
* `DeliveredInOrder`: `Spec => BroadcastInOrder`;
* `ImplementsBroadcastQueue`: `Spec => Queue!BQSpec` if no reader is in
  `Impatient`. A `recv` that times out skips a message, which the abstract queue
  never does; that is why order too is claimed until the first such timeout.

`NoTornRead` alone is not inductive: a reader decides with a read flag it read
one step earlier. `ReadersSafe` states what that flag is worth (a reader whose
own flag was clear still has it clear, since only the writer clears and only the
reader sets it, and a reader that copies has its own flag clear in a written
chunk) and `WriterSafe` that the writer works in a chunk only while its written
flag is clear and that a written chunk is complete. With them the
writer cannot have passed `CanWrite` of a chunk that is being copied, and a
reader cannot start on a chunk that is being filled. `NextIInv` has one step per
action.

For the order, `Ordered` connects the ring with the log of enqueued messages:
the indices of writer and readers follow from how many messages were written and
taken (`Indices`); message i is in chunk i - 1 modulo the number of chunks
(`Slot`) as long as it is among the last `MaxChunks`, and the read flag of a
reader in that chunk is set just if it took the message (`RingHolds`); the local sockets hold the large messages between what a
reader has got and what was sent, in order (`LocalSockets`), the remote ones
everything after it (`RemoteSockets`). The arithmetic of the ring, that two
messages share a chunk only when they are `MaxChunks` apart, is in lemmas of its
own.

### DPWavesProofs
For every number of engines, front ends, requests and every period:

* `TypeCorrect`: `Spec => []TypeOK`; a request not answered yet has a step left;
* `AlwaysSameCollective`: `Spec => []SameCollective`;
* `CoordinatorAlwaysAgrees`: `Spec => []CoordinatorAgrees`.

The invariant `Lockstep` is that all step counters are equal and that an engine
is in the all-reduce only together with all others. `Forward`, `GoOn` and
`Pause` are the only actions that change counters, and they do so for all engines
at once; every other action moves one engine between `loop` and `forward`.

`CoordinatorAgrees` is about moments when nothing is on its way; its invariant,
`WaveInv`, says what is on its way at the others. All engines are in the same wave
and no message carries a later number than its source knows (`WavesBounded`).
A coordinator that is a wave behind has the completion of that wave in its queue
from engine 0 (`CompleteAnnounced`). A coordinator that believes the engines
paused while one of them, a front end or a request acts as if they ran has a
start request coming, from an engine or from a front end (`RunAnnounced`). When it
has started the wave, each engine runs, has the start message coming, or asked for
it itself (`AllStarted`), and one that asked is awake unless its requests were
withdrawn (`AskedAwake`). The last two are why the exception must name the engines
that asked: it is theirs alone.

### EncoderCacheProofs
For every set of requests, inputs, sizes of cache and budget and number of outputs
on their way, from `EncoderAssumption` and `InputAssumption`:

* `CountersCorrect`: `Spec => []CountersMatch`, under either policy, with and
  without a drafter;
* `SlotsCorrect`: `Spec => []SlotsMatchEntries` if `~Eagle`;
* `WorkerCorrect`: `Spec => []WorkerFollows` if `Policy` is `"FCFS"`;
* `NeverMissesCache`: `Spec => []NoCacheMiss` if `Policy` is `"FCFS"` and `~Eagle`;
* `NeverHoldAndWait`: `Spec => []NoHoldAndWait` if `~Eagle`.

The hypotheses exclude what section 3 describes, and no more: TLC refutes each of
these invariants on a small instance when one of its hypotheses is dropped.

The manager is one record, and `Sound(m)` says that its counters and lists are
those of its entries. `TouchSound`, `EvictSound`, `AllocateSound` and
`FreeSound` preserve it; that an eviction makes the room `can_allocate` promised is
`EvictSound`. The loop of `_try_schedule_encoder_inputs` is followed input by input
(`TryLoop`) with two facts about what it has decided so far: the new inputs are not
cached, fit into what is free, and their sizes are what the budget paid
(`Decided`); and every input that the tokens use, as far as the loop has come, is
referenced or among them (`Covered`). `Books` adds that what is decided for a
request still fits when the KV cache grants blocks, even though victims are
preempted in between; these only give slots back.

`Listed` says that a request is scheduled once in a step, before the index, which
moves back when a scheduled victim leaves the list (`PreemptListed`). The victim of
first come, first served, the last of the running list, is never one that
was scheduled (`VictimUnscheduled`), so what the manager counts for this step is
what the worker will compute. `Followed` is this equation in every state: what the
worker will hold after the outputs on their way (`Served`), without what was evicted
and with what is to be computed, is the entries of the manager. `Found` says that
the inputs of scheduled tokens are referenced, hence not evicted before the output
leaves, and that what each output looks up is there when its turn comes. The proofs
never speak of folds over the outputs; an entry is there if some output computed it
and none has dropped it since.

For `NoHoldAndWait`, `Windows` says that between two steps a running request refers
only to an input it stands in the middle of. If some request refers to an entry, it
stands in that input, finds it cached and can go on (`TryInputLater`). If
none does, all entries are freeable, and since one input fits into the cache any
request can go on (`TryInputFits`).

### Only model-checked
All liveness properties (`EveryRequestFinishes`, `EveryMessageDelivered`,
`ShutdownStopsReader`, `EveryRequestServed`): the prover handles neither fairness
nor `ENABLED`.

The provers cannot use an induction theorem with an operator for its parameter.
Where an induction over an interval is needed (a walk along the links, a ring, a
loop over inputs), `SetInduction` states it for a *set* of numbers, and is itself
proved by cardinality. `RECURSIVE` operators are avoided. A recursive function
(in `GetAllFreeBlocks` and in `EncoderCache`) has a value only if some function
satisfies its equation; the proofs give one or show that there is one for each
prefix of the interval (`FreeInputsSound`, `FreeScheduledSound`, `TryLoop`).

## 5. Not modelled, and the plan

Left out of the modelled parts: metrics, KV events, LoRA limits, speculative
and structured decoding, KV connectors and `skipped_waiting`, streaming
sessions, pausing; request counts and load balancing between engines, elastic
scaling; encoder-decoder models and masks of encoder inputs; the exchange of
handles when a message queue is set up.

Most of the repository is code without protocol state: model definitions,
kernels, quantisation, configuration, HTTP servers, examples, benchmarks, tests,
scripts and patched copies. A TLA+ model of it would restate arithmetic or
formatting. The map therefore covers a small share of all lines, and the larger
part of the files that decide the behaviour modelled here (`core/block_pool.py`,
`core/sched`, `shm_broadcast.py`, the wave logic of `coordinator.py`).

In this order:

1. KV connectors: blocked requests, delayed frees, invalid blocks; offloading
   managers (LRU, ARC);
2. Mamba and sliding-window groups, the hybrid coordinator's cache hit;
3. speculative tokens in the asynchronous scheduler; pausing;
4. micro-batching hand-over; output collectors and parallel sampling.
