# A TLA+ model of TransFormers-Fusion's concurrent core

TransFormers-Fusion is a C++ framework that trains and serves language models.
Most of its code is arithmetic over tensors. What can go wrong in ways that a
test would hardly reach is in the parts where threads, files and clients meet:
the collectives of data-parallel training, the parameter server and the rollout
buffer, the paged key/value cache and the expert pages with their background
loaders, and the two servers with their queues and admission control. These
parts are modelled here, checked with TLC on small instances, and their safety
properties are proved with TLAPS for all sizes.

Paths below are relative to the repository root.

## 1. Inventory

| Component | State | Operations | Interacts with | What is hard |
|---|---|---|---|---|
| `DistributedContext` (`src/trainer/distributed.cpp`) | `reduce_buffer_`, `reduce_cleared_`, barrier count and generation | `barrier`, `all_reduce`, `broadcast`, `all_gather` | threads that share the object; `DDPWrapper` | four sections and three barriers per call, threads racing into the next call |
| `RingAllReduce` (same file) | its own buffer and barrier | ring all-reduce and relatives | nobody calls it | ranks, slots and steps must fit together |
| `ParameterServer` (same file) | parameters with versions, async queue, stale queue | `push`, `pull`, `update_gradient`, async variants, `shutdown` | its worker thread | shutdown against the wait, dropped and repeated work, lock order |
| `PagedKVCacheBase`, `PagedKVCache4M`, `PagedKVCache1T` (`src/model/kv_cache.cpp`) | page tables, blocks, files, memory account, async queue and in-flight set | `append`, `get_range`, `prefetch`, `ensure_resident`, `flush_to_disk`, `load_from_disk`, `unload_memory`, `clear`, destruction | the caller, the load worker, the disk | eviction against access, failing I/O, accounting, waits with timeouts |
| `KVCache` (same file) | flat arrays under a mutex | `append`, reads | the attention layers | numeric only |
| `RateLimiter` (`src/server/http_server.cpp`) | a token bucket per address, the limits | `allow`, `set_limits` | worker threads, the clock | rounding, limits that change |
| `HTTPServer` (same file) | life-cycle flags, threads, connection queue, admission counter | `start`, `stop`, destruction, accept loop, workers, `set_max_concurrent` | clients, callbacks, `RateLimiter` | stop at any time, failing socket, cap changed in flight |
| `ModelServer` (`src/server/production_api.cpp`) | priority queue, workers, metrics | `submit`, `start`, `stop`, `unload_model` | callbacks, the model | stop with a queue, the model unloaded mid-batch |
| `PluginManager`, `ModelZoo`, `AppConfig`, `ModelHTTPServer` | lists, configuration | loading, scanning | the file system | I/O |
| `ZeroOptimizer` (`src/trainer/zero_optimizer_core.cpp`) | process-wide buffer and barrier | `reduce_scatter_grads`, `all_gather_params` | the ranks' optimizers | buffer never cleared, unequal barrier counts |
| `AsyncRolloutBuffer`, `RolloutWorker` (`src/trainer/rollout_worker.cpp`) | bounded ordered queue, `closed_` | `push`, `pop`, `close`, `produce_to` | producers and consumers | backpressure with bounded retries |
| `StreamingDataset` (`src/core/dataset.cpp`) | shards, two buffers, two mutexes | `next`, `refill`, `reset`, prefetch thread | the file system | lock order, self-deadlock |
| `ExpertPrefetcher` (`src/model/expert_prefetch.cpp`) | expert pages, LRU list, queue | `schedule_prefetch`, `get_expert_weights`, eviction | its worker, GPU memory | both sides load a page, a spin outside of the lock |
| `ExpertParallelManager` (`src/model/expert_parallel.cpp`) | nodes, expert assignment | add, remove, fail, rebalance | nobody uses it | self-deadlock, reassignment |
| `PagedAttention`, `ContinuousBatching`, `RequestScheduler`, `InferenceMemoryPool` (`src/inference/inference_paging.cpp`) | block lists, active batch, queue | `step`, allocate, free | nobody uses them | requests that finish together |
| `SpeculativeDecoder` (`src/inference/speculative_decoder.cpp`) | draft and target caches | `generate` | the models | caches in step with the accepted prefix |
| Everything else: layers, math, kernels, backends, codecs, tokenizer, adapters, multimodal, tools, engines | tensors | arithmetic, conversions | | out of TLC's reach, no protocol |

What makes the modelled parts correct:

- collectives: every rank gets the sum over all ranks, each contribution once;
  no rank leaves a barrier early and none stays in it;
- cache: an accepted token is never lost, reads return the latest token, the
  memory account is exact and within its budget, files and evicted blocks
  correspond, a failed allocation leaves no slot behind, every wait ends;
- rate limiter: from a bucket's first fill on, a client gets no more than its
  burst and the highest rate allow; in any stretch of time under unchanged limits
  no more than its burst and the rate in force; and rounding starves nobody;
- rollout buffer: a bounded first-in-first-out queue, a worker's trajectories in
  order and once, a `pop()` that returns false is final, no wake-up is lost;
- parameter server: a queued operation is processed once and in order, a gradient
  is applied once at its rate and at most once more as a stale one, no deadlock;
- model server: a callback is called once, the metrics count each request once
  and at the same place of its batch, submitted requests are answered, `stop()`
  returns;
- expert pages: the LRU list names exactly the resident pages, a race for a host
  buffer loses at most one per page, every request for a page returns;
- HTTP server: an accepted connection is handled once and closed, the cap on
  concurrent requests is exact, `stop()` returns, no thread is left unjoined.

`PROJECT.json` lists the hazards of the code line by line, each with the
properties that would catch it, or why none does yet.

## 2. Modules

| Module | Contents |
|---|---|
| `DistributedContext` | one action per critical section of the collectives |
| `MCDistributedContext` | the programs of collective calls TLC runs |
| `DistributedContextProofs` | types, lock step of the barrier, exact sums, exact buffer |
| `PagedKVCache` | the cache, its caller, its worker and the disk |
| `MCPagedKVCache` | instances |
| `PagedKVCacheProofs` | tracked requests, filled slots; tokens kept, latest reads, memory, budget and files |
| `RateLimiter` | the token bucket, in milliseconds |
| `MCRateLimiter` | instance |
| `RateLimiterProofs` | rate bound, bound of every stretch, no starvation |
| `HTTPServer` | life cycle, queue, pool, admission |
| `MCHTTPServer` | instances |
| `HTTPServerProofs` | types, exact slots, exact admission, connections tracked, aborts only after a failed socket |
| `FifoQueue` | abstract: what a bounded queue between threads promises |
| `RolloutBuffer` | `AsyncRolloutBuffer` and the retry loop of `produce_to`; `IsFifo` says that it implements `FifoQueue` |
| `MCRolloutBuffer` | instance |
| `RolloutBufferProofs` | types, refinement of `FifoQueue`, order of a worker's trajectories, finality of a false `pop()` |
| `ParameterServer`, `MCParameterServer` | parameters, the two queues, three mutexes, the worker; instance |
| `ParameterServerProofs` | operations once and in order, gradients once, types |
| `ModelServer`, `MCModelServer` | request queue, batches, callbacks, metrics; instance |
| `ModelServerProofs` | callbacks once, exact metrics, no raise of the peak lost |
| `ExpertPrefetcher`, `MCExpertPrefetcher` | expert pages, LRU list, prefetch thread; instance |
| `ExpertPrefetcherProofs` | exact LRU list, host buffers lost at most once per page |

The modules are independent of each other: in the code, too, the components
share no state. `HTTPServer` calls `RateLimiter::allow()` before it admits a
request, and only the outcome matters to it (a refused request is one of the
kind "bad"); `DDPWrapper::sync_gradients` is a program of `all_reduce` calls.
Operators named as mutants ("Mutant: ..." in their comments) are variants of a
definition with a plausible bug; no specification uses them. They show which
property would notice the bug.

### DistributedContext

Any number of threads share one context, as in `tests/test_all.cpp`, and run the
same program of calls. Every access to the buffer holds `reduce_mutex_` and every
access to the barrier holds `barrier_mutex_`, so a critical section is one
action: `AllReduceAdd`, `Copy`, `Clear`, `Arm`; `BroadcastWrite`, `Copy`,
`Return`; `AllGatherPut`, `Copy`, `Return`; and `BarrierArrive`, `BarrierOpen`
(the last arrival), `BarrierWake`. `call`, `passed` and `pc` say where a thread
is. A float is a formal sum, a count per thread and call of how often that
contribution was added, so that "the sum over all ranks" is one exact value.
Cells past `size` read 0 in `all_reduce`, which resizes with 0; a `broadcast`
that reads past the end of the vector gets any of the values in `Junk`.
`world_size_` is chosen among `WorldSizes` when the context is constructed; with 1
every call returns at once, with the caller's own array (`SingleRankReturn`).
`world_rank_` is a field of the shared object, hence the constant `WorldRank`: all
threads that share a context are the source of a broadcast or none is, and in
`all_gather` all write the same slot. Only threads that share one context meet in
a barrier; a `DDPWrapper` constructs a context of its own (line 130), so its
`sync_gradients()` with a world size above one waits for arrivals nobody makes.

### PagedKVCache

Two threads: the one caller the header allows, and the load worker. `mutex` is
`async_mtx_` across I/O. `append` and `get_range` run through `AppendKnown`,
`AppendNew`, `EnsureResident`, ..., `AppendWrite` or `AppendDrop`, and `GetStart`,
`GetLock`, `GetCopy`. An eviction is two steps, the file written (`EvictWrite`)
and the buffers dropped (`EvictDrop`), because `append` writes to a block without
a lock. Loading fails in `LoadGiveUp` (no room, an unwritable victim or an
unreadable file) and succeeds in `LoadRead`. `flush_to_disk`, `unload_memory` and
`clear` run on the caller and are used only while no request is outstanding
(`Bulk`), except `clear`, which the runs also try with requests still queued. An
append that reaches past the end of its block is cut off there, but advances
`current_pos` by all its tokens, as the code does. Destruction is two steps, as in
C++: the derived class goes first (`DestroyDerived`), its virtual `disk_name()` with
it, and then the base class tells the worker to stop and joins it (`Destroy`). The
worker drains its queue after the first step too, and a load that has to evict a
block for its room then asks for the path of a file (`kv_cache.cpp:715`, 872) and
calls a pure virtual function (`kv_cache.h:168`): `PureVirtual`, the end of the
process. `WorkerStops` names this outcome, and says when it is excluded. A file
that was read back is removed; the code does not look at the outcome of
`std::remove` (line 834), and in the model it succeeds: a file that stayed would be
overwritten by the block's next eviction. The
floats of a token are one tag; `last_access` stamps are only compared, so
`recency` keeps their order.

### RateLimiter

`allow()` reads the rate without a lock (`Enter`) and decides under `mtx_`
(`Allow`), and `set_limits()` may come in between. `Refilled` has the code's
rounding: whole tokens of `elapsed * rate / 1000`, and the bucket's clock moves
only when a token was refilled. The history variables `since`, `granted`,
`stretch`, `served` and `refused` record what the properties speak of; `stretch` is
a stretch of time under the present limits that may begin at any moment.

### HTTPServer

Threads: the owner (`Start`, `Stop`, the joins, `Destroy`), `server_loop` and the
workers. `server` and `worker[w].pc` are their program counters, "none" a thread
that is not joinable. `aborted` is `std::terminate`, which the C++ library calls
when a joinable thread is overwritten or destroyed. A request has one of four
kinds, which decide its way through `handle_request`: "bad" requests are answered
before authorization, "stranger" requests by it, "open" ones need no slot, "api"
ones go through `try_acquire_slot` and `release_slot`, each of which reads the cap
by itself. The compare-and-swap loop succeeds or fails in one step: a failed
exchange only repeats it with the current value. The waits are polls of a second,
so a missed notification is not modelled as a block: the wait ends by its timeout
(`WorkerIdle`, `ServerIdle`). Statistics and the other setters have no influence
on control and are left out.

The cap on concurrent requests is exact until a call of `set_max_concurrent` lifts
it or sets the first one; the history variable `steady` says so. From then on
`current_requests_` is off by the requests in flight, for good: `release_slot`
reads the cap again instead of remembering whether its request took a slot, and
`set_max_concurrent(0)` stores 0 into the counter, although a comment in
`http_server.cpp` (lines 188-190) calls the cap a hard one.

### RolloutBuffer and FifoQueue

Every method of the buffer is one critical section and one action; `pop()` sleeps
between two of them, is woken by `NotifyOne`, by `Close` or by nobody
(`Spurious`), and evaluates its predicate again. `queue_` is the map from sequence
numbers to trajectories, a trajectory a pair of worker and prompt. `produce_to` is
`Push` or `PushRefused`, then `CheckClosed`, `Retry` or `GiveUp`: after
`MaxRetries` (10000 in the code) refused attempts the trajectory is dropped,
although the comment at `rollout_worker.cpp:196` says that producers never lose
one. The refinement maps what was ever accepted to the popped trajectories
followed by what `replay()` would list, in the order of sequence numbers.

### ParameterServer

Callers and the worker process operations along the same actions (`ProcessPush`,
`GradUnknown`, `GradGlobal`, `GradStale`, `GradApply`); `th[t].op` is the operation a
thread has in hand. Only the worker takes operations from the queue (`WorkerTake`),
and only it drains the stale queue (`DrainLock`, `DrainApply`). Where two mutexes nest, taking each
one is a step. `async_mtx_` is held across steps only between the worker's look at
its predicate and its block (`WorkerWait`, `WorkerBlock`), which is where
`shutdown()`, notifying without the mutex, can be missed: the model contains this
lost wake-up, so no property claims that `shutdown()` returns. A parameter is
the push it was last set by and, per gradient, how often it was subtracted at its
learning rate and at 0.5. Every gradient of a known parameter is queued as stale
with the version it has just met, so that the code applies it twice, once at
each rate; `GradientOnce` states that it is never more. `flush_async`, `remove_param`
and `clear_params` are private and nobody calls them, so they are no actions. (Were
`flush_async` called, it would not wait for the operation the worker has in hand,
although the comment at `distributed.h:272` says "block until all pending ops are
processed".)

### ModelServer

`Take` is the critical section of `queue_mutex_`: the best requests by priority
and age, up to `MaxBatch`, or none after the timeout. The batch is counted, run
through the model, answered request by request and counted off, one action per
access to the atomics (`Count`, `LoadCurrent`, `Raise`, `Leave`). The model
returns or throws; a throw in the first pass counts the errors (`Failed`), takes the
batch off `current_requests` (`Uncount`) and only then calls the callbacks with
empty texts, one by one (`Excuse`, `ExcuseDone`); one in a later token of a long
request, or a model unloaded meanwhile, ends the process (`Crash`). A request is
counted as failed from the beginning of the catch block on and as served from the
end of its batch on (`Counted`), so the counts run ahead of the callbacks of a failed
batch and behind those of a good one. A batch that began without a model is
taken off `current_requests` without having been added: `CountsExact` is stated
while the model stays. Priorities and creation times decide which requests a batch
takes and who is left waiting; they are kept because they are control.

### ExpertPrefetcher

`mutex_` guards the list, the queue and `is_on_device`; the prefetch thread fills a
page without it, between `WorkerTake` and `WorkerPublish`: the test of `host_ptr`
(`WorkerCheck`), the allocation when there is none (`WorkerMalloc`), and the rest. A
getter spins on `transfer_in_progress` (`Spin`), takes the mutex, and finds the page
(`GetHit`) or loads it, the mutex held (`GetMiss` with the test, `GetMalloc`,
`GetLoad`). Between its spin and the mutex the prefetch thread may take the same
page, and then both fill it; the comment at lines 162-165 says that the double load
is gone, but `need_load` is unused and the load still runs under the mutex. When
both have found `host_ptr` null (lines 273-275) the second allocation overwrites the
first, which nobody frees or unpins any more. `mallocs` counts the allocations, and
`LostOnce` says that this happens at most once per page, because a host buffer stays
with its page through evictions. Pinning and the device buffer are left out:
`is_pinned` and `device_ptr` are raced on without a lock and decide nothing but their
own fate and which address is returned. `malloc` succeeds. `max_resident_` is at least 1 (`ConstantsAssumption`): with 0
`evict_lru` takes the front of an empty list.

## 3. Runs

Passing runs:

| Run | Instance | Shows |
|---|---|---|
| `Collectives` | 3 threads and world sizes 1 and 3, every program of 3 calls among `all_reduce` of 1 or 2 elements and `barrier`, and every mix with `broadcast` and `all_gather` in which no `all_reduce` comes after them | exact sums (`SumCorrect`), the buffer holds the call in progress and nothing else (`BufferExact`), threads stay in the same stretch between barriers (`LockStep`), all return (`Termination`) |
| `CacheBulk` | 2 layers of two-token blocks, room for 1 block, all whole-cache operations, any I/O failing | no accepted token lost (`TokensKept`), latest token read, exact account, budget kept across layers, files exact, no slot left without its block (`SlotsFilled`), through any sequence of operations |
| `CachePrefetch` | prefetches, timed-out waits, `clear` with requests queued, destruction | requests are tracked, waits end; on destruction the worker drains its queue and exits, or is terminated by a load that must evict, and exits for sure when no request was on its way |
| `Limits` | 2 concurrent callers for one client, rates 0, 1, 3, bursts 0, 2, pauses of 300, 400 and 1000 ms | `RateBound` and `NeverStarved` under changing limits, `StretchBound` for every stretch between two changes |
| `Serving` | 2 workers, 2 connections of every kind, caps 0, 1 and 2 with one change, the socket may fail | connections handled once and closed (`ConnsTracked`), exact slots and admission while `steady`, only a server whose socket failed can abort (`AbortsOnFailure`), accepted connections served, `stop()` returns |
| `Rollouts` | 2 workers of 3 prompts, 2 consumers, capacity 2, 2 attempts | the buffer is a bounded queue (`IsFifo`), `ProducerOrder`, `FalseMeansOver`; closing ends every consumer, everything accepted is taken |
| `AsyncUpdates` | 1 parameter, 2 callers, 4 calls, room for 2 stale gradients, lag 1 | `ExactlyOnce`, `InOrder`, `GradientOnce`; every queued operation is processed (`Processed`) |
| `Batching` | 2 workers, 3 requests, batches of 2, 2 starts | `CalledOnce`, `CountsExact`, `PeakCovers`; requests are answered, `stop()` returns |
| `ExpertPages` | 3 pages, room for 2, 2 getters, 4 calls | `LruExact`, `LostOnce`; every get returns, the destructor drains the queue |

Runs that find a disagreement between the code and what the repository says of it
(the quotes are under "findings" in `PROJECT.json`):

| Run | What TLC finds |
|---|---|
| `ReduceAfterBroadcast` | a broadcast leaves its array in the buffer, and the next `all_reduce` adds to it |
| `CacheContract` | with prefetching the worker evicts the block that `append` is writing to: the token is lost |
| `PortInUse` | after a failed `bind` the thread is never joined, and destruction or a second `start` ends the process |

Bounds. Three threads are the fewest with an opener, a sleeper and a thread still
on its way in one barrier, and three calls the fewest in which a call can be
disturbed by the one before and disturb the one after; for the rest the theorems
take over. Two blocks per layer and room for one or two make every reload evict;
`MaxId` ends a run after that many allocations. Two workers and two connections contend for one slot or share
two; two requests of different urgency and a third one make a full batch with one
waiting. Two consumers and a buffer of two let one sleep while the other takes;
three prompts let a worker meet a full buffer, give up and go on. Four calls are
the fewest with a push, a gradient in each of two threads and one more operation
queued behind them; a lag of 1 makes a stale gradient too old within them. Three pages and room
for two make every third load evict. The pauses leave the
bucket with 300, 400, 600, 700 and 900 thousandths of a token; `Horizon` lets it
be refilled in full more than once, `MaxGrants` bounds the history. Every other
bound is a small set of inputs.

Fairness. Every thread that can run is scheduled (weak fairness per thread: the
operating system's scheduler, and no lock is held for ever). Time-outs of
`ensure_resident` are not relied upon; the one-second polls of the HTTP server
and the `queue_wait_ms_` of the model server are, as the code is written to.
A free mutex is granted in the end; the model of `ModelServer` returns or throws.
Spurious wake-ups may come and are never relied upon. Nothing obliges a caller to call, the owner to
stop, or a client to connect. Deadlock checking is off where the system may
rest: threads that have returned from their program, a caller that calls nothing,
a stopped server.

## 4. Proofs

TLAPS checks these for every value of the constants that satisfies the named
assumption of the module (`ConstantsAssumption`: finite non-empty sets of threads,
numbers that are naturals, and so on).

`DistributedContextProofs`. `TypeCorrect` holds for all instances; its invariant
adds `Position`: a thread is in a barrier only in a call that has one left to
pass. `BarrierCorrect` (`LockStep`) assumes what the code is made for, that
exactly `world_size_` > 1 threads share the context. `LockStep` alone is not
inductive, because the last arrival must know that the others are asleep in the
same generation: `BarrierInv` adds that `barrier_count_` is the number of
sleepers. `ReductionCorrect` (`SumCorrect`) and `BufferCorrect` (`BufferExact`)
assume programs of `all_reduce` and `barrier` only; `ReduceAfterBroadcast` shows
that this is needed. `ReduceInv` adds what the one-clearer flag means: it is up
only between the first clear of a call and the last thread's departure from it
(`FlagUp`), it is up once a thread has left the clearing section (`FlagSet`), and
the vector is long enough for what the clearing section clears (`LongEnough`).
The proof has a lemma per section.

`RateLimiterProofs`. `RateBound` is not inductive: a bucket full of tokens could
be granted at once. `Account` charges the tokens left as well, and only against
the time up to the last refill, since the time after it has not been turned into
tokens yet; a refill is rounded down and so never credits more than it uses up.
`Stretches` keeps the same account from a stretch's first grant on, at the rate in
force. The bucket's clock may then stand before the stretch, by less than a token:
that fraction is no extra, because a bucket in use is not full.
`Clocks` says that a bucket's clock moves only together with a grant, which bounds
how long a client can be refused. The call that looked for a limit before it was
lifted is included: its bucket may have capacity 0 (`Unused`).

`HTTPServerProofs`. `TypeCorrect`, `SlotsAreExact` and `AdmissionIsExact` are
unconditional, for any set of caps; the properties themselves speak of the time
up to the first call that lifts the cap or sets the first one (`steady`). The
invariant adds `Pool`: the pool is started and discarded only when none of its
threads runs, so that no slot is lost with a worker. `ConnsAreTracked`
(`ConnsTracked`) needs `Pool` for the same reason, and is proved in the form
`Tracked`, which says with quantifiers what the property says with cardinalities.
`AbortsOnlyOnFailure` (`AbortsOnFailure`) adds `Cycle`: outside of `stop()` the
accepting thread of a running server is in its loop, and one that has ended has
ended by itself, before anybody asked for it.

`RolloutBufferProofs`. The type invariant carries the argument: the numbers in
`queue_` are exactly those from `Len(popped)` to `next_seq_ - 1`, so the first
number is the next to be delivered. From it `BufferIsFifo` shows that every step of
the buffer is a step of `FifoQueue` or a stutter: a push appends to `Accepted`,
and a pop moves its boundary without changing it. `FalseIsFinal` needs nothing
more. `WorkersInOrder` adds that every accepted trajectory belongs to a prompt
its worker has left behind, which a retry cannot break because a refused push
leaves nothing in the queue.

`PagedKVCacheProofs`. `RequestsTracked` (`InflightTracked`) holds for every use of
the cache, with prefetches, timed-out waits, `clear()` and destruction, the terminated process
included, and so does `SlotsAreFilled` (`SlotsFilled`). Their
invariant `Inv` says that an id is handed out once between two calls of `clear()`
and no two slots of a page table share a block (`Fresh`), that every block has a
stamp (`Stamps`), where the two threads are and on which block they work (`Jobs`,
`Caller`), and that queue and worker share the requests out (`Requests`). Only an `append` to
a new block, the two ends of its allocation and `clear()` touch what `SlotsFilled`
speaks of, and the slot that a failed allocation takes back is the one it made
(`Fresh`); every other step leaves it alone by one lemma. The
other five theorems, `TokensAreKept`, `ReadsAreLatest`, `MemoryCounted`,
`BudgetKept` and `FilesMatch`, assume `~Prefetching` and `~Timeouts`: a caller
that does not prefetch and whose waits end by the worker's answer. The assumption
is needed: the run `CacheContract` loses a token without it, and the account goes
wrong too, when both threads evict the same block. Under the assumption everything else is free: number of layers, blocks, ids, block size, budget, any
sequence of operations, any I/O failing. The argument is `Exclusive`: the worker
works only for the block the caller is waiting for, so at no moment do the two
threads touch the store together. Hence nobody writes to a block between the two
steps of its eviction (`WrittenOut`), and `Content` is inductive: a position holds
the last tag accepted there, in memory or in the file of its block, and a position
without a block was never written. `Memory` counts through the blocks that
come or go in a step: one, the set that a whole-cache operation has written out,
or all of them in `clear()`.

`ParameterServerProofs`. All four theorems are unconditional. `ExactlyOnce` and
`InOrder` follow from `Placed` and `Older`: an operation is in the queue, in the
hands of one thread, or processed, one of these only; the queue is in the order of
the calls, and what has left it is older than what is in it. A thread takes an
operation only when it has none in hand (`BusyExactly`); otherwise it would lose one.
`GradientOnce` adds `Gradients`: only processed gradients have reached a parameter or
the stale queue, which names each of them once, and one that still waits there was
not yet applied at 0.5. `Mutexes` ties the owners of the two nested mutexes to places
in the code, so that two threads never share a section.

`ModelServerProofs`. `Batched` says who has which request and how far it has come;
batches of two workers are disjoint, and a start replaces the workers only when
all have left (`Life`). `CalledOnce` follows with `Called`. `Counts` is `CountsExact`
by cardinalities of disjoint batches, a failed one counted from its catch block on. `Peaks`: the peak only grows, so a worker
that does not raise it has seen one at least as high, and a failed exchange is
repeated with the current value. `CallbacksOnce` and `PeakKept` hold with and without
a model; `CountsExact` itself speaks of the time until the model is unloaded.

`ExpertPrefetcherProofs`. `LruExact` rests on `Loader`: a getter that misses holds the
mutex while it loads, so that no other thread makes the page resident meanwhile
and its `push_back` adds no second entry; the prefetch thread has no such
exclusion, and is safe because it searches the list. `LostOnce` rests on `Allocs`: the
allocations made for a page and those about to be made, by the prefetch thread and
by the one getter that can be loading, are never more than two.

With this every invariant and every safety action property that a run checks is a
theorem. Only model-checked: liveness (`Termination`, `WaitEnds`, `WorkerStops`,
`CloseEnds`, `AllTaken`, `Processed`, `GetReturns`, `StopDrains`, `Served`,
`StopReturns`), since fairness and ENABLED are beyond the prover; the cache with
prefetches and timeouts beyond `InflightTracked`; what single ranks return. The type
invariants of `DistributedContext`, `RateLimiter`, `HTTPServer`, `RolloutBuffer` and
`ParameterServer` are proved. Those of `PagedKVCache`, `ModelServer` and
`ExpertPrefetcher` are proved in the parts their other theorems need (`Tables`,
`Blocks`, `Jobs`; `Types`; `Loader`), not as a whole.

## 5. Not modelled

Arithmetic on tensors, quantisation, tokenization, parsing and formatting; the
statistics counters; object lifetime in C++ beyond joinable threads and the two
destructors of the cache (`clear()` frees blocks the worker may be reading: undefined
behaviour without a set of outcomes to choose from); functions that are private and
called by nobody (`flush_async`, `remove_param`, `clear_params`); the pinning and the
device buffers of expert pages; exceptions thrown by an embedder's
callbacks; the lifetime of a page's pointer after `get_expert_weights` has returned
it; operations still queued at `shutdown()` and connections still queued at
`stop()`, of which the code promises nothing; integer overflow of counters that would need 2^31 events; memory growth
of `buckets_`. Components without a module are listed with the reason in
`PROJECT.json`. Some have no use in the repository to check a model against:
`StreamingDataset` (whose `reset()` locks its own mutex twice, at
`dataset.cpp:444`), `ExpertParallelManager` (`remove_node()`, the same, at
`expert_parallel.cpp:832`), `RingAllReduce`, `PagedAttention` and its companions.

The repository has some 124,000 lines, and nearly all of them are kernels, layers,
codecs, backends and numeric training loops: functions from tensors to tensors,
without state that outlives a call or threads that meet. The modules cover the
files where that is different; a larger share of the lines could only be had by
modelling arithmetic, which TLC cannot check.

## 6. Plan

1. The whole type invariants of `PagedKVCache`, `ModelServer` and `ExpertPrefetcher`.
2. `ZeroOptimizer` on its process-wide barrier: its buffer is never cleared
   (`zero_optimizer_core.cpp:200`), and ranks that own different numbers of
   parameters do not meet (line 302).
3. `SpeculativeDecoder`: the two caches against the accepted prefix.
