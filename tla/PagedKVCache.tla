---------------------------- MODULE PagedKVCache ----------------------------
(***************************************************************************)
(* PagedKVCacheBase with the page tables of PagedKVCache4M/1T              *)
(* (src/model/kv_cache.cpp): a paged key/value cache whose blocks are in   *)
(* memory or in a file each, a memory budget enforced by evicting the      *)
(* least recently used block, and a background worker that loads blocks.   *)
(*                                                                         *)
(* Two threads: the single caller the header's threading contract allows,  *)
(* and the worker.  async_mtx_ is `mutex`; a section under it that does no *)
(* I/O is one atomic action.  An eviction is two steps, the file is        *)
(* written and then the buffers are dropped, because append() writes to a  *)
(* block without taking the mutex.  Every read and write of a file may     *)
(* fail; removing one succeeds (the code does not look: a file that stays  *)
(* is overwritten by the next eviction of its block).                      *)
(*                                                                         *)
(* A token's key and value floats are one tag, 0 for the zero fill of a    *)
(* new block.  last_access stamps are only compared, so `recency` keeps    *)
(* the blocks in the order of their stamps.                                *)
(***************************************************************************)
EXTENDS Integers, Sequences, FiniteSets, SequencesExt

CONSTANTS
    Layers,       \* the layers of the cache, numbered from 0
    BlockIndexes, \* the logical blocks of a layer the caller uses, from 0
    BlockSize,    \* block_size_, in tokens
    Limit,        \* physical_memory_limit_ in whole blocks, 0: no limit
    MaxId,        \* bound: ids handed out between two clear() calls
    Tags,         \* what the caller appends
    Prefetching,  \* whether the caller uses prefetch()/prefetch_range()
    Timeouts,     \* whether a wait of ensure_resident() may run into its timeout
    Bulk          \* the whole-cache operations the caller uses

NoId == -1
Ids == 0 .. MaxId - 1
Offsets == 0 .. BlockSize - 1
Positions == {b * BlockSize + o : b \in BlockIndexes, o \in Offsets}
Contents == [Offsets -> Tags \cup {0}]
Blank == [o \in Offsets |-> 0]
Keys == Layers \X Ids
BulkOps == {"flush_to_disk", "load_from_disk", "unload_memory", "clear"}

ASSUME ConstantsAssumption ==
    /\ BlockSize \in Nat \ {0} /\ Limit \in Nat /\ MaxId \in Nat
    /\ Layers \subseteq Nat /\ BlockIndexes \subseteq Nat /\ 0 \notin Tags
    /\ Prefetching \in BOOLEAN /\ Timeouts \in BOOLEAN /\ Bulk \subseteq BulkOps
    /\ Prefetching \/ Timeouts => Bulk \subseteq {"clear"}

VARIABLES
    table,        \* the page tables: table[l][b] is a block id, or NoId
    blocks,       \* blocks[l]: LayerState::blocks, a function on a set of ids
    current_pos,
    files,        \* the disk: block key -> contents
    recency,      \* block keys, least recently accessed first
    current_memory_used_, \* in blocks
    next_block_id_,
    async_queue_, async_inflight_, async_stop_,
    destroyed,    \* the derived class is gone: disk_name() is pure virtual
    mutex,        \* the thread that holds async_mtx_ across I/O, or "free"
    job,          \* job[p]: where thread p is, and the block it works on
    arg,          \* the arguments of the caller's operation
    written,      \* history: the last tag accepted at each position
    got           \* history: what the last get_range() copied out

cacheVars == <<table, blocks, current_pos, files, recency, current_memory_used_,
               next_block_id_>>
asyncVars == <<async_queue_, async_inflight_, async_stop_, destroyed>>
vars == <<cacheVars, asyncVars, mutex, job, arg, written, got>>

-----------------------------------------------------------------------------
(* Blocks.                                                                 *)

NewBlock == [dirty |-> FALSE, on_disk |-> FALSE, data |-> Blank]
HasBlock(l, id) == id \in DOMAIN blocks[l]
OnDisk(l, id) == HasBlock(l, id) /\ blocks[l][id].on_disk
Resident(l) == {id \in DOMAIN blocks[l] : ~blocks[l][id].on_disk}
AllResident == {k \in Keys : k[2] \in Resident(k[1])}
AllOnDisk == {k \in Keys : OnDisk(k[1], k[2])}

\* resolve_block_id
Resolve(l, pos) == table[l][pos \div BlockSize]

\* last_access = ++access_counter_
Touch(key) == recency' = Append(RemoveFirst(recency, key), key)

\* evict_lru_locked's choice: the resident block of the layer with the oldest stamp.
LruOf(l) ==
    LET is == {i \in 1 .. Len(recency) : recency[i][1] = l /\ recency[i][2] \in Resident(l)}
    IN  recency[CHOOSE i \in is : \A j \in is : i <= j][2]

\* Mutant: the block to come is not counted.
OverBudgetLate == Limit > 0 /\ current_memory_used_ > Limit

\* One more block would exceed the budget.
OverBudget == Limit > 0 /\ current_memory_used_ + 1 > Limit

WithBlock(l, id, blk) ==
    [blocks EXCEPT ![l] = [i \in DOMAIN blocks[l] \cup {id} |->
                             IF i = id THEN blk ELSE blocks[l][i]]]

WithFile(key, c) == [k \in DOMAIN files \cup {key} |-> IF k = key THEN c ELSE files[k]]
WithoutFiles(ks) == [k \in DOMAIN files \ ks |-> files[k]]

\* The blocks of a set of keys after evict_to_disk_locked succeeded on each.
Evicted(ks) ==
    [l \in Layers |-> [id \in DOMAIN blocks[l] |->
        IF <<l, id>> \in ks THEN [blocks[l][id] EXCEPT !.on_disk = TRUE, !.data = Blank]
                            ELSE blocks[l][id]]]

\* current_memory_used_ is subtracted from without wrapping below 0.
MemoryLess(n) == IF current_memory_used_ >= n THEN current_memory_used_ - n ELSE 0

Threads == {"caller", "worker"}
Idle == [pc |-> "idle", layer |-> 0, id |-> NoId, victim |-> NoId, back |-> "idle"]
NoArg == [op |-> "none", pos |-> 0, n |-> 0, tag |-> 0, todo |-> {}]
At(p, label) == job[p].pc = label
GoTo(p, label) == job' = [job EXCEPT ![p].pc = label]

-----------------------------------------------------------------------------
(* The eviction loop of load_from_disk_locked and alloc_block_id.          *)

\* A round of the loop has a block to evict, and a reason.
EvictDue(p) ==
    /\ At(p, "alloc") \/ (At(p, "load") /\ OnDisk(job[p].layer, job[p].id))
    /\ OverBudget /\ Resident(job[p].layer) # {}

\* evict_to_disk_locked, up to the closed file.
EvictWrite(p) ==
    /\ EvictDue(p) /\ ~destroyed
    /\ LET l == job[p].layer
           v == LruOf(l)
       IN  /\ files' = WithFile(<<l, v>>, blocks[l][v].data)
           /\ job' = [job EXCEPT ![p].pc = "evict", ![p].victim = v, ![p].back = job[p].pc]
    /\ UNCHANGED <<table, blocks, current_pos, recency, current_memory_used_,
                   next_block_id_, asyncVars, mutex, arg, written, got>>

\* evict_to_disk_locked, from the memory accounting on.
EvictDrop(p) ==
    /\ At(p, "evict")
    /\ blocks' = Evicted({<<job[p].layer, job[p].victim>>})
    /\ current_memory_used_' = MemoryLess(1)
    /\ job' = [job EXCEPT ![p].pc = job[p].back, ![p].victim = NoId]
    /\ UNCHANGED <<table, current_pos, files, recency, next_block_id_, asyncVars,
                   mutex, arg, written, got>>

\* block_disk_path(), under a destructor: the pure virtual disk_name() is called,
\* and the process is terminated.  The worker keeps the mutex, so that nobody
\* takes another step.
PureVirtual ==
    /\ EvictDue("worker") /\ destroyed
    /\ GoTo("worker", "terminated")
    /\ UNCHANGED <<cacheVars, asyncVars, mutex, arg, written, got>>

-----------------------------------------------------------------------------
(* load_from_disk_locked.                                                  *)

Release(p) == mutex' = IF mutex = p THEN "free" ELSE mutex

\* Mutant: a load that fails removes the file.
LoadGiveUpUnlinks(p) ==
    /\ At(p, "load") /\ ~(EvictDue(p) /\ destroyed)
    /\ files' = WithoutFiles({<<job[p].layer, job[p].id>>})
    /\ GoTo(p, "loaded")
    /\ Release(p)
    /\ UNCHANGED <<table, blocks, current_pos, recency, current_memory_used_,
                   next_block_id_, asyncVars, arg, written, got>>

\* Nothing to load, no room and no progress (nothing to evict, or the write
\* failed), or the file could not be read: the block stays as it is.
LoadGiveUp(p) ==
    /\ At(p, "load") /\ ~(EvictDue(p) /\ destroyed)
    /\ GoTo(p, "loaded")
    /\ Release(p)
    /\ UNCHANGED <<cacheVars, asyncVars, arg, written, got>>

\* Mutant: the loaded block is not charged to the budget.
LoadReadUncounted(p) ==
    /\ At(p, "load")
    /\ OnDisk(job[p].layer, job[p].id)
    /\ ~OverBudget
    /\ LET key == <<job[p].layer, job[p].id>>
       IN  /\ key \in DOMAIN files
           /\ blocks' = [blocks EXCEPT ![key[1]][key[2]].on_disk = FALSE,
                                       ![key[1]][key[2]].data = files[key]]
           /\ files' = WithoutFiles({key})
    /\ GoTo(p, "loaded")
    /\ Release(p)
    /\ UNCHANGED <<table, current_pos, recency, current_memory_used_, next_block_id_,
                   asyncVars, arg, written, got>>

\* Mutant: the file outlives the load.
LoadReadKeepsFile(p) ==
    /\ At(p, "load")
    /\ OnDisk(job[p].layer, job[p].id)
    /\ ~OverBudget
    /\ LET key == <<job[p].layer, job[p].id>>
       IN  /\ key \in DOMAIN files
           /\ blocks' = [blocks EXCEPT ![key[1]][key[2]].on_disk = FALSE,
                                       ![key[1]][key[2]].data = files[key]]
    /\ current_memory_used_' = current_memory_used_ + 1
    /\ GoTo(p, "loaded")
    /\ Release(p)
    /\ UNCHANGED <<table, current_pos, files, recency, next_block_id_, asyncVars, arg,
                   written, got>>

\* The block is committed, charged, and its file removed.
LoadRead(p) ==
    /\ At(p, "load")
    /\ OnDisk(job[p].layer, job[p].id)
    /\ ~OverBudget
    /\ LET key == <<job[p].layer, job[p].id>>
       IN  /\ key \in DOMAIN files
           /\ blocks' = [blocks EXCEPT ![key[1]][key[2]].on_disk = FALSE,
                                       ![key[1]][key[2]].data = files[key]]
           /\ files' = WithoutFiles({key})
    /\ current_memory_used_' = current_memory_used_ + 1
    /\ GoTo(p, "loaded")
    /\ Release(p)
    /\ UNCHANGED <<table, current_pos, recency, next_block_id_, asyncVars, arg, written, got>>

-----------------------------------------------------------------------------
(* The worker: async_worker_loop.                                          *)

\* Mutant: told to stop, the worker leaves the rest of its queue.
WorkerPopUntilStop ==
    /\ At("worker", "idle") /\ mutex = "free"
    /\ async_queue_ # <<>> /\ ~async_stop_
    /\ async_queue_' = Tail(async_queue_)
    /\ job' = [job EXCEPT !["worker"] = [Idle EXCEPT !.pc = "lock",
                 !.layer = Head(async_queue_)[1], !.id = Head(async_queue_)[2]]]
    /\ UNCHANGED <<cacheVars, async_inflight_, async_stop_, destroyed, mutex, arg, written, got>>

WorkerPop ==
    /\ At("worker", "idle") /\ mutex = "free"
    /\ async_queue_ # <<>>
    /\ async_queue_' = Tail(async_queue_)
    /\ job' = [job EXCEPT !["worker"] = [Idle EXCEPT !.pc = "lock",
                 !.layer = Head(async_queue_)[1], !.id = Head(async_queue_)[2]]]
    /\ UNCHANGED <<cacheVars, async_inflight_, async_stop_, destroyed, mutex, arg, written, got>>

WorkerLock ==
    /\ At("worker", "lock") /\ mutex = "free"
    /\ mutex' = "worker"
    /\ GoTo("worker", "load")
    /\ UNCHANGED <<cacheVars, asyncVars, arg, written, got>>

\* Mutant: the request stays in async_inflight_.
WorkerDoneKeepsInflight ==
    /\ At("worker", "loaded") /\ mutex = "free"
    /\ job' = [job EXCEPT !["worker"] = Idle]
    /\ UNCHANGED <<cacheVars, asyncVars, mutex, arg, written, got>>

\* Erase the request from async_inflight_ and notify the waiters.
WorkerDone ==
    /\ At("worker", "loaded") /\ mutex = "free"
    /\ async_inflight_' = async_inflight_ \ {<<job["worker"].layer, job["worker"].id>>}
    /\ job' = [job EXCEPT !["worker"] = Idle]
    /\ UNCHANGED <<cacheVars, async_queue_, async_stop_, destroyed, mutex, arg, written, got>>

\* Drained and told to stop.
WorkerExit ==
    /\ At("worker", "idle") /\ mutex = "free"
    /\ async_queue_ = <<>> /\ async_stop_
    /\ GoTo("worker", "exited")
    /\ UNCHANGED <<cacheVars, asyncVars, mutex, arg, written, got>>

-----------------------------------------------------------------------------
(* enqueue_async and its users.                                            *)

\* Mutant: a request already on its way is queued again.
EnqueueTwice(key) ==
    /\ async_queue_' = Append(async_queue_, key)
    /\ async_inflight_' = async_inflight_ \cup {key}

Enqueue(key) ==
    IF key \in async_inflight_
    THEN UNCHANGED <<async_queue_, async_inflight_>>
    ELSE /\ async_queue_' = Append(async_queue_, key)
         /\ async_inflight_' = async_inflight_ \cup {key}

CallerFree == At("caller", "idle") /\ ~destroyed

\* prefetch(), one block of prefetch_range().  Its two critical sections are one
\* step: a load that ends between them would only make the request a no-op.
Prefetch(l, b) ==
    /\ Prefetching /\ CallerFree /\ mutex = "free"
    /\ table[l][b] # NoId
    /\ table[l][b] \notin Resident(l)
    /\ Enqueue(<<l, table[l][b]>>)
    /\ UNCHANGED <<cacheVars, async_stop_, destroyed, mutex, job, arg, written, got>>

-----------------------------------------------------------------------------
(* append().                                                               *)

\* A known block, resident or to be waited for.
AppendKnown(l, pos, n, tag) ==
    /\ CallerFree
    /\ Resolve(l, pos) # NoId /\ HasBlock(l, Resolve(l, pos))
    /\ arg' = [NoArg EXCEPT !.op = "append", !.pos = pos, !.n = n, !.tag = tag]
    /\ job' = [job EXCEPT !["caller"] = [Idle EXCEPT !.layer = l, !.id = Resolve(l, pos),
                 !.pc = IF OnDisk(l, Resolve(l, pos)) THEN "ensure" ELSE "write"]]
    /\ got' = {}
    /\ UNCHANGED <<cacheVars, asyncVars, mutex, written>>

\* alloc_block_id, up to its eviction loop: the slot is taken, the block is
\* stamped, and an id is used up whether or not the block will fit.
AppendNew(l, pos, n, tag) ==
    /\ CallerFree
    /\ Resolve(l, pos) = NoId
    /\ next_block_id_ < MaxId
    /\ arg' = [NoArg EXCEPT !.op = "append", !.pos = pos, !.n = n, !.tag = tag]
    /\ table' = [table EXCEPT ![l][pos \div BlockSize] = next_block_id_]
    /\ next_block_id_' = next_block_id_ + 1
    /\ job' = [job EXCEPT !["caller"] =
                 [Idle EXCEPT !.pc = "alloc", !.layer = l, !.id = next_block_id_]]
    /\ got' = {}
    /\ UNCHANGED <<blocks, current_pos, files, recency, current_memory_used_, asyncVars,
                   mutex, written>>

\* Mutant: the slot is not rolled back.
AllocFailKeepsSlot ==
    /\ At("caller", "alloc") /\ OverBudget
    /\ job' = [job EXCEPT !["caller"] = Idle]
    /\ arg' = NoArg
    /\ UNCHANGED <<cacheVars, asyncVars, mutex, written, got>>

\* No room and no progress: roll the slot back; append() drops the tokens.
AllocFail ==
    /\ At("caller", "alloc") /\ OverBudget
    /\ table' = [table EXCEPT ![job["caller"].layer][arg.pos \div BlockSize] = NoId]
    /\ job' = [job EXCEPT !["caller"] = Idle]
    /\ arg' = NoArg
    /\ UNCHANGED <<blocks, current_pos, files, recency, current_memory_used_,
                   next_block_id_, asyncVars, mutex, written, got>>

AllocInsert ==
    /\ At("caller", "alloc") /\ ~OverBudget
    /\ LET l == job["caller"].layer
           id == job["caller"].id
       IN  blocks' = WithBlock(l, id, NewBlock) /\ Touch(<<l, id>>)
    /\ current_memory_used_' = current_memory_used_ + 1
    /\ GoTo("caller", "write")
    /\ UNCHANGED <<table, current_pos, files, next_block_id_, asyncVars, mutex, arg,
                   written, got>>

\* ensure_resident: the worker has loaded the block meanwhile.
EnsureResident ==
    /\ At("caller", "ensure") /\ mutex = "free"
    /\ job["caller"].id \in Resident(job["caller"].layer)
    /\ GoTo("caller", "write")
    /\ UNCHANGED <<cacheVars, asyncVars, mutex, arg, written, got>>

\* ensure_resident: the block was on disk when it looked, just before or as far
\* back as AppendKnown; queue the request, unless it is on its way already.
EnsureEnqueue ==
    /\ At("caller", "ensure") /\ mutex = "free"
    /\ Enqueue(<<job["caller"].layer, job["caller"].id>>)
    /\ GoTo("caller", "wait")
    /\ UNCHANGED <<cacheVars, async_stop_, destroyed, mutex, arg, written, got>>

\* async_done_cv_: the request has drained.  The state of the block, not the
\* request, decides: a failed load is dropped by append().
EnsureWake ==
    /\ At("caller", "wait") /\ mutex = "free"
    /\ <<job["caller"].layer, job["caller"].id>> \notin async_inflight_
    /\ GoTo("caller", "write")
    /\ UNCHANGED <<cacheVars, asyncVars, mutex, arg, written, got>>

\* The wait timed out with the request still in flight: append() returns.
EnsureTimeout ==
    /\ Timeouts
    /\ At("caller", "wait") /\ mutex = "free"
    /\ <<job["caller"].layer, job["caller"].id>> \in async_inflight_
    /\ job' = [job EXCEPT !["caller"] = Idle]
    /\ arg' = NoArg
    /\ UNCHANGED <<cacheVars, asyncVars, mutex, written, got>>

Copied(o) == {q \in Offsets : o <= q /\ q < o + arg.n}

\* The resident check, the stamps and the copy, cut off at the end of the
\* block; current_pos advances by the tokens handed in.  Nothing is locked.
AppendWrite ==
    LET l == job["caller"].layer
        id == job["caller"].id
        o == arg.pos % BlockSize
        base == arg.pos - o
        end == arg.pos + arg.n
    IN  /\ At("caller", "write") /\ id \in Resident(l)
        /\ blocks' = [blocks EXCEPT ![l][id].dirty = TRUE,
                        ![l][id].data = [q \in Offsets |-> IF q \in Copied(o) THEN arg.tag
                                                                             ELSE @[q]]]
        /\ Touch(<<l, id>>)
        /\ current_pos' = [current_pos EXCEPT ![l] = IF end > @ THEN end ELSE @]
        /\ written' = [written EXCEPT ![l] = [p \in Positions |->
                         IF p - base \in Copied(o) THEN arg.tag ELSE @[p]]]
        /\ job' = [job EXCEPT !["caller"] = Idle]
        /\ arg' = NoArg
        /\ UNCHANGED <<table, files, current_memory_used_, next_block_id_, asyncVars,
                       mutex, got>>

\* The block is still, or again, on disk: append() drops the tokens.
AppendDrop ==
    /\ At("caller", "write") /\ job["caller"].id \notin Resident(job["caller"].layer)
    /\ job' = [job EXCEPT !["caller"] = Idle]
    /\ arg' = NoArg
    /\ UNCHANGED <<cacheVars, asyncVars, mutex, written, got>>

-----------------------------------------------------------------------------
(* get_range(), one position at a time.                                    *)

GetStart(l, pos) ==
    /\ CallerFree
    /\ pos < current_pos[l] /\ Resolve(l, pos) # NoId /\ HasBlock(l, Resolve(l, pos))
    /\ arg' = [NoArg EXCEPT !.op = "get_range", !.pos = pos]
    /\ job' = [job EXCEPT !["caller"] = [Idle EXCEPT !.layer = l, !.id = Resolve(l, pos),
                 !.pc = IF OnDisk(l, Resolve(l, pos)) THEN "lock" ELSE "loaded"]]
    /\ got' = {}
    /\ UNCHANGED <<cacheVars, asyncVars, mutex, written>>

GetLock ==
    /\ At("caller", "lock") /\ mutex = "free"
    /\ mutex' = "caller"
    /\ GoTo("caller", "load")
    /\ UNCHANGED <<cacheVars, asyncVars, arg, written, got>>

\* Mutant: the outcome of the load is not looked at.
GetCopyUnchecked ==
    LET l == job["caller"].layer
        id == job["caller"].id
    IN  /\ At("caller", "loaded") /\ arg.op = "get_range"
        /\ Touch(<<l, id>>)
        /\ got' = {<<l, arg.pos, blocks[l][id].data[arg.pos % BlockSize]>>}
        /\ job' = [job EXCEPT !["caller"] = Idle]
        /\ arg' = NoArg
        /\ UNCHANGED <<table, blocks, current_pos, files, current_memory_used_,
                       next_block_id_, asyncVars, mutex, written>>

\* Copy the token out, or skip the position when the load failed.
GetCopy ==
    LET l == job["caller"].layer
        id == job["caller"].id
    IN  /\ At("caller", "loaded") /\ arg.op = "get_range"
        /\ IF id \in Resident(l)
           THEN /\ Touch(<<l, id>>)
                /\ got' = {<<l, arg.pos, blocks[l][id].data[arg.pos % BlockSize]>>}
           ELSE UNCHANGED <<recency, got>>
        /\ job' = [job EXCEPT !["caller"] = Idle]
        /\ arg' = NoArg
        /\ UNCHANGED <<table, blocks, current_pos, files, current_memory_used_,
                       next_block_id_, asyncVars, mutex, written>>

-----------------------------------------------------------------------------
(* The whole-cache operations.  None of them takes async_mtx_.  Flushing   *)
(* and unloading are one step each: ConstantsAssumption keeps them to      *)
(* instances in which the worker is idle whenever the caller is.           *)

\* Evict the blocks of ks whose write succeeds.
EvictAll(ks) ==
    /\ files' = [k \in DOMAIN files \cup ks |->
                   IF k \in ks THEN blocks[k[1]][k[2]].data ELSE files[k]]
    /\ blocks' = Evicted(ks)
    /\ current_memory_used_' = MemoryLess(Cardinality(ks))
    /\ UNCHANGED <<table, current_pos, recency, next_block_id_, asyncVars, mutex, job,
                   arg, written, got>>

FlushToDisk ==
    /\ "flush_to_disk" \in Bulk /\ CallerFree
    /\ \E ks \in SUBSET {k \in AllResident : blocks[k[1]][k[2]].dirty} : EvictAll(ks)

UnloadMemory ==
    /\ "unload_memory" \in Bulk /\ CallerFree
    /\ \E ks \in SUBSET AllResident : EvictAll(ks)

\* load_from_disk(): every block that is on disk when the loop reaches it.
LoadAllStart ==
    /\ "load_from_disk" \in Bulk /\ CallerFree
    /\ arg' = [NoArg EXCEPT !.op = "load_from_disk",
                            !.todo = {k \in Keys : HasBlock(k[1], k[2])}]
    /\ job' = [job EXCEPT !["caller"] = [Idle EXCEPT !.pc = "loaded"]]
    /\ UNCHANGED <<cacheVars, asyncVars, mutex, written, got>>

LoadAllNext(key) ==
    /\ At("caller", "loaded") /\ arg.op = "load_from_disk"
    /\ key \in arg.todo /\ \A k \in arg.todo : key[1] <= k[1]
    /\ arg' = [arg EXCEPT !.todo = @ \ {key}]
    /\ IF OnDisk(key[1], key[2])
       THEN job' = [job EXCEPT !["caller"] =
                      [Idle EXCEPT !.pc = "load", !.layer = key[1], !.id = key[2]]]
       ELSE UNCHANGED job
    /\ UNCHANGED <<cacheVars, asyncVars, mutex, written, got>>

LoadAllEnd ==
    /\ At("caller", "loaded") /\ arg.op = "load_from_disk" /\ arg.todo = {}
    /\ job' = [job EXCEPT !["caller"] = Idle]
    /\ arg' = NoArg
    /\ UNCHANGED <<cacheVars, asyncVars, mutex, written, got>>

\* clear(): files, blocks, tables and counters go; the worker's queue stays.
\* Not while the worker is inside a load: that would free the block under it.
Clear ==
    /\ "clear" \in Bulk /\ CallerFree /\ mutex # "worker"
    /\ files' = WithoutFiles(AllOnDisk)
    /\ blocks' = [l \in Layers |-> <<>>]
    /\ table' = [l \in Layers |-> [b \in BlockIndexes |-> NoId]]
    /\ current_pos' = [l \in Layers |-> 0]
    /\ recency' = <<>>
    /\ current_memory_used_' = 0
    /\ next_block_id_' = 0
    /\ written' = [l \in Layers |-> [p \in Positions |-> 0]]
    /\ got' = {}
    /\ UNCHANGED <<asyncVars, mutex, job, arg>>

\* The destructor of the derived class: the page tables are freed (nobody reads
\* them any more) and its virtual functions are gone, whatever the worker does.
DestroyDerived ==
    /\ CallerFree
    /\ destroyed' = TRUE
    /\ UNCHANGED <<cacheVars, async_queue_, async_inflight_, async_stop_, mutex, job, arg, written, got>>

\* Then ~PagedKVCacheBase: tell the worker to stop, and join it.
Destroy ==
    /\ destroyed /\ ~async_stop_ /\ mutex = "free"
    /\ async_stop_' = TRUE
    /\ UNCHANGED <<cacheVars, async_queue_, async_inflight_, destroyed, mutex, job, arg, written, got>>

-----------------------------------------------------------------------------

Init ==
    /\ table = [l \in Layers |-> [b \in BlockIndexes |-> NoId]]
    /\ blocks = [l \in Layers |-> <<>>]
    /\ current_pos = [l \in Layers |-> 0]
    /\ files = <<>>
    /\ recency = <<>>
    /\ current_memory_used_ = 0
    /\ next_block_id_ = 0
    /\ async_queue_ = <<>>
    /\ async_inflight_ = {}
    /\ async_stop_ = FALSE /\ destroyed = FALSE
    /\ mutex = "free"
    /\ job = [p \in Threads |-> Idle]
    /\ arg = NoArg
    /\ written = [l \in Layers |-> [p \in Positions |-> 0]]
    /\ got = {}

Worker ==
    \/ WorkerPop \/ WorkerLock \/ WorkerDone \/ WorkerExit
    \/ EvictWrite("worker") \/ EvictDrop("worker") \/ PureVirtual
    \/ LoadGiveUp("worker") \/ LoadRead("worker")

\* The caller starts an operation.
CallerStart ==
    \/ \E l \in Layers, pos \in Positions, n \in 1 .. BlockSize, tag \in Tags :
         AppendKnown(l, pos, n, tag) \/ AppendNew(l, pos, n, tag)
    \/ \E l \in Layers, b \in BlockIndexes : Prefetch(l, b)
    \/ \E l \in Layers, pos \in Positions : GetStart(l, pos)
    \/ FlushToDisk \/ UnloadMemory \/ LoadAllStart \/ Clear \/ DestroyDerived

\* The caller goes on with the operation it is in.
CallerStep ==
    \/ EvictWrite("caller") \/ EvictDrop("caller")
    \/ LoadGiveUp("caller") \/ LoadRead("caller")
    \/ AllocFail \/ AllocInsert
    \/ EnsureResident \/ EnsureEnqueue \/ EnsureWake
    \/ AppendWrite \/ AppendDrop
    \/ GetLock \/ GetCopy
    \/ (\E key \in Keys : LoadAllNext(key)) \/ LoadAllEnd
    \/ Destroy

Next == Worker \/ CallerStart \/ CallerStep \/ EnsureTimeout

Spec == Init /\ [][Next]_vars

\* Both threads are scheduled.  The caller need not start anything, and no
\* progress relies on a timeout.
FairSpec == Spec /\ WF_vars(Worker) /\ WF_vars(CallerStep)

-----------------------------------------------------------------------------
(* Properties.                                                             *)

\* The cache's structures are well formed: page-table entries, blocks, files
\* and requests name ids handed out, and no block is stamped twice.
TypeOK ==
    /\ table \in [Layers -> [BlockIndexes -> Ids \cup {NoId}]]
    /\ \A l \in Layers :
         /\ DOMAIN blocks[l] \subseteq Ids
         /\ \A id \in DOMAIN blocks[l] :
              blocks[l][id] \in [dirty : BOOLEAN, on_disk : BOOLEAN, data : Contents]
    /\ current_pos \in [Layers -> Nat]
    /\ DOMAIN files \subseteq Keys /\ \A k \in DOMAIN files : files[k] \in Contents
    /\ recency \in Seq(Keys)
    /\ \A i, j \in DOMAIN recency : recency[i] = recency[j] => i = j
    /\ current_memory_used_ \in Nat
    /\ next_block_id_ \in 0 .. MaxId
    /\ async_queue_ \in Seq(Keys) /\ async_inflight_ \subseteq Keys
    /\ async_stop_ \in BOOLEAN /\ destroyed \in BOOLEAN
    /\ mutex \in Threads \cup {"free"}

\* Where the contents of a block are.
Stored(l, id) == IF blocks[l][id].on_disk THEN files[<<l, id>>] ELSE blocks[l][id].data

\* append(), eviction and reload: every token append() accepted is in its
\* block, in memory or in the block's file, whatever was evicted, reloaded or
\* failed to be read or written since.
TokensKept ==
    \A l \in Layers, p \in Positions :
        written[l][p] # 0 =>
            LET id == Resolve(l, p)
            IN  /\ id # NoId /\ HasBlock(l, id)
                /\ blocks[l][id].on_disk => <<l, id>> \in DOMAIN files
                /\ Stored(l, id)[p % BlockSize] = written[l][p]

\* alloc_block_id: a slot of a page table names a block that exists or is just
\* being allocated.  A slot that a failed allocation left behind would have
\* append() drop every later token of its positions, with room or without.
SlotsFilled ==
    \A l \in Layers, b \in BlockIndexes :
        table[l][b] # NoId =>
            \/ HasBlock(l, table[l][b])
            \/ /\ At("caller", "alloc") \/ (At("caller", "evict") /\ job["caller"].back = "alloc")
               /\ <<job["caller"].layer, job["caller"].id>> = <<l, table[l][b]>>

\* get_range() copies out the last token accepted at the position.
ReadsLatest == \A g \in got : g[3] = written[g[1]][g[2]]

\* current_memory_used_ counts exactly the blocks in memory, through every
\* eviction, reload, failed I/O and whole-cache operation, ...
MemoryExact == current_memory_used_ = Cardinality(AllResident)

\* ... and the budget is never exceeded.
WithinBudget == Limit > 0 => Cardinality(AllResident) <= Limit

\* A block has a file exactly when its contents are not in memory, or are just
\* being written out: no file is leaked and none is missing.
FilesExact ==
    DOMAIN files = AllOnDisk \cup {<<job[p].layer, job[p].victim>> :
                                     p \in {q \in Threads : At(q, "evict")}}

\* Every request in async_inflight_ is in the queue or in the worker's hands,
\* and only once: otherwise ensure_resident() would wait for nobody.
InflightTracked ==
    LET working == {k \in Keys : ~(At("worker", "idle") \/ At("worker", "exited"))
                                 /\ k = <<job["worker"].layer, job["worker"].id>>}
        queued == {async_queue_[i] : i \in DOMAIN async_queue_}
    IN  /\ async_inflight_ = queued \cup working
        /\ queued \cap working = {}
        /\ Cardinality(queued) = Len(async_queue_)

\* ensure_resident() returns without the help of its timeout.
WaitEnds == At("caller", "wait") ~> ~At("caller", "wait")

\* The destructors: the join() in ~PagedKVCacheBase returns, because the worker
\* drains its queue and exits, or a load it still had to do needs an eviction
\* and terminates the process.  A cache that is destroyed with no request on
\* its way, as one is that was never prefetched into, is destroyed in peace.
WorkerStops ==
    /\ destroyed ~> At("worker", "exited") \/ At("worker", "terminated")
    /\ destroyed /\ async_inflight_ = {} ~> At("worker", "exited")

=============================================================================
