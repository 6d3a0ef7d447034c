------------------------- MODULE DistributedContext -------------------------
(***************************************************************************)
(* DistributedContext (src/trainer/distributed.cpp): the shared-memory     *)
(* collectives.  Several threads of one process share ONE context object   *)
(* and run the same program of collective calls (all_reduce, broadcast,    *)
(* all_gather, barrier) on it.                                             *)
(*                                                                         *)
(* One action per critical section: every touch of reduce_buffer_ holds    *)
(* reduce_mutex_, every touch of the barrier's fields holds                *)
(* barrier_mutex_, so a section is atomic and the threads interleave       *)
(* between sections.                                                       *)
(*                                                                         *)
(* A float is abstracted to a formal sum: how often the contribution of    *)
(* thread t to its k-th call was added into it.  "The sum over all ranks"  *)
(* is then the formal sum that holds each contribution of the call once    *)
(* and nothing else.                                                       *)
(***************************************************************************)
EXTENDS Integers, FiniteSets

CONSTANTS
    Threads,    \* the threads that share the context
    WorldSizes, \* the values of world_size_, a constructor argument
    WorldRank,  \* world_rank_: one field of the shared object, not one per thread
    NCalls,     \* every thread makes this many collective calls
    MaxLen,     \* the longest buffer any call needs
    Programs    \* the programs the threads may run

Calls == 1 .. NCalls
Cells == 1 .. MaxLen
Ops == {"all_reduce", "broadcast", "all_gather", "barrier"}

\* One collective call: n elements per thread, src the broadcast's src_rank.
CallRecords == [op : Ops, n : Nat, src : Int]

ASSUME ConstantsAssumption ==
    /\ IsFiniteSet(Threads) /\ Threads # {}
    /\ WorldSizes \subseteq Nat \ {0} /\ WorldRank \in Nat
    /\ NCalls \in Nat /\ MaxLen \in Nat
    /\ Programs \subseteq [Calls -> CallRecords]

VARIABLES
    world_size_,
    prog,            \* the program: the calls every thread makes, in order
    call,            \* call[t]: the call thread t is in, NCalls + 1 when it is done
    passed,          \* passed[t]: barriers t has passed inside that call
    pc,              \* pc[t]: "run" between sections, "arrive" at, "wait" in a barrier
    gen,             \* gen[t]: the local `gen` of the barrier t waits in
    data,            \* data[t]: the caller's array of the current or last call
    barrier_count_,
    barrier_gen_,
    reduce_buffer_,  \* cells past `size` read 0, the value resize() gives them
    size,            \* reduce_buffer_.size()
    reduce_cleared_

vars == <<world_size_, prog, call, passed, pc, gen, data, barrier_count_, barrier_gen_,
          reduce_buffer_, size, reduce_cleared_>>

-----------------------------------------------------------------------------
(* Formal sums.                                                            *)

Values == [Threads -> [Calls -> Nat]]
Zero == [u \in Threads |-> [k \in Calls |-> 0]]
Own(t, c) == [u \in Threads |-> [k \in Calls |-> IF u = t /\ k = c THEN 1 ELSE 0]]
Plus(a, b) == [u \in Threads |-> [k \in Calls |-> a[u][k] + b[u][k]]]

\* Each contribution of the threads of S to call c, once.
SumOver(S, c) ==
    [u \in Threads |-> [k \in Calls |-> IF u \in S /\ k = c THEN 1 ELSE 0]]

\* What a read past the end of the vector may return.
Junk == {Zero, [u \in Threads |-> [k \in Calls |-> 2]]}

-----------------------------------------------------------------------------
(* The current call of a thread.                                           *)

Active(t) == call[t] \in Calls
Op(t) == prog[call[t]].op
N(t) == prog[call[t]].n
Src(t) == prog[call[t]].src

\* How many barriers a call of each kind passes.
BarriersOf(op) == IF op = "all_reduce" THEN 3 ELSE IF op = "barrier" THEN 1 ELSE 2

\* Thread t is about to run the section of `op` that follows b barriers.
At(t, op, b) ==
    /\ Active(t) /\ pc[t] = "run"
    /\ Op(t) = op /\ passed[t] = b

\* A section of a collective; with one rank the collectives return at once.
Section(t, op, b) == At(t, op, b) /\ world_size_ > 1

\* The array a thread hands to its call: its own contribution, everywhere.
Input(t) == [c \in Cells |-> Own(t, call[t])]

GoToBarrier(t) ==
    /\ pc' = [pc EXCEPT ![t] = "arrive"]
    /\ UNCHANGED <<world_size_, prog, call, passed, gen, barrier_count_, barrier_gen_>>

\* resize(): the vector never shrinks.
Grow(n) == size' = IF size < n THEN n ELSE size

Return(t) ==
    /\ call' = [call EXCEPT ![t] = @ + 1]
    /\ passed' = [passed EXCEPT ![t] = 0]
    /\ UNCHANGED <<world_size_, prog, pc, gen, barrier_count_, barrier_gen_>>

-----------------------------------------------------------------------------
(* barrier(): arrive and, unless last, sleep until the generation moves.   *)

BarrierArrive(t) ==
    /\ pc[t] = "arrive"
    /\ barrier_count_ + 1 < world_size_
    /\ gen' = [gen EXCEPT ![t] = barrier_gen_]
    /\ barrier_count_' = barrier_count_ + 1
    /\ pc' = [pc EXCEPT ![t] = "wait"]
    /\ UNCHANGED <<world_size_, prog, call, passed, data, barrier_gen_, reduce_buffer_, size,
                   reduce_cleared_>>

\* Mutant: the barrier opens one arrival early.
BarrierOpenEarly(t) ==
    /\ pc[t] = "arrive"
    /\ barrier_count_ + 1 >= world_size_ - 1
    /\ barrier_count_' = 0
    /\ barrier_gen_' = barrier_gen_ + 1
    /\ pc' = [pc EXCEPT ![t] = "run"]
    /\ passed' = [passed EXCEPT ![t] = @ + 1]
    /\ UNCHANGED <<world_size_, prog, call, gen, data, reduce_buffer_, size, reduce_cleared_>>

BarrierOpen(t) ==
    /\ pc[t] = "arrive"
    /\ barrier_count_ + 1 >= world_size_
    /\ barrier_count_' = 0
    /\ barrier_gen_' = barrier_gen_ + 1
    /\ pc' = [pc EXCEPT ![t] = "run"]
    /\ passed' = [passed EXCEPT ![t] = @ + 1]
    /\ UNCHANGED <<world_size_, prog, call, gen, data, reduce_buffer_, size, reduce_cleared_>>

\* Mutant: the predicate of the code before its fix, on the count that the
\* last arrival has just reset.
BarrierWakeOnCount(t) ==
    /\ pc[t] = "wait"
    /\ barrier_count_ >= world_size_
    /\ pc' = [pc EXCEPT ![t] = "run"]
    /\ passed' = [passed EXCEPT ![t] = @ + 1]
    /\ UNCHANGED <<world_size_, prog, call, gen, data, barrier_count_, barrier_gen_,
                   reduce_buffer_, size, reduce_cleared_>>

\* notify_all (or a spurious wake-up) and the wait's predicate.
BarrierWake(t) ==
    /\ pc[t] = "wait"
    /\ gen[t] # barrier_gen_
    /\ pc' = [pc EXCEPT ![t] = "run"]
    /\ passed' = [passed EXCEPT ![t] = @ + 1]
    /\ UNCHANGED <<world_size_, prog, call, gen, data, barrier_count_, barrier_gen_,
                   reduce_buffer_, size, reduce_cleared_>>

\* A lone ctx.barrier(): enter it, and return once through.
BarrierCall(t) ==
    /\ At(t, "barrier", 0)
    /\ GoToBarrier(t)
    /\ UNCHANGED <<data, reduce_buffer_, size, reduce_cleared_>>

BarrierReturn(t) ==
    /\ At(t, "barrier", 1)
    /\ Return(t)
    /\ UNCHANGED <<data, reduce_buffer_, size, reduce_cleared_>>

-----------------------------------------------------------------------------
(* all_reduce(): add -> B1 -> copy -> B2 -> one thread clears -> B3 -> arm. *)

AllReduceAdd(t) ==
    /\ Section(t, "all_reduce", 0)
    /\ Grow(N(t))
    /\ reduce_buffer_' =
         [c \in Cells |-> IF c <= N(t) THEN Plus(reduce_buffer_[c], Input(t)[c])
                                       ELSE reduce_buffer_[c]]
    /\ data' = [data EXCEPT ![t] = Input(t)]
    /\ GoToBarrier(t)
    /\ UNCHANGED reduce_cleared_

\* Mutant: the code before its fix, which copied and cleared in one section.
AllReduceCopyAndClear(t) ==
    /\ Section(t, "all_reduce", 1)
    /\ data' = [data EXCEPT ![t] =
                  [c \in Cells |-> IF c <= N(t) THEN reduce_buffer_[c] ELSE @[c]]]
    /\ reduce_buffer_' =
         [c \in Cells |-> IF c <= N(t) THEN Zero ELSE reduce_buffer_[c]]
    /\ GoToBarrier(t)
    /\ UNCHANGED <<size, reduce_cleared_>>

AllReduceCopy(t) ==
    /\ Section(t, "all_reduce", 1)
    /\ data' = [data EXCEPT ![t] =
                  [c \in Cells |-> IF c <= N(t) THEN reduce_buffer_[c] ELSE @[c]]]
    /\ GoToBarrier(t)
    /\ UNCHANGED <<reduce_buffer_, size, reduce_cleared_>>

AllReduceClear(t) ==
    /\ Section(t, "all_reduce", 2)
    /\ reduce_buffer_' =
         [c \in Cells |-> IF ~reduce_cleared_ /\ c <= N(t) /\ c <= size
                          THEN Zero ELSE reduce_buffer_[c]]
    /\ reduce_cleared_' = TRUE
    /\ GoToBarrier(t)
    /\ UNCHANGED <<data, size>>

\* Mutant: the flag of the one clearer is never armed again.
AllReduceArmNever(t) ==
    /\ Section(t, "all_reduce", 3)
    /\ Return(t)
    /\ UNCHANGED <<data, reduce_buffer_, size, reduce_cleared_>>

AllReduceArm(t) ==
    /\ Section(t, "all_reduce", 3)
    /\ reduce_cleared_' = FALSE
    /\ Return(t)
    /\ UNCHANGED <<data, reduce_buffer_, size>>

-----------------------------------------------------------------------------
(* broadcast(): only the source writes, only the others copy.              *)

BroadcastWrite(t) ==
    /\ Section(t, "broadcast", 0)
    /\ data' = [data EXCEPT ![t] = Input(t)]
    /\ IF WorldRank = Src(t)
       THEN /\ Grow(N(t))
            /\ reduce_buffer_' = [c \in Cells |-> IF c <= N(t) THEN Input(t)[c]
                                                               ELSE reduce_buffer_[c]]
       ELSE UNCHANGED <<reduce_buffer_, size>>
    /\ GoToBarrier(t)
    /\ UNCHANGED reduce_cleared_

BroadcastCopy(t) ==
    /\ Section(t, "broadcast", 1)
    /\ IF WorldRank # Src(t)
       THEN \E junk \in Junk :
              data' = [data EXCEPT ![t] =
                         [c \in Cells |-> IF c > N(t) THEN @[c]
                                          ELSE IF c <= size THEN reduce_buffer_[c]
                                          ELSE junk]]
       ELSE UNCHANGED data
    /\ GoToBarrier(t)
    /\ UNCHANGED <<reduce_buffer_, size, reduce_cleared_>>

BroadcastReturn(t) ==
    /\ Section(t, "broadcast", 2)
    /\ Return(t)
    /\ UNCHANGED <<data, reduce_buffer_, size, reduce_cleared_>>

-----------------------------------------------------------------------------
(* all_gather(): every caller writes the slot of the context's rank.       *)

InSlot(c, n) == c > WorldRank * n /\ c <= (WorldRank + 1) * n

AllGatherPut(t) ==
    /\ Section(t, "all_gather", 0)
    /\ Grow(N(t) * world_size_)
    /\ reduce_buffer_' = [c \in Cells |-> IF InSlot(c, N(t)) THEN Own(t, call[t])
                                                              ELSE reduce_buffer_[c]]
    /\ data' = [data EXCEPT ![t] = [c \in Cells |-> Zero]]
    /\ GoToBarrier(t)
    /\ UNCHANGED reduce_cleared_

AllGatherCopy(t) ==
    /\ Section(t, "all_gather", 1)
    /\ data' = [data EXCEPT ![t] =
                  [c \in Cells |-> IF c <= N(t) * world_size_ THEN reduce_buffer_[c]
                                                            ELSE @[c]]]
    /\ GoToBarrier(t)
    /\ UNCHANGED <<reduce_buffer_, size, reduce_cleared_>>

AllGatherReturn(t) ==
    /\ Section(t, "all_gather", 2)
    /\ Return(t)
    /\ UNCHANGED <<data, reduce_buffer_, size, reduce_cleared_>>

\* world_size_ <= 1: a collective returns at once; the caller keeps (or, in
\* all_gather, is given a copy of) its own array.
SingleRankReturn(t) ==
    /\ world_size_ <= 1
    /\ Active(t) /\ pc[t] = "run" /\ Op(t) # "barrier"
    /\ data' = [data EXCEPT ![t] = Input(t)]
    /\ Return(t)
    /\ UNCHANGED <<reduce_buffer_, size, reduce_cleared_>>

-----------------------------------------------------------------------------

Init ==
    /\ world_size_ \in WorldSizes /\ prog \in Programs
    /\ call = [t \in Threads |-> 1]
    /\ passed = [t \in Threads |-> 0]
    /\ pc = [t \in Threads |-> "run"]
    /\ gen = [t \in Threads |-> 0]
    /\ data = [t \in Threads |-> [c \in Cells |-> Zero]]
    /\ barrier_count_ = 0
    /\ barrier_gen_ = 0
    /\ reduce_buffer_ = [c \in Cells |-> Zero]
    /\ size = 0
    /\ reduce_cleared_ = FALSE

Collective(t) ==
    \/ AllReduceAdd(t) \/ AllReduceCopy(t) \/ AllReduceClear(t) \/ AllReduceArm(t)
    \/ BroadcastWrite(t) \/ BroadcastCopy(t) \/ BroadcastReturn(t)
    \/ AllGatherPut(t) \/ AllGatherCopy(t) \/ AllGatherReturn(t)
    \/ BarrierCall(t) \/ BarrierReturn(t)
    \/ SingleRankReturn(t)

Step(t) == Collective(t) \/ BarrierArrive(t) \/ BarrierOpen(t) \/ BarrierWake(t)

Next == \E t \in Threads : Step(t)

Spec == Init /\ [][Next]_vars

\* The operating system schedules every runnable thread, and the mutexes are
\* only held for a bounded time.
FairSpec == Spec /\ \A t \in Threads : WF_vars(Step(t))

-----------------------------------------------------------------------------
(* Properties.                                                             *)

\* The state stays well typed: counters of the barrier and of the calls in
\* range, every float a formal sum.
TypeOK ==
    /\ world_size_ \in WorldSizes /\ prog \in Programs
    /\ call \in [Threads -> 1 .. NCalls + 1]
    /\ passed \in [Threads -> 0 .. 3]
    /\ pc \in [Threads -> {"run", "arrive", "wait"}]
    /\ gen \in [Threads -> Nat]
    /\ data \in [Threads -> [Cells -> Values]]
    /\ barrier_count_ \in 0 .. world_size_ - 1
    /\ barrier_gen_ \in Nat
    /\ reduce_buffer_ \in [Cells -> Values]
    /\ size \in Nat
    /\ reduce_cleared_ \in BOOLEAN

\* A waiter whose generation has been opened: through the barrier, not yet
\* scheduled again.
Released(t) == pc[t] = "wait" /\ gen[t] # barrier_gen_

Through(t) == IF Released(t) THEN passed[t] + 1 ELSE passed[t]

\* The stretch of the program between two barriers that t is in: after the
\* last barrier of a call begins what the next call does before its first.
Stretch(t) ==
    IF Active(t) /\ Through(t) = BarriersOf(Op(t))
    THEN <<call[t] + 1, 0>>
    ELSE <<call[t], Through(t)>>

InStep == \A t, u \in Threads : Stretch(t) = Stretch(u)

\* barrier(): no thread leaves a barrier before all have reached it, so all
\* threads are always in the same stretch between two barriers, however the
\* opener races ahead into the next calls while the others still wake up.
LockStep == world_size_ > 1 => InStep

\* Thread t holds the result of call k: it has copied it, or has returned from
\* the call and not entered the next one.
HoldsResult(t, k) ==
    \/ /\ k = call[t]
       /\ passed[t] >= 2 \/ (passed[t] = 1 /\ pc[t] # "run")
    \/ k = call[t] - 1 /\ passed[t] = 0 /\ pc[t] = "run"

\* The ranks a call reduces over; a context of one rank is the caller alone.
Peers(t) == IF world_size_ = 1 THEN {t} ELSE Threads

\* all_reduce(): every thread gets the sum over all ranks, each contribution
\* of this call once and nothing left over from another call (the "copy-vs-
\* clear race" of the code's comment, in every later call too).
SumCorrect ==
    \A t \in Threads, k \in Calls :
        HoldsResult(t, k) /\ prog[k].op = "all_reduce" =>
            \A c \in Cells : c <= prog[k].n => data[t][c] = SumOver(Peers(t), k)

\* Threads that have added their part to call k's sum.
Added(k) ==
    {t \in Threads : call[t] > k \/ (call[t] = k /\ (passed[t] > 0 \/ pc[t] # "run"))}

\* What the shared buffer holds in the stretch s of a program of all_reduces:
\* before B1 of call k the parts added so far, then the full sum until the one
\* clearing section of the call, then nothing.
Holding(s, c) ==
    IF s[1] \in Calls /\ prog[s[1]].op = "all_reduce" /\ c <= prog[s[1]].n
       /\ ~(s[2] = 2 /\ reduce_cleared_)
    THEN SumOver(Added(s[1]), s[1])
    ELSE Zero

BufferHolds ==
    \A t \in Threads, c \in Cells : reduce_buffer_[c] = Holding(Stretch(t), c)

\* all_reduce() leaves the buffer empty for the next one: in a program of
\* all_reduces and barriers it holds, at every moment, exactly the
\* contributions of the call in progress.
BufferExact ==
    world_size_ > 1 /\ (\A k \in Calls : prog[k].op \in {"all_reduce", "barrier"}) => BufferHolds

\* All threads have returned from their last call and may be joined.
Finished == \A t \in Threads : call[t] = NCalls + 1

\* Every thread returns from every call: no barrier is left with a sleeper
\* (the "woken waiter slept FOREVER" of barrier()'s comment).
Termination == <>Finished

=============================================================================
