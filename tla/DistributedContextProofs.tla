---------------------- MODULE DistributedContextProofs ----------------------
(***************************************************************************)
(* Proofs about DistributedContext, for any number of threads and calls:   *)
(* its types, the barrier (InStep) and the reduction (SumCorrect).       *)
(***************************************************************************)
EXTENDS DistributedContext, FiniteSetTheorems, TLAPS

\* The supported configuration: world_size_ threads share the context.
Shared == Cardinality(Threads) > 1 /\ WorldSizes = {Cardinality(Threads)}

\* A thread is inside a barrier only within a call that has one left to pass.
Position ==
    \A t \in Threads :
        /\ pc[t] # "run" => Active(t) /\ passed[t] < BarriersOf(Op(t))
        /\ Active(t) => passed[t] <= BarriersOf(Op(t))
        /\ ~Active(t) => passed[t] = 0

TypeInv == TypeOK /\ Position

\* There the context has the size of the group, more than one.
LEMMA SharedSize ==
    ASSUME Shared, TypeOK
    PROVE  world_size_ \in Nat /\ world_size_ = Cardinality(Threads) /\ world_size_ > 1
  BY ConstantsAssumption DEF Shared, TypeOK

\* A call passes one to three barriers.
LEMMA BarriersRange ==
    \A op \in Ops : BarriersOf(op) \in 1 .. 3
  BY DEF Ops, BarriersOf

\* The call a thread is in is one of the program's.
LEMMA OpTyped ==
    ASSUME TypeOK, NEW t \in Threads, Active(t)
    PROVE  /\ prog[call[t]] \in CallRecords
           /\ Op(t) \in Ops /\ N(t) \in Nat /\ Src(t) \in Int
           /\ BarriersOf(Op(t)) \in 1 .. 3
  BY BarriersRange, ConstantsAssumption DEF TypeOK, Active, Op, N, Src, CallRecords

\* The operations on formal sums return formal sums.
LEMMA ValuesTyped ==
    /\ Zero \in Values
    /\ \A j \in Junk : j \in Values
    /\ \A t \in Threads, c \in Int : Own(t, c) \in Values
    /\ \A a, b \in Values : Plus(a, b) \in Values
  BY DEF Zero, Junk, Own, Plus, Values

\* The fields have their types at the start ...
LEMMA TypeInit == Init => TypeInv
<1> SUFFICES ASSUME Init PROVE TypeInv
  OBVIOUS
<1>1. TypeOK
  <2>1. Zero \in Values
    BY ValuesTyped
  <2>2. 0 \in 0 .. world_size_ - 1 /\ 1 \in 1 .. NCalls + 1
    BY ConstantsAssumption DEF Init
  <2>3. gen \in [Threads -> Nat] /\ barrier_gen_ \in Nat /\ size \in Nat
    BY DEF Init
  <2>4. reduce_cleared_ \in BOOLEAN
    BY Zenon DEF Init
  <2>5. passed \in [Threads -> 0 .. 3] /\ call \in [Threads -> 1 .. NCalls + 1]
    BY <2>2 DEF Init
  <2>6. data \in [Threads -> [Cells -> Values]] /\ reduce_buffer_ \in [Cells -> Values]
    BY <2>1 DEF Init
  <2> QED BY <2>2, <2>3, <2>4, <2>5, <2>6 DEF Init, TypeOK
<1>2. Position
  BY <1>1, OpTyped DEF Init, Position
<1> QED
  BY <1>1, <1>2 DEF TypeInv

\* ... and every section keeps them; barrier() counts only below world_size_.
LEMMA TypeStep == TypeInv /\ [Next]_vars => TypeInv'
<1> SUFFICES ASSUME TypeInv, [Next]_vars PROVE TypeInv'
  OBVIOUS
<1> USE ConstantsAssumption DEF TypeInv
<1>1. CASE UNCHANGED vars
  BY <1>1 DEF vars, TypeOK, Position, Active, Op
<1>2. ASSUME NEW t \in Threads, Section(t, "all_reduce", 0) \/ Section(t, "all_reduce", 1)
                \/ Section(t, "all_reduce", 2) \/ Section(t, "broadcast", 0)
                \/ Section(t, "broadcast", 1) \/ Section(t, "all_gather", 0)
                \/ Section(t, "all_gather", 1) \/ At(t, "barrier", 0),
             GoToBarrier(t),
             data' \in [Threads -> [Cells -> Values]],
             reduce_buffer_' \in [Cells -> Values],
             size' \in Nat, reduce_cleared_' \in BOOLEAN
      PROVE TypeInv'
  BY <1>2 DEF GoToBarrier, Section, At, TypeOK, Position, Active, Op, BarriersOf
<1>3. ASSUME NEW t \in Threads, Active(t), pc[t] = "run", Return(t),
             data' \in [Threads -> [Cells -> Values]],
             reduce_buffer_' \in [Cells -> Values],
             size' \in Nat, reduce_cleared_' \in BOOLEAN
      PROVE TypeInv'
  <2>1. BarriersOf(prog[call[t] + 1].op) \in 1 .. 3 \/ call[t] + 1 \notin Calls
    BY <1>3, BarriersRange DEF TypeOK, Active, Calls, CallRecords
  <2> QED
    BY <1>3, <2>1, SMTT(20) DEF Return, TypeOK, Position, Active, Op, Calls
<1>4. ASSUME NEW t \in Threads, Collective(t) PROVE TypeInv'
  <2> USE <1>4, ValuesTyped DEF Collective
  <2>0. Active(t) => call[t] \in Int /\ Own(t, call[t]) \in Values /\ N(t) \in Nat
    BY OpTyped DEF TypeOK
  <2>1. CASE AllReduceAdd(t)
    <3>1. /\ data' \in [Threads -> [Cells -> Values]]
          /\ reduce_buffer_' \in [Cells -> Values]
          /\ size' \in Nat /\ reduce_cleared_' \in BOOLEAN
      BY <2>0, <2>1 DEF AllReduceAdd, Section, At, Grow, Input, TypeOK
    <3> QED BY <1>2, <2>1, <3>1 DEF AllReduceAdd
  <2>2. CASE AllReduceCopy(t)
    <3>1. /\ data' \in [Threads -> [Cells -> Values]]
          /\ reduce_buffer_' \in [Cells -> Values]
          /\ size' \in Nat /\ reduce_cleared_' \in BOOLEAN
      BY <2>2 DEF AllReduceCopy, TypeOK
    <3> QED BY <1>2, <2>2, <3>1 DEF AllReduceCopy
  <2>3. CASE AllReduceClear(t)
    <3>1. /\ data' \in [Threads -> [Cells -> Values]]
          /\ reduce_buffer_' \in [Cells -> Values]
          /\ size' \in Nat /\ reduce_cleared_' \in BOOLEAN
      BY <2>3 DEF AllReduceClear, TypeOK
    <3> QED BY <1>2, <2>3, <3>1 DEF AllReduceClear
  <2>4. CASE AllReduceArm(t)
    BY <1>3, <2>4 DEF AllReduceArm, Section, At, TypeOK
  <2>5. CASE BroadcastWrite(t)
    <3>1. /\ data' \in [Threads -> [Cells -> Values]]
          /\ reduce_buffer_' \in [Cells -> Values]
          /\ size' \in Nat /\ reduce_cleared_' \in BOOLEAN
      BY <2>0, <2>5 DEF BroadcastWrite, Section, At, Grow, Input, TypeOK
    <3> QED BY <1>2, <2>5, <3>1 DEF BroadcastWrite
  <2>6. CASE BroadcastCopy(t)
    <3>1. /\ data' \in [Threads -> [Cells -> Values]]
          /\ reduce_buffer_' \in [Cells -> Values]
          /\ size' \in Nat /\ reduce_cleared_' \in BOOLEAN
      <4>1. CASE WorldRank # Src(t)
        <5>1. PICK junk \in Junk :
                data' = [data EXCEPT ![t] =
                           [c \in Cells |-> IF c > N(t) THEN @[c]
                                            ELSE IF c <= size THEN reduce_buffer_[c]
                                            ELSE junk]]
          BY <2>6, <4>1 DEF BroadcastCopy
        <5>2. junk \in Values
          BY <5>1, ValuesTyped
        <5> QED BY <2>6, <5>1, <5>2 DEF BroadcastCopy, TypeOK
      <4>2. CASE WorldRank = Src(t)
        BY <2>6, <4>2 DEF BroadcastCopy, TypeOK
      <4> QED BY <4>1, <4>2
    <3> QED BY <1>2, <2>6, <3>1 DEF BroadcastCopy
  <2>7. CASE BroadcastReturn(t)
    BY <1>3, <2>7 DEF BroadcastReturn, Section, At, TypeOK
  <2>8. CASE AllGatherPut(t)
    <3>1. N(t) * world_size_ \in Nat
      BY <2>0, <2>8 DEF AllGatherPut, Section, At, TypeOK
    <3>2. /\ data' \in [Threads -> [Cells -> Values]]
          /\ reduce_buffer_' \in [Cells -> Values]
          /\ size' \in Nat /\ reduce_cleared_' \in BOOLEAN
      BY <2>0, <2>8, <3>1 DEF AllGatherPut, Section, At, Grow, TypeOK
    <3> QED BY <1>2, <2>8, <3>2 DEF AllGatherPut
  <2>9. CASE AllGatherCopy(t)
    <3>1. /\ data' \in [Threads -> [Cells -> Values]]
          /\ reduce_buffer_' \in [Cells -> Values]
          /\ size' \in Nat /\ reduce_cleared_' \in BOOLEAN
      BY <2>9 DEF AllGatherCopy, TypeOK
    <3> QED BY <1>2, <2>9, <3>1 DEF AllGatherCopy
  <2>10. CASE AllGatherReturn(t)
    BY <1>3, <2>10 DEF AllGatherReturn, Section, At, TypeOK
  <2>11. CASE BarrierCall(t)
    BY <1>2, <2>11 DEF BarrierCall, TypeOK
  <2>12. CASE BarrierReturn(t)
    BY <1>3, <2>12 DEF BarrierReturn, At, TypeOK
  <2>13. CASE SingleRankReturn(t)
    <3>1. data' \in [Threads -> [Cells -> Values]]
      BY <2>0, <2>13 DEF SingleRankReturn, Input, TypeOK
    <3> QED BY <1>3, <2>13, <3>1 DEF SingleRankReturn, TypeOK
  <2> QED
    BY <2>1, <2>2, <2>3, <2>4, <2>5, <2>6, <2>7, <2>8, <2>9, <2>10, <2>11, <2>12, <2>13
<1>5. ASSUME NEW t \in Threads, BarrierArrive(t) PROVE TypeInv'
  BY <1>5 DEF BarrierArrive, TypeOK, Position, Active, Op
<1>6. ASSUME NEW t \in Threads, BarrierOpen(t) \/ BarrierWake(t) PROVE TypeInv'
  <2>1. Active(t) /\ passed[t] < BarriersOf(Op(t)) /\ BarriersOf(Op(t)) \in 1 .. 3
    BY <1>6, OpTyped DEF BarrierOpen, BarrierWake, Position
  <2>2. passed[t] + 1 \in 0 .. 3 /\ passed[t] + 1 <= BarriersOf(Op(t))
    BY <2>1 DEF TypeOK
  <2>3. TypeOK'
    <3>1. /\ passed' \in [Threads -> 0 .. 3]
          /\ pc' \in [Threads -> {"run", "arrive", "wait"}]
      BY <1>6, <2>2, ZenonT(30) DEF BarrierOpen, BarrierWake, TypeOK
    <3>2. barrier_count_' \in 0 .. world_size_ - 1 /\ barrier_gen_' \in Nat
      BY <1>6 DEF BarrierOpen, BarrierWake, TypeOK
    <3> QED
      BY <1>6, <3>1, <3>2 DEF BarrierOpen, BarrierWake, TypeOK
  <2>4. Position'
    BY <1>6, <2>1, <2>2 DEF BarrierOpen, BarrierWake, TypeOK, Position, Active, Op
  <2> QED
    BY <2>3, <2>4
<1> QED
  BY <1>1, <1>4, <1>5, <1>6 DEF Next, Step

\* Every step of every thread keeps the counters and the buffers well typed,
\* for any number of threads, calls and buffer cells: barrier_count_ never
\* reaches world_size_ outside barrier()'s critical section.
THEOREM TypeCorrect == Spec => []TypeOK
  <1>1. TypeInv => TypeOK
    BY DEF TypeInv
  <1> QED BY TypeInit, TypeStep, <1>1, PTL DEF Spec

-----------------------------------------------------------------------------
(* The barrier.                                                            *)

\* The sleepers of the generation that is still closed.
Sleepers == {t \in Threads : pc[t] = "wait" /\ gen[t] = barrier_gen_}

BarrierInv ==
    /\ TypeInv
    /\ barrier_count_ = Cardinality(Sleepers)
    /\ InStep

\* The last arrival finds every other thread asleep in this generation.
LEMMA LastArrival ==
    ASSUME Shared, BarrierInv, NEW t \in Threads,
           pc[t] = "arrive", barrier_count_ + 1 >= world_size_
    PROVE  \A u \in Threads \ {t} : pc[u] = "wait" /\ gen[u] = barrier_gen_
<1>1. IsFiniteSet(Threads) /\ Sleepers \subseteq Threads \ {t}
  BY ConstantsAssumption DEF Sleepers
<1>2. IsFiniteSet(Threads \ {t}) /\ Cardinality(Threads \ {t}) = Cardinality(Threads) - 1
  BY <1>1, FS_RemoveElement
<1>3. Cardinality(Sleepers) >= Cardinality(Threads \ {t})
  BY <1>2, ConstantsAssumption DEF Shared, BarrierInv, TypeInv, TypeOK
<1>4. Sleepers = Threads \ {t}
  BY <1>1, <1>2, <1>3, FS_Subset, FS_CardinalityType
<1> QED
  BY <1>4 DEF Sleepers

\* Nobody sleeps in a barrier at the start.
LEMMA BarrierInit == Init => BarrierInv
<1> SUFFICES ASSUME Init PROVE BarrierInv
  OBVIOUS
<1>1. TypeInv
  BY TypeInit
<1>2. Sleepers = {}
  BY DEF Init, Sleepers
<1>3. barrier_count_ = Cardinality(Sleepers)
  BY <1>2, FS_EmptySet DEF Init
<1>4. InStep
  BY DEF Init, InStep, Stretch, Through, Released, Active, Op
<1> QED
  BY <1>1, <1>3, <1>4 DEF BarrierInv

\* What a thread does outside barrier()'s opening keeps it in its stretch.
LEMMA StretchKept ==
    ASSUME Shared, TypeInv, NEW t \in Threads,
           Collective(t) \/ BarrierArrive(t) \/ BarrierWake(t)
    PROVE  \A u \in Threads : Stretch(u)' = Stretch(u)
<1>0. TypeOK
  BY DEF TypeInv
<1>1. CASE Collective(t)
  <2>1. Active(t) /\ pc[t] = "run"
    BY <1>1 DEF Collective, AllReduceAdd, AllReduceCopy, AllReduceClear, AllReduceArm,
         BroadcastWrite, BroadcastCopy, BroadcastReturn, AllGatherPut, AllGatherCopy,
         AllGatherReturn, BarrierCall, BarrierReturn, SingleRankReturn, Section, At
  <2>2. \/ GoToBarrier(t)
        \/ Return(t) /\ passed[t] = BarriersOf(Op(t))
    BY <1>0, <1>1, SharedSize DEF Collective, AllReduceAdd, AllReduceCopy,
         AllReduceClear, AllReduceArm, BroadcastWrite, BroadcastCopy, BroadcastReturn,
         AllGatherPut, AllGatherCopy, AllGatherReturn, BarrierCall, BarrierReturn,
         SingleRankReturn, Section, At, BarriersOf
  <2>3. CASE GoToBarrier(t)
    BY <1>0, <2>1, <2>3 DEF GoToBarrier, TypeOK, Stretch, Through, Released, Active, Op
  <2>4. CASE Return(t) /\ passed[t] = BarriersOf(Op(t))
    <3>1. \A u \in Threads \ {t} : Stretch(u)' = Stretch(u)
      BY <1>0, <2>4 DEF Return, TypeOK, Stretch, Through, Released, Active, Op
    <3>2. Stretch(t) = <<call[t] + 1, 0>>
      BY <2>1, <2>4 DEF Stretch, Through, Released
    <3>3. Stretch(t)' = <<call[t] + 1, 0>>
      <4>1. passed'[t] = 0 /\ call'[t] = call[t] + 1 /\ pc'[t] = "run" /\ prog' = prog
        BY <1>0, <2>1, <2>4 DEF Return, TypeOK
      <4>2. Active(t)' => BarriersOf(Op(t))' # 0
        BY <4>1 DEF BarriersOf
      <4> QED BY <4>1, <4>2 DEF Stretch, Through, Released
    <3> QED BY <3>1, <3>2, <3>3
  <2> QED BY <2>2, <2>3, <2>4
<1>2. CASE BarrierArrive(t)
  BY <1>0, <1>2 DEF BarrierArrive, TypeOK, Stretch, Through, Released, Active, Op
<1>3. CASE BarrierWake(t)
  <2>1. \A u \in Threads : Through(u)' = Through(u)
    BY <1>0, <1>3 DEF BarrierWake, TypeOK, Through, Released
  <2> QED BY <1>3, <2>1 DEF BarrierWake, Stretch, Active, Op
<1> QED BY <1>1, <1>2, <1>3

\* When the barrier opens, all threads are inside the same barrier.
LEMMA AllInside ==
    ASSUME Shared, BarrierInv, NEW t \in Threads, BarrierOpen(t)
    PROVE  \A u \in Threads :
             /\ call[u] = call[t] /\ passed[u] = passed[t]
             /\ Active(u) /\ passed[u] < BarriersOf(Op(u))
             /\ pc[u] # "run" /\ ~Released(u)
             /\ Stretch(u) = <<call[u], passed[u]>>
             /\ Through(u)' = passed[t] + 1
             /\ call'[u] = call[t] /\ prog' = prog
             /\ u # t => Released(u)'
<1>0. TypeOK /\ TypeInv
  BY DEF BarrierInv, TypeInv
<1>1. \A u \in Threads \ {t} : pc[u] = "wait" /\ gen[u] = barrier_gen_
  BY LastArrival DEF BarrierOpen
<1>2. \A u \in Threads : pc[u] # "run" /\ ~Released(u)
  BY <1>1 DEF BarrierOpen, Released
<1>3. \A u \in Threads : Active(u) /\ passed[u] < BarriersOf(Op(u))
  BY <1>0, <1>2 DEF TypeInv, Position
<1>4. \A u \in Threads : passed[u] # BarriersOf(Op(u))
  <2> SUFFICES ASSUME NEW u \in Threads PROVE passed[u] # BarriersOf(Op(u))
    OBVIOUS
  <2>1. BarriersOf(Op(u)) \in 1 .. 3 /\ passed[u] \in 0 .. 3
    BY <1>0, <1>3, OpTyped DEF TypeOK
  <2> QED BY <1>3, <2>1
<1>5. \A u \in Threads : Stretch(u) = <<call[u], passed[u]>>
  BY <1>2, <1>3, <1>4 DEF Stretch, Through
<1>6. \A u \in Threads : call[u] = call[t] /\ passed[u] = passed[t]
  BY <1>5 DEF BarrierInv, InStep
<1>7. \A u \in Threads : u # t => Released(u)'
  BY <1>0, <1>1 DEF BarrierOpen, TypeOK, Released
<1>8. \A u \in Threads : Through(u)' = passed[t] + 1
  BY <1>0, <1>6, <1>7 DEF BarrierOpen, TypeOK, Through, Released
<1>9. \A u \in Threads : call'[u] = call[t] /\ prog' = prog
  BY <1>6 DEF BarrierOpen
<1> QED BY <1>2, <1>3, <1>5, <1>6, <1>7, <1>8, <1>9

\* Every step keeps the count of sleepers and the lock step of the threads.
LEMMA BarrierStep == Shared /\ BarrierInv /\ [Next]_vars => BarrierInv'
<1> SUFFICES ASSUME Shared, BarrierInv, [Next]_vars PROVE BarrierInv'
  OBVIOUS
<1>0. TypeInv /\ TypeInv' /\ TypeOK /\ TypeOK'
  BY TypeStep DEF BarrierInv, TypeInv
<1>1. CASE UNCHANGED vars
  BY <1>0, <1>1 DEF vars, BarrierInv, Sleepers, InStep, Stretch, Through, Released,
                   Active, Op
<1>2. ASSUME NEW t \in Threads, Collective(t) \/ BarrierArrive(t) \/ BarrierWake(t)
      PROVE  InStep'
  <2>1. \A u \in Threads : Stretch(u)' = Stretch(u)
    BY <1>0, <1>2, StretchKept
  <2> QED BY <2>1 DEF BarrierInv, InStep
<1>3. ASSUME NEW t \in Threads, Collective(t) PROVE BarrierInv'
  <2>1. pc[t] = "run" /\ (GoToBarrier(t) \/ Return(t))
    BY <1>3 DEF Collective, AllReduceAdd, AllReduceCopy, AllReduceClear, AllReduceArm,
         BroadcastWrite, BroadcastCopy, BroadcastReturn, AllGatherPut, AllGatherCopy,
         AllGatherReturn, BarrierCall, BarrierReturn, SingleRankReturn, Section, At
  <2>2. Sleepers' = Sleepers /\ barrier_count_' = barrier_count_
    BY <1>0, <2>1 DEF GoToBarrier, Return, Sleepers, TypeOK
  <2> QED BY <1>0, <1>2, <1>3, <2>2 DEF BarrierInv
<1>4. ASSUME NEW t \in Threads, BarrierArrive(t) PROVE BarrierInv'
  <2>1. Sleepers' = Sleepers \cup {t} /\ t \notin Sleepers
    BY <1>0, <1>4 DEF BarrierArrive, Sleepers, TypeOK
  <2>2. IsFiniteSet(Sleepers)
    BY ConstantsAssumption, FS_Subset DEF Sleepers
  <2>3. barrier_count_' = Cardinality(Sleepers')
    BY <1>4, <2>1, <2>2, FS_AddElement DEF BarrierArrive, BarrierInv
  <2> QED BY <1>0, <1>2, <1>4, <2>3 DEF BarrierInv
<1>5. ASSUME NEW t \in Threads, BarrierOpen(t) PROVE BarrierInv'
  <2>1. \A u \in Threads : Through(u)' = passed[t] + 1 /\ call'[u] = call[t]
                            /\ (u # t => Released(u)')
    BY <1>5, AllInside
  <2>2. Sleepers' = {}
    BY <1>0, <1>5, <2>1 DEF BarrierOpen, Sleepers, Released, TypeOK
  <2>3. barrier_count_' = Cardinality(Sleepers')
    BY <1>5, <2>2, FS_EmptySet DEF BarrierOpen
  <2>4. InStep'
    BY <2>1 DEF InStep, Stretch, Active, Op
  <2> QED BY <1>0, <2>3, <2>4 DEF BarrierInv
<1>6. ASSUME NEW t \in Threads, BarrierWake(t) PROVE BarrierInv'
  <2>1. Sleepers' = Sleepers
    BY <1>0, <1>6 DEF BarrierWake, Sleepers, TypeOK
  <2> QED BY <1>0, <1>2, <1>6, <2>1 DEF BarrierInv, BarrierWake
<1> QED
  BY <1>1, <1>3, <1>4, <1>5, <1>6 DEF Next, Step

\* barrier() is a barrier for any number of threads and any program of
\* collectives: no thread ever gets a barrier ahead of another, whatever the
\* opener does before the others wake up.
THEOREM BarrierCorrect ==
    ASSUME Shared
    PROVE  Spec => []LockStep
  <1>1. BarrierInv => LockStep
    BY DEF BarrierInv, LockStep
  <1>2. BarrierInv /\ [Next]_vars => BarrierInv'
    BY BarrierStep
  <1> QED BY BarrierInit, <1>1, <1>2, PTL DEF Spec

-----------------------------------------------------------------------------
(* The reduction.                                                          *)

\* Programs of all_reduces and barriers: the gradient synchronisation.  A
\* broadcast or an all_gather would leave its array in the buffer.
ReduceOnly == \A p \in Programs, k \in Calls : p[k].op \in {"all_reduce", "barrier"}

InReduce(t, b) == Active(t) /\ Op(t) = "all_reduce" /\ passed[t] = b

\* The one-clearer flag is up only between the clearing section of a call and
\* the arming section of the last thread to leave it, ...
FlagUp ==
    reduce_cleared_ =>
        \/ \A t \in Threads : Stretch(t)[2] = 2
        \/ \E t \in Threads : Active(t) /\ Op(t) = "all_reduce" /\ Through(t) = 3

\* ... and it is up once any thread has left the clearing section for B3.
FlagSet ==
    \A t \in Threads :
        InReduce(t, 2) /\ pc[t] # "run" /\ ~Released(t) => reduce_cleared_

\* The buffer is as long as the calls in progress need.
LongEnough ==
    \A t \in Threads :
        Active(t) /\ Op(t) = "all_reduce" /\ (passed[t] > 0 \/ pc[t] # "run") => N(t) <= size

ReduceInv == BarrierInv /\ FlagUp /\ FlagSet /\ LongEnough /\ BufferHolds /\ SumCorrect

\* A program of all_reduces and barriers passes its barriers in order.
LEMMA StretchShape ==
    ASSUME TypeInv, ReduceOnly, NEW t \in Threads
    PROVE  /\ Active(t) => prog[call[t]].op \in {"all_reduce", "barrier"}
           /\ Through(t) \in 0 .. 3
           /\ Active(t) => Through(t) <= BarriersOf(Op(t))
<1>1. Active(t) => prog[call[t]].op \in {"all_reduce", "barrier"}
  BY DEF ReduceOnly, TypeInv, TypeOK, Active
<1>2. Active(t) => BarriersOf(Op(t)) \in 1 .. 3
  BY OpTyped DEF TypeInv
<1>3. CASE Released(t)
  <2>1. Active(t) /\ passed[t] < BarriersOf(Op(t)) /\ passed[t] \in 0 .. 3
    BY <1>3 DEF TypeInv, TypeOK, Position, Released
  <2> QED BY <1>1, <1>2, <1>3, <2>1 DEF Through
<1>4. CASE ~Released(t)
  BY <1>1, <1>2, <1>4 DEF TypeInv, TypeOK, Position, Through
<1> QED BY <1>3, <1>4

\* Adding one more contribution to a formal sum.
LEMMA SumLemma ==
    /\ \A k : SumOver({}, k) = Zero
    /\ \A S, t, k : t \in Threads /\ t \notin S
                     => Plus(SumOver(S, k), Own(t, k)) = SumOver(S \cup {t}, k)
<1>1. ASSUME NEW k PROVE SumOver({}, k) = Zero
  BY DEF SumOver, Zero
<1>2. ASSUME NEW S, NEW t \in Threads, NEW k, t \notin S
      PROVE  Plus(SumOver(S, k), Own(t, k)) = SumOver(S \cup {t}, k)
  BY <1>2 DEF Plus, SumOver, Own
<1> QED BY <1>1, <1>2

\* The buffer is empty and the clearing flag is down at the start.
LEMMA ReduceInit == Init => ReduceInv
<1> SUFFICES ASSUME Init PROVE ReduceInv
  OBVIOUS
<1>1. BarrierInv
  BY BarrierInit
<1>2. FlagUp /\ FlagSet /\ LongEnough
  BY DEF Init, FlagUp, FlagSet, LongEnough, InReduce
<1>3. BufferHolds
  <2>1. \A k \in Calls : SumOver(Added(k), k) = Zero
    <3>1. \A k \in Calls : Added(k) = {}
      BY DEF Init, Added, Calls
    <3> QED BY <3>1, SumLemma
  <2> QED BY <2>1 DEF Init, BufferHolds, Holding
<1>4. SumCorrect
  BY DEF Init, SumCorrect, HoldsResult, Calls
<1> QED BY <1>1, <1>2, <1>3, <1>4 DEF ReduceInv

\* A thread in the first or second stretch of an all_reduce finds all threads
\* in that stretch.
LEMMA SameStretch ==
    ASSUME BarrierInv, NEW t \in Threads, Active(t), Op(t) = "all_reduce",
           pc[t] = "run", passed[t] < 3
    PROVE  \A u \in Threads : Stretch(u) = <<call[t], passed[t]>>
<1>1. Stretch(t) = <<call[t], passed[t]>>
  BY DEF BarrierInv, TypeInv, TypeOK, Stretch, Through, Released, BarriersOf
<1> QED BY <1>1 DEF BarrierInv, InStep

\* A step of t can only disturb SumCorrect for t itself.
LEMMA SumFrame ==
    ASSUME SumCorrect, NEW t \in Threads, prog' = prog, world_size_' = world_size_,
           \A u \in Threads \ {t} : /\ call'[u] = call[u] /\ passed'[u] = passed[u]
                                     /\ pc'[u] = pc[u] /\ data'[u] = data[u],
           \A k \in Calls :
               HoldsResult(t, k)' /\ prog[k].op = "all_reduce" =>
                   \A c \in Cells : c <= prog[k].n => data'[t][c] = SumOver(Peers(t), k)
    PROVE  SumCorrect'
<1> SUFFICES ASSUME NEW u \in Threads, NEW k \in Calls, HoldsResult(u, k)',
                    prog[k].op = "all_reduce", NEW c \in Cells, c <= prog[k].n
             PROVE  data'[u][c] = SumOver(Peers(u), k)
  BY DEF SumCorrect, Peers
<1>1. CASE u = t
  BY <1>1
<1>2. CASE u # t
  <2>1. HoldsResult(u, k)
    BY <1>2 DEF HoldsResult
  <2> QED BY <1>2, <2>1 DEF SumCorrect
<1> QED BY <1>1, <1>2

\* The adding section adds the caller's contribution, once.
LEMMA AddStep ==
    ASSUME Shared, ReduceOnly, ReduceInv, NEW t \in Threads, AllReduceAdd(t), TypeOK'
    PROVE  FlagUp' /\ FlagSet' /\ LongEnough' /\ BufferHolds' /\ SumCorrect'
<1> DEFINE k == call[t]
<1>0. TypeOK /\ TypeInv /\ BarrierInv
  BY DEF ReduceInv, BarrierInv, TypeInv
<1>1. /\ Active(t) /\ Op(t) = "all_reduce" /\ pc[t] = "run" /\ passed[t] = 0
      /\ world_size_' = world_size_ /\ prog' = prog /\ call' = call
      /\ passed' = passed /\ gen' = gen
      /\ barrier_gen_' = barrier_gen_ /\ reduce_cleared_' = reduce_cleared_
      /\ pc' = [pc EXCEPT ![t] = "arrive"] /\ N(t) \in Nat
  BY <1>0, OpTyped DEF AllReduceAdd, Section, At, GoToBarrier
<1>2. \A u \in Threads : Stretch(u)' = Stretch(u)
  BY <1>0, StretchKept DEF Collective
<1>3. \A u \in Threads : Stretch(u) = <<k, 0>>
  BY <1>0, <1>1, SameStretch
<1>4. \A u \in Threads : Through(u)' = Through(u) /\ Active(u)' = Active(u) /\ Op(u)' = Op(u)
  BY <1>0, <1>1 DEF TypeOK, Through, Released, Active, Op
<1>5. FlagUp'
  BY <1>1, <1>2, <1>4 DEF ReduceInv, FlagUp
<1>6. FlagSet'
  BY <1>0, <1>1 DEF ReduceInv, FlagSet, InReduce, Released, Active, Op, TypeOK
<1>7. LongEnough'
  <2>1. size' \in Nat /\ size \in Nat /\ size <= size' /\ N(t) <= size'
    BY <1>0, <1>1 DEF AllReduceAdd, Grow, TypeOK
  <2>2. ASSUME NEW u \in Threads, Active(u), Op(u) = "all_reduce", u # t,
               passed[u] > 0 \/ pc[u] # "run"
        PROVE  N(u) <= size'
    <3>1. N(u) \in Nat /\ N(u) <= size
      BY <1>0, <2>2, OpTyped DEF ReduceInv, LongEnough
    <3> QED BY <2>1, <3>1
  <2> QED BY <1>0, <1>1, <2>1, <2>2 DEF LongEnough, Active, Op, N, TypeOK
<1>8. BufferHolds'
  <2>1. t \notin Added(k) /\ Added(k)' = Added(k) \cup {t}
    BY <1>0, <1>1 DEF Added, TypeOK, Active, Calls
  <2>2. \A c \in Cells : c <= N(t) => reduce_buffer_'[c] = SumOver(Added(k)', k)
    <3>1. \A c \in Cells : c <= N(t) => reduce_buffer_[c] = SumOver(Added(k), k)
      BY <1>1, <1>3 DEF ReduceInv, BufferHolds, Holding, Active, Op, N
    <3>2. Plus(SumOver(Added(k), k), Own(t, k)) = SumOver(Added(k)', k)
      BY <2>1, SumLemma
    <3> QED BY <3>1, <3>2 DEF AllReduceAdd, Input
  <2>3. \A c \in Cells : ~(c <= N(t)) => reduce_buffer_'[c] = Zero
    BY <1>1, <1>3 DEF AllReduceAdd, ReduceInv, BufferHolds, Holding, Active, Op, N
  <2> QED BY <1>1, <1>2, <1>3, <2>2, <2>3 DEF BufferHolds, Holding, Active, Op, N
<1>9. SumCorrect'
  <2>1. \A j : ~HoldsResult(t, j)'
    BY <1>0, <1>1 DEF HoldsResult, TypeOK
  <2>2. \A u \in Threads \ {t} : pc'[u] = pc[u] /\ data'[u] = data[u]
    BY <1>0, <1>1 DEF AllReduceAdd, TypeOK
  <2> QED BY <1>1, <2>1, <2>2, SumFrame DEF ReduceInv
<1> QED BY <1>5, <1>6, <1>7, <1>8, <1>9

\* The copying section hands the caller the full sum: all have added, none has cleared.
LEMMA CopyStep ==
    ASSUME Shared, ReduceOnly, ReduceInv, NEW t \in Threads, AllReduceCopy(t), TypeOK'
    PROVE  FlagUp' /\ FlagSet' /\ LongEnough' /\ BufferHolds' /\ SumCorrect'
<1> DEFINE k == call[t]
<1>0. TypeOK /\ TypeInv /\ BarrierInv
  BY DEF ReduceInv, BarrierInv, TypeInv
<1>1. /\ Active(t) /\ Op(t) = "all_reduce" /\ pc[t] = "run" /\ passed[t] = 1
      /\ world_size_' = world_size_ /\ prog' = prog /\ call' = call
      /\ passed' = passed /\ gen' = gen
      /\ barrier_gen_' = barrier_gen_ /\ reduce_cleared_' = reduce_cleared_
      /\ pc' = [pc EXCEPT ![t] = "arrive"] /\ size' = size
      /\ reduce_buffer_' = reduce_buffer_ /\ k \in Calls
  BY <1>0 DEF AllReduceCopy, Section, At, GoToBarrier, Active
<1>2. \A u \in Threads : Stretch(u)' = Stretch(u)
  BY <1>0, StretchKept DEF Collective
<1>3. \A u \in Threads : Stretch(u) = <<k, 1>>
  BY <1>0, <1>1, SameStretch
<1>4. \A u \in Threads : Through(u)' = Through(u) /\ Active(u)' = Active(u) /\ Op(u)' = Op(u)
  BY <1>0, <1>1 DEF TypeOK, Through, Released, Active, Op
<1>5. FlagUp'
  BY <1>1, <1>2, <1>4 DEF ReduceInv, FlagUp
<1>6. FlagSet'
  BY <1>0, <1>1 DEF ReduceInv, FlagSet, InReduce, Released, Active, Op, TypeOK
<1>7. LongEnough'
  BY <1>0, <1>1 DEF ReduceInv, LongEnough, Active, Op, N, TypeOK
<1>8. Added(k) = Threads /\ Added(k)' = Threads
  <2>1. ASSUME NEW u \in Threads PROVE call[u] = k /\ Through(u) = 1
    <3>1. Stretch(u) = <<k, 1>>
      BY <1>3
    <3>2. Stretch(u) # <<call[u] + 1, 0>>
      BY <3>1
    <3>3. Stretch(u) = <<call[u], Through(u)>>
      BY <3>2 DEF Stretch
    <3> QED BY <3>1, <3>3
  <2>2. \A u \in Threads : passed[u] > 0 \/ pc[u] # "run"
    BY <1>0, <2>1, SMTT(20) DEF Through, Released, TypeOK
  <2>3. \A u \in Threads : passed'[u] > 0 \/ pc'[u] # "run"
    BY <1>0, <1>1, <2>2 DEF TypeOK
  <2> QED BY <1>1, <2>1, <2>2, <2>3 DEF Added
<1>9. \A c \in Cells : Holding(<<k, 1>>, c)' = Holding(<<k, 1>>, c)
  BY <1>1, <1>8 DEF Holding
<1>10. BufferHolds'
  BY <1>1, <1>2, <1>3, <1>9 DEF ReduceInv, BufferHolds
<1>11. SumCorrect'
  <2>1. \A j \in Calls : HoldsResult(t, j)' => j = k
    BY <1>0, <1>1 DEF HoldsResult, TypeOK
  <2>2. \A c \in Cells : c <= prog[k].n => data'[t][c] = reduce_buffer_[c]
    BY <1>0 DEF AllReduceCopy, TypeOK, N
  <2>3. \A c \in Cells : c <= prog[k].n => reduce_buffer_[c] = SumOver(Threads, k)
    BY <1>1, <1>3, <1>8 DEF ReduceInv, BufferHolds, Holding, Op
  <2>4. Peers(t) = Threads
    BY <1>0, SharedSize DEF Peers
  <2>5. \A u \in Threads \ {t} : pc'[u] = pc[u] /\ data'[u] = data[u]
    BY <1>0, <1>1 DEF AllReduceCopy, TypeOK
  <2> QED BY <1>1, <2>1, <2>2, <2>3, <2>4, <2>5, SumFrame DEF ReduceInv
<1> QED BY <1>5, <1>6, <1>7, <1>10, <1>11

\* The clearing section empties the buffer once, after all have copied.
LEMMA ClearStep ==
    ASSUME Shared, ReduceOnly, ReduceInv, NEW t \in Threads, AllReduceClear(t), TypeOK'
    PROVE  FlagUp' /\ FlagSet' /\ LongEnough' /\ BufferHolds' /\ SumCorrect'
<1> DEFINE k == call[t]
<1>0. TypeOK /\ TypeInv /\ BarrierInv
  BY DEF ReduceInv, BarrierInv, TypeInv
<1>1. /\ Active(t) /\ Op(t) = "all_reduce" /\ pc[t] = "run" /\ passed[t] = 2
      /\ world_size_' = world_size_ /\ prog' = prog /\ call' = call
      /\ passed' = passed /\ gen' = gen
      /\ barrier_gen_' = barrier_gen_ /\ reduce_cleared_' = TRUE
      /\ pc' = [pc EXCEPT ![t] = "arrive"] /\ size' = size
      /\ data' = data /\ k \in Calls
  BY <1>0 DEF AllReduceClear, Section, At, GoToBarrier, Active
<1>2. \A u \in Threads : Stretch(u)' = Stretch(u)
  BY <1>0, StretchKept DEF Collective
<1>3. \A u \in Threads : Stretch(u) = <<k, 2>>
  BY <1>0, <1>1, SameStretch
<1>4. FlagUp'
  BY <1>2, <1>3 DEF FlagUp
<1>5. FlagSet'
  BY <1>1 DEF FlagSet
<1>6. LongEnough'
  BY <1>0, <1>1 DEF ReduceInv, LongEnough, Active, Op, N, TypeOK
<1>7. BufferHolds'
  <2>1. ASSUME NEW c \in Cells PROVE reduce_buffer_'[c] = Zero
    <3>1. reduce_buffer_[c] = Holding(<<k, 2>>, c)
      BY <1>3 DEF ReduceInv, BufferHolds
    <3>2. CASE reduce_cleared_ \/ ~(c <= N(t))
      BY <3>1, <3>2 DEF AllReduceClear, Holding, N
    <3>3. CASE ~reduce_cleared_ /\ c <= N(t)
      <4>1. N(t) <= size /\ N(t) \in Nat /\ size \in Nat /\ c \in Int
        BY <1>0, <1>1, OpTyped DEF ReduceInv, LongEnough, TypeOK, Cells
      <4>2. c <= size
        BY <3>3, <4>1
      <4> QED BY <3>3, <4>2 DEF AllReduceClear
    <3> QED BY <3>2, <3>3
  <2>2. \A u \in Threads, c \in Cells : Holding(Stretch(u), c)' = Zero
    BY <1>1, <1>2, <1>3 DEF Holding
  <2> QED BY <2>1, <2>2 DEF BufferHolds
<1>8. SumCorrect'
  <2>1. \A j \in Calls : HoldsResult(t, j)' => HoldsResult(t, j)
    BY <1>0, <1>1 DEF HoldsResult, TypeOK
  <2>2. \A u \in Threads \ {t} : pc'[u] = pc[u]
    BY <1>0, <1>1 DEF TypeOK
  <2>3. \A j \in Calls : HoldsResult(t, j)' /\ prog[j].op = "all_reduce" =>
          \A c \in Cells : c <= prog[j].n => data'[t][c] = SumOver(Peers(t), j)
    BY <1>1, <2>1 DEF ReduceInv, SumCorrect
  <2> QED BY <1>1, <2>2, <2>3, SumFrame DEF ReduceInv
<1> QED BY <1>4, <1>5, <1>6, <1>7, <1>8

\* The arming section lowers the flag when all are past the clearing section.
LEMMA ArmStep ==
    ASSUME Shared, ReduceOnly, ReduceInv, NEW t \in Threads, AllReduceArm(t), TypeOK'
    PROVE  FlagUp' /\ FlagSet' /\ LongEnough' /\ BufferHolds' /\ SumCorrect'
<1>0. TypeOK /\ TypeInv /\ BarrierInv
  BY DEF ReduceInv, BarrierInv, TypeInv
<1>k. PICK k \in Calls : k = call[t]
  BY DEF AllReduceArm, BarrierCall, BarrierReturn, Section, At, Active
<1>1. /\ Active(t) /\ Op(t) = "all_reduce" /\ pc[t] = "run" /\ passed[t] = 3
      /\ world_size_' = world_size_ /\ prog' = prog /\ pc' = pc
      /\ gen' = gen /\ data' = data /\ size' = size
      /\ barrier_gen_' = barrier_gen_ /\ reduce_cleared_' = FALSE
      /\ reduce_buffer_' = reduce_buffer_ /\ k \in Calls /\ k = call[t]
      /\ call' = [call EXCEPT ![t] = k + 1] /\ passed' = [passed EXCEPT ![t] = 0]
  BY <1>0, <1>k DEF AllReduceArm, Section, At, Return, Active, TypeOK
<1>2. \A u \in Threads : Stretch(u)' = Stretch(u)
  BY <1>0, StretchKept DEF Collective
<1>3. \A u \in Threads : Stretch(u) = <<k + 1, 0>>
  <2>1. Stretch(t) = <<k + 1, 0>>
    BY <1>1 DEF Stretch, Through, Released, BarriersOf
  <2> QED BY <1>0, <2>1 DEF BarrierInv, InStep
<1>4. FlagUp'
  BY <1>1 DEF FlagUp
<1>5. FlagSet'
  <2>1. ASSUME NEW u \in Threads, InReduce(u, 2), ~Released(u) PROVE FALSE
    <3>1. Stretch(u) = <<call[u], 2>>
      BY <2>1 DEF InReduce, Stretch, Through, BarriersOf
    <3> QED BY <1>3, <3>1
  <2>2. ASSUME NEW u \in Threads, u # t, InReduce(u, 2)', ~Released(u)' PROVE FALSE
    <3>1. InReduce(u, 2) /\ ~Released(u)
      BY <1>0, <1>1, <2>2 DEF InReduce, Released, Active, Op, TypeOK
    <3> QED BY <2>1, <3>1
  <2>3. pc'[t] = "run"
    BY <1>1
  <2> QED BY <2>2, <2>3 DEF FlagSet
<1>6. LongEnough'
  BY <1>0, <1>1 DEF ReduceInv, LongEnough, Active, Op, N, TypeOK
<1>7. Added(k + 1)' = Added(k + 1)
  BY <1>0, <1>1 DEF Added, TypeOK
<1>8. BufferHolds'
  BY <1>1, <1>2, <1>3, <1>7 DEF ReduceInv, BufferHolds, Holding
<1>9. SumCorrect'
  <2>1. \A j \in Calls : HoldsResult(t, j)' => HoldsResult(t, j)
    BY <1>0, <1>1 DEF HoldsResult, TypeOK, Calls
  <2>2. \A u \in Threads \ {t} : call'[u] = call[u] /\ passed'[u] = passed[u]
    BY <1>0, <1>1 DEF TypeOK
  <2>3. \A j \in Calls : HoldsResult(t, j)' /\ prog[j].op = "all_reduce" =>
          \A c \in Cells : c <= prog[j].n => data'[t][c] = SumOver(Peers(t), j)
    BY <1>1, <2>1 DEF ReduceInv, SumCorrect
  <2> QED BY <1>1, <2>2, <2>3, SumFrame DEF ReduceInv
<1> QED BY <1>4, <1>5, <1>6, <1>8, <1>9

\* A barrier() call of its own: entering and leaving it.
LEMMA LoneBarrierStep ==
    ASSUME Shared, ReduceOnly, ReduceInv, NEW t \in Threads,
           BarrierCall(t) \/ BarrierReturn(t), TypeOK'
    PROVE  FlagUp' /\ FlagSet' /\ LongEnough' /\ BufferHolds' /\ SumCorrect'
<1>0. TypeOK /\ TypeInv /\ BarrierInv
  BY DEF ReduceInv, BarrierInv, TypeInv
<1>k. PICK k \in Calls : k = call[t]
  BY DEF AllReduceArm, BarrierCall, BarrierReturn, Section, At, Active
<1>1. /\ Active(t) /\ Op(t) = "barrier" /\ pc[t] = "run"
      /\ world_size_' = world_size_ /\ prog' = prog /\ gen' = gen /\ data' = data /\ size' = size
      /\ barrier_gen_' = barrier_gen_ /\ reduce_cleared_' = reduce_cleared_
      /\ reduce_buffer_' = reduce_buffer_ /\ k \in Calls /\ k = call[t]
      /\ \/ /\ passed[t] = 0 /\ call' = call /\ passed' = passed
            /\ pc' = [pc EXCEPT ![t] = "arrive"]
         \/ /\ passed[t] = 1 /\ pc' = pc
            /\ call' = [call EXCEPT ![t] = k + 1] /\ passed' = [passed EXCEPT ![t] = 0]
  BY <1>0, <1>k DEF BarrierCall, BarrierReturn, At, GoToBarrier, Return, Active, TypeOK
<1>2. \A u \in Threads : Stretch(u)' = Stretch(u)
  BY <1>0, StretchKept DEF Collective
<1>3. \A u \in Threads \ {t} :
        /\ call'[u] = call[u] /\ passed'[u] = passed[u] /\ pc'[u] = pc[u]
        /\ Through(u)' = Through(u) /\ Active(u)' = Active(u) /\ Op(u)' = Op(u)
        /\ Released(u)' = Released(u) /\ N(u)' = N(u)
  BY <1>0, <1>1 DEF TypeOK, Through, Released, Active, Op, N
<1>4. passed'[t] = 0
  BY <1>0, <1>1 DEF TypeOK
<1>5. FlagUp'
  BY <1>1, <1>2, <1>3 DEF ReduceInv, FlagUp
<1>6. FlagSet'
  BY <1>1, <1>3, <1>4 DEF ReduceInv, FlagSet, InReduce
<1>7. LongEnough'
  <2>1. ~(Active(t)' /\ Op(t)' = "all_reduce" /\ (passed'[t] > 0 \/ pc'[t] # "run"))
    BY <1>0, <1>1, <1>4 DEF Active, Op, TypeOK
  <2> QED BY <1>1, <1>3, <2>1 DEF ReduceInv, LongEnough
<1>8. BufferHolds'
  <2>1. CASE passed[t] = 0
    <3>1. \A u \in Threads : Stretch(u) = <<k, 0>>
      <4>1. Stretch(t) = <<k, 0>>
        BY <1>1, <2>1 DEF Stretch, Through, Released, BarriersOf
      <4> QED BY <1>0, <4>1 DEF BarrierInv, InStep
    <3>2. prog[k].op = "barrier"
      BY <1>1 DEF Op
    <3> QED BY <1>1, <1>2, <3>1, <3>2 DEF ReduceInv, BufferHolds, Holding
  <2>2. CASE passed[t] = 1
    <3>1. \A u \in Threads : Stretch(u) = <<k + 1, 0>>
      <4>1. Stretch(t) = <<k + 1, 0>>
        BY <1>1, <2>2 DEF Stretch, Through, Released, BarriersOf
      <4> QED BY <1>0, <4>1 DEF BarrierInv, InStep
    <3>2. Added(k + 1)' = Added(k + 1)
      BY <1>0, <1>1, <2>2 DEF Added, TypeOK
    <3> QED BY <1>1, <1>2, <3>1, <3>2 DEF ReduceInv, BufferHolds, Holding
  <2> QED BY <1>1, <2>1, <2>2
<1>9. SumCorrect'
  <2>1. \A j \in Calls : HoldsResult(t, j)' => j = k
    BY <1>0, <1>1 DEF HoldsResult, TypeOK, Calls
  <2> QED BY <1>1, <1>3, <2>1, SumFrame DEF ReduceInv, Op
<1> QED BY <1>5, <1>6, <1>7, <1>8, <1>9

\* Falling asleep in a barrier and waking up change no sum.
LEMMA ArriveOrWakeStep ==
    ASSUME Shared, ReduceOnly, ReduceInv, NEW t \in Threads,
           BarrierArrive(t) \/ BarrierWake(t), TypeOK'
    PROVE  FlagUp' /\ FlagSet' /\ LongEnough' /\ BufferHolds' /\ SumCorrect'
<1>0. TypeOK /\ TypeInv /\ BarrierInv
  BY DEF ReduceInv, BarrierInv, TypeInv
<1>1. /\ pc[t] # "run" /\ world_size_' = world_size_ /\ prog' = prog
      /\ call' = call /\ data' = data /\ size' = size
      /\ barrier_gen_' = barrier_gen_ /\ reduce_cleared_' = reduce_cleared_
      /\ reduce_buffer_' = reduce_buffer_
      /\ \A u \in Threads \ {t} : passed'[u] = passed[u] /\ pc'[u] = pc[u] /\ gen'[u] = gen[u]
      /\ \/ passed' = passed /\ pc'[t] = "wait" /\ pc[t] = "arrive"
         \/ passed'[t] = passed[t] + 1 /\ pc'[t] = "run"
  BY <1>0 DEF BarrierArrive, BarrierWake, TypeOK
<1>2. \A u \in Threads : Stretch(u)' = Stretch(u)
  BY <1>0, StretchKept
<1>3. \A u \in Threads : Through(u)' = Through(u) /\ Active(u)' = Active(u) /\ Op(u)' = Op(u)
  BY <1>0 DEF BarrierArrive, BarrierWake, Through, Released, Active, Op, TypeOK
<1>4. FlagUp'
  BY <1>1, <1>2, <1>3 DEF ReduceInv, FlagUp
<1>5. FlagSet'
  <2>1. ASSUME NEW u \in Threads, InReduce(u, 2)', pc'[u] # "run", ~Released(u)'
        PROVE  reduce_cleared_
    <3>1. InReduce(u, 2) /\ pc[u] # "run" /\ ~Released(u)
      BY <1>0, <1>1, <1>3, <2>1 DEF InReduce, Released
    <3> QED BY <3>1 DEF ReduceInv, FlagSet
  <2> QED BY <1>1, <2>1 DEF FlagSet
<1>6. LongEnough'
  BY <1>0, <1>1 DEF ReduceInv, LongEnough, Active, Op, N, TypeOK
<1>7. \A k : Added(k)' = Added(k)
  <2>1. passed[t] \in 0 .. 3
    BY <1>0 DEF TypeOK
  <2> QED BY <1>1, <2>1 DEF Added
<1>8. BufferHolds'
  <2>1. \A u \in Threads, c \in Cells : Holding(Stretch(u), c)' = Holding(Stretch(u), c)
    BY <1>1, <1>2, <1>7 DEF Holding
  <2> QED BY <1>1, <2>1 DEF ReduceInv, BufferHolds
<1>9. SumCorrect'
  <2>1. \A j \in Calls : HoldsResult(t, j)' => HoldsResult(t, j)
    BY <1>0, <1>1, SMTT(20) DEF HoldsResult, TypeOK
  <2>2. \A j \in Calls : HoldsResult(t, j)' /\ prog[j].op = "all_reduce" =>
          \A c \in Cells : c <= prog[j].n => data'[t][c] = SumOver(Peers(t), j)
    BY <1>1, <2>1 DEF ReduceInv, SumCorrect
  <2> QED BY <1>1, <2>2, SumFrame DEF ReduceInv
<1> QED BY <1>4, <1>5, <1>6, <1>8, <1>9

\* Opening a barrier moves all threads to the next stretch, in which the buffer is right.
LEMMA OpenStep ==
    ASSUME Shared, ReduceOnly, ReduceInv, NEW t \in Threads, BarrierOpen(t), TypeOK'
    PROVE  FlagUp' /\ FlagSet' /\ LongEnough' /\ BufferHolds' /\ SumCorrect'
<1>0. TypeOK /\ TypeInv /\ BarrierInv
  BY DEF ReduceInv, BarrierInv, TypeInv
<1>1. \A u \in Threads :
        /\ call[u] = call[t] /\ passed[u] = passed[t]
        /\ Active(u) /\ passed[u] < BarriersOf(Op(u))
        /\ pc[u] # "run" /\ ~Released(u)
        /\ Stretch(u) = <<call[u], passed[u]>>
        /\ Through(u)' = passed[t] + 1
        /\ call'[u] = call[t] /\ prog' = prog
        /\ u # t => Released(u)'
  BY <1>0, AllInside
<1>2. PICK k \in Calls, p \in 0 .. 2 : k = call[t] /\ p = passed[t]
  <2>1. call[t] \in Calls /\ passed[t] \in 0 .. 3 /\ BarriersOf(Op(t)) \in 1 .. 3
    BY <1>0, <1>1, OpTyped DEF Active, TypeOK
  <2> QED BY <1>1, <2>1
<1>3. prog[k].op \in {"all_reduce", "barrier"} /\ (prog[k].op = "barrier" => p = 0)
  <2>1. prog[k].op \in {"all_reduce", "barrier"}
    BY <1>0, <1>2 DEF ReduceOnly, TypeOK
  <2> QED BY <1>1, <1>2, <2>1 DEF Op, BarriersOf
<1>4. /\ world_size_' = world_size_ /\ prog' = prog /\ call' = call
      /\ gen' = gen /\ data' = data /\ size' = size
      /\ reduce_buffer_' = reduce_buffer_ /\ reduce_cleared_' = reduce_cleared_
      /\ pc' = [pc EXCEPT ![t] = "run"] /\ passed' = [passed EXCEPT ![t] = p + 1]
  BY <1>0, <1>2 DEF BarrierOpen, TypeOK
<1>5. \A u \in Threads :
        Stretch(u)' = IF prog[k].op = "barrier" \/ p = 2 THEN <<k + 1, 0>> ELSE <<k, p + 1>>
  <2> SUFFICES ASSUME NEW u \in Threads
               PROVE  Stretch(u)' = IF prog[k].op = "barrier" \/ p = 2
                                    THEN <<k + 1, 0>> ELSE <<k, p + 1>>
    OBVIOUS
  <2>1. Through(u)' = p + 1 /\ call'[u] = k /\ Active(u)' /\ Op(u)' = prog[k].op
    BY <1>1, <1>2, <1>4 DEF Active, Op
  <2>2. BarriersOf(prog[k].op) = p + 1 <=> prog[k].op = "barrier" \/ p = 2
    BY <1>3 DEF BarriersOf
  <2>3. BarriersOf(Op(u))' = BarriersOf(prog[k].op)
    BY <2>1 DEF BarriersOf
  <2> QED BY <2>1, <2>2, <2>3 DEF Stretch
<1>6. p # 2 => ~reduce_cleared_
  <2>1. \A u \in Threads : Stretch(u)[2] = p /\ Through(u) = p
    BY <1>1, <1>2 DEF Through
  <2> QED BY <2>1 DEF ReduceInv, FlagUp
<1>7. FlagUp'
  <2>1. CASE p = 2
    BY <1>1, <1>2, <1>3, <1>4, <2>1 DEF FlagUp, Active, Op
  <2>2. CASE p # 2
    BY <1>4, <1>6, <2>2 DEF FlagUp
  <2> QED BY <2>1, <2>2
<1>8. FlagSet'
  <2>1. pc'[t] = "run"
    BY <1>0, <1>4 DEF TypeOK
  <2> QED BY <1>1, <2>1 DEF FlagSet
<1>9. LongEnough'
  BY <1>1, <1>4 DEF ReduceInv, LongEnough, Active, Op, N
<1>10. BufferHolds'
  <2>1. /\ Added(k) = Threads /\ Added(k)' = Threads
        /\ Added(k + 1)' = {}
    <3>1. \A u \in Threads : call[u] = k /\ pc[u] # "run"
      BY <1>1, <1>2
    <3>2. \A u \in Threads : call'[u] = k /\ (passed'[u] > 0 \/ pc'[u] # "run")
      BY <1>0, <1>2, <1>4, <3>1 DEF TypeOK
    <3> QED BY <3>1, <3>2 DEF Added, Calls
  <2>2. \A c \in Cells : reduce_buffer_[c] = Holding(<<k, p>>, c)
    BY <1>1, <1>2 DEF ReduceInv, BufferHolds
  <2>3. SumOver(Added(k + 1)', k + 1) = Zero
    BY <2>1, SumLemma
  <2>4. CASE prog[k].op = "barrier"
    BY <1>4, <1>5, <2>2, <2>3, <2>4 DEF BufferHolds, Holding
  <2>5. CASE prog[k].op = "all_reduce" /\ p = 2
    <3>1. reduce_cleared_
      BY <1>1, <1>2, <2>5 DEF ReduceInv, FlagSet, InReduce, Op
    <3> QED BY <1>4, <1>5, <2>2, <2>3, <2>5, <3>1 DEF BufferHolds, Holding
  <2>6. CASE prog[k].op = "all_reduce" /\ p # 2
    <3>1. \A c \in Cells : Holding(<<k, p>>, c) = Holding(<<k, p + 1>>, c)'
      BY <1>2, <1>4, <1>6, <2>1, <2>6 DEF Holding
    <3>2. \A u \in Threads : Stretch(u)' = <<k, p + 1>>
      BY <1>5, <2>6
    <3> QED BY <1>4, <2>2, <3>1, <3>2 DEF BufferHolds
  <2> QED BY <1>3, <2>4, <2>5, <2>6
<1>11. SumCorrect'
  <2>1. \A j \in Calls : HoldsResult(t, j)' => HoldsResult(t, j)
    BY <1>0, <1>1, <1>2, <1>4 DEF HoldsResult, TypeOK
  <2>2. \A j \in Calls : HoldsResult(t, j)' /\ prog[j].op = "all_reduce" =>
          \A c \in Cells : c <= prog[j].n => data'[t][c] = SumOver(Peers(t), j)
    BY <1>4, <2>1 DEF ReduceInv, SumCorrect
  <2>3. \A u \in Threads \ {t} : passed'[u] = passed[u] /\ pc'[u] = pc[u]
    BY <1>0, <1>4 DEF TypeOK
  <2> QED BY <1>4, <2>2, <2>3, SumFrame DEF ReduceInv
<1> QED BY <1>7, <1>8, <1>9, <1>10, <1>11

\* Every step of a program of all_reduces and barriers preserves ReduceInv.
LEMMA ReduceStep == Shared /\ ReduceOnly /\ ReduceInv /\ [Next]_vars => ReduceInv'
<1> SUFFICES ASSUME Shared, ReduceOnly, ReduceInv, [Next]_vars PROVE ReduceInv'
  OBVIOUS
<1>0. BarrierInv /\ BarrierInv' /\ TypeOK /\ TypeOK'
  BY BarrierStep DEF ReduceInv, BarrierInv, TypeInv
<1>1. CASE UNCHANGED vars
  <2>1. \A u \in Threads : /\ Stretch(u)' = Stretch(u) /\ Through(u)' = Through(u)
                            /\ Released(u)' = Released(u)
    BY <1>1 DEF vars, Stretch, Through, Released, Active, Op
  <2>2. \A k : Added(k)' = Added(k)
    BY <1>1 DEF vars, Added
  <2>3. FlagUp' /\ FlagSet' /\ LongEnough'
    BY <1>1, <2>1 DEF vars, ReduceInv, FlagUp, FlagSet, LongEnough, InReduce, Active, Op, N
  <2>4. BufferHolds'
    BY <1>1, <2>1, <2>2 DEF vars, ReduceInv, BufferHolds, Holding
  <2>5. SumCorrect'
    BY <1>1 DEF vars, ReduceInv, SumCorrect, HoldsResult, Peers
  <2> QED BY <1>0, <2>3, <2>4, <2>5 DEF ReduceInv
<1>2. ASSUME NEW t \in Threads, Collective(t) PROVE ReduceInv'
  <2>1. /\ ~BroadcastWrite(t) /\ ~BroadcastCopy(t) /\ ~BroadcastReturn(t)
        /\ ~AllGatherPut(t) /\ ~AllGatherCopy(t) /\ ~AllGatherReturn(t)
        /\ ~SingleRankReturn(t)
    <3>1. Active(t) => Op(t) \in {"all_reduce", "barrier"}
      BY <1>0 DEF ReduceOnly, TypeOK, Active, Op
    <3> QED
      BY <1>0, <3>1, SharedSize DEF BroadcastWrite, BroadcastCopy, BroadcastReturn,
           AllGatherPut, AllGatherCopy, AllGatherReturn, SingleRankReturn, Section, At
  <2>2. FlagUp' /\ FlagSet' /\ LongEnough' /\ BufferHolds' /\ SumCorrect'
    BY <1>0, <1>2, <2>1, AddStep, CopyStep, ClearStep, ArmStep, LoneBarrierStep
    DEF Collective
  <2> QED BY <1>0, <2>2 DEF ReduceInv
<1>3. ASSUME NEW t \in Threads, BarrierArrive(t) \/ BarrierWake(t) PROVE ReduceInv'
  BY <1>0, <1>3, ArriveOrWakeStep DEF ReduceInv
<1>4. ASSUME NEW t \in Threads, BarrierOpen(t) PROVE ReduceInv'
  BY <1>0, <1>4, OpenStep DEF ReduceInv
<1> QED
  BY <1>1, <1>2, <1>3, <1>4 DEF Next, Step

\* all_reduce() returns to every thread the sum over all threads of exactly
\* this call, for any number of threads, any number of calls and any lengths,
\* in every interleaving of the add, copy, clear and arm sections.
THEOREM ReductionCorrect ==
    ASSUME Shared, ReduceOnly
    PROVE  Spec => []SumCorrect
  <1>1. ReduceInv => SumCorrect
    BY DEF ReduceInv
  <1>2. ReduceInv /\ [Next]_vars => ReduceInv'
    BY ReduceStep
  <1> QED BY ReduceInit, <1>1, <1>2, PTL DEF Spec

\* all_reduce() leaves nothing in the shared buffer for the next collective,
\* and never clears a sum that some thread has yet to copy.
THEOREM BufferCorrect ==
    ASSUME Shared, ReduceOnly
    PROVE  Spec => []BufferExact
  <1>1. ReduceInv => BufferExact
    BY DEF ReduceInv, BufferExact
  <1>2. ReduceInv /\ [Next]_vars => ReduceInv'
    BY ReduceStep
  <1> QED BY ReduceInit, <1>1, <1>2, PTL DEF Spec

=============================================================================
