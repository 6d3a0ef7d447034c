-------------------------- MODULE ParameterServer --------------------------
(***************************************************************************)
(* ParameterServer (src/trainer/distributed.cpp) on a PS node: parameters  *)
(* under global_mtx_, gradients set aside under stale_mtx_, and a queue of *)
(* asynchronous operations under async_mtx_ that one worker thread serves. *)
(*                                                                         *)
(* One action per critical section; sections that nest take their second   *)
(* mutex in a step of their own.  A parameter is abstracted to the push it *)
(* was last set by and how often each gradient was subtracted from it, at  *)
(* its learning rate (full) and as a stale one at 0.5 (half).              *)
(*                                                                         *)
(* flush_async, remove_param and clear_params are private members that     *)
(* nothing in the repository calls: no step of the program is theirs, so   *)
(* they are no actions here and the worker alone takes from the queue.     *)
(***************************************************************************)
EXTENDS Integers, Sequences, FiniteSets

CONSTANTS
    Names,      \* parameters this node owns
    Callers,    \* threads that use the server
    Worker,     \* the thread async_worker_
    None,       \* no thread, no entry, no operation
    MaxCalls,   \* bound on the calls of all threads
    MaxStale,   \* max_stale_grads_, 64 in the code
    MaxLag      \* stale gradients of more versions ago are dropped, 5 in the code

Threads == Callers \cup {Worker}
Ids == 1 .. MaxCalls
Kinds == {"push", "grad", "pull"}
Ops == [id : Ids, kind : Kinds, name : Names]

ASSUME ConstantsAssumption ==
    /\ Worker \notin Callers /\ None \notin Threads \cup Ops
    /\ MaxCalls \in Nat /\ MaxStale \in Nat /\ MaxLag \in Nat

VARIABLES
    params_,         \* name -> entry or None
    stale_queue_,
    async_queue_,
    async_running_,
    global_mtx_,     \* the thread that holds it, or None
    stale_mtx_,
    th,              \* th[t]: where thread t is, the operation it is processing
    calls,           \* calls made so far; the number of a call names its operation
    async,           \* operations that went through the queue
    processed        \* processed[i]: how often operation i was processed

vars == <<params_, stale_queue_, async_queue_, async_running_, global_mtx_, stale_mtx_,
          th, calls, async, processed>>
queues == <<async_queue_, async_running_, calls, async>>
data == <<params_, stale_queue_, processed>>

-----------------------------------------------------------------------------

Goto(t, pc) == th' = [th EXCEPT ![t].pc = pc]
At(t, pc) == th[t].pc = pc
Op(t) == th[t].op

\* async_mtx_ is held across steps only by the worker about to block in its wait.
AsyncFree == ~At(Worker, "block")

\* The operation in hand is processed: a call returns, the worker goes on to the
\* stale gradients.
Finish(t) ==
    /\ th' = [th EXCEPT ![t] = [pc |-> IF t = Worker THEN "drain" ELSE "idle", op |-> None]]
    /\ processed' = [processed EXCEPT ![Op(t).id] = @ + 1]

NewCall == calls < MaxCalls /\ calls' = calls + 1

-----------------------------------------------------------------------------
(* The calls.                                                              *)

\* push, update_gradient: at once, in the caller's thread.
CallSync(t, kind, n) ==
    /\ At(t, "idle") /\ kind # "pull" /\ NewCall
    /\ th' = [th EXCEPT ![t] = [pc |-> "work", op |-> [id |-> calls + 1, kind |-> kind, name |-> n]]]
    /\ UNCHANGED <<data, async_queue_, async_running_, async, global_mtx_, stale_mtx_>>

\* push_async, pull_async, update_gradient_async: queue it and notify the worker.
\* pull_async also reads the parameter, at once.
CallAsync(t, kind, n) ==
    /\ At(t, "idle") /\ AsyncFree /\ NewCall
    /\ async_queue_' = Append(async_queue_, [id |-> calls + 1, kind |-> kind, name |-> n])
    /\ async' = async \cup {calls + 1}
    /\ th' = [th EXCEPT ![Worker].pc = IF @ = "sleep" THEN "lock" ELSE @]
    /\ UNCHANGED <<data, async_running_, global_mtx_, stale_mtx_>>

\* shutdown: the flag and the notification, neither of them under async_mtx_.
Shutdown(t) ==
    /\ At(t, "idle") /\ async_running_
    /\ async_running_' = FALSE
    /\ th' = [th EXCEPT ![t].pc = "join", ![Worker].pc = IF @ = "sleep" THEN "lock" ELSE @]
    /\ UNCHANGED <<data, async_queue_, calls, async, global_mtx_, stale_mtx_>>

Join(t) ==
    /\ At(t, "join") /\ At(Worker, "done")
    /\ Goto(t, "idle")
    /\ UNCHANGED <<data, queues, global_mtx_, stale_mtx_>>

-----------------------------------------------------------------------------
(* Processing an operation, in a caller's thread or the worker's.          *)

Zero == [i \in Ids |-> 0]

\* process_push.
ProcessPush(t) ==
    /\ At(t, "work") /\ Op(t).kind = "push" /\ global_mtx_ = None
    /\ params_' = [params_ EXCEPT ![Op(t).name] =
                     [version |-> IF @ = None THEN 1 ELSE @.version + 1,
                      base |-> Op(t).id, full |-> Zero, half |-> Zero]]
    /\ Finish(t)
    /\ UNCHANGED <<stale_queue_, queues, global_mtx_, stale_mtx_>>

\* A pull in the queue is neither a gradient nor a push.
ProcessPull ==
    /\ At(Worker, "work") /\ Op(Worker).kind = "pull"
    /\ Finish(Worker)
    /\ UNCHANGED <<params_, stale_queue_, queues, global_mtx_, stale_mtx_>>

\* process_gradient: an unknown parameter is ignored, ...
GradUnknown(t) ==
    /\ At(t, "work") /\ Op(t).kind = "grad" /\ global_mtx_ = None
    /\ params_[Op(t).name] = None
    /\ Finish(t)
    /\ UNCHANGED <<params_, stale_queue_, queues, global_mtx_, stale_mtx_>>

\* ... else global_mtx_ is held while stale_mtx_ is taken, ...
GradGlobal(t) ==
    /\ At(t, "work") /\ Op(t).kind = "grad" /\ global_mtx_ = None
    /\ params_[Op(t).name] # None
    /\ global_mtx_' = t /\ Goto(t, "grad_stale")
    /\ UNCHANGED <<data, queues, stale_mtx_>>

GradStale(t) ==
    /\ At(t, "grad_stale") /\ stale_mtx_ = None
    /\ stale_mtx_' = t /\ Goto(t, "grad_apply")
    /\ UNCHANGED <<data, queues, global_mtx_>>

\* ... the gradient is set aside, if there is room, and applied.
GradApply(t) ==
    /\ At(t, "grad_apply")
    /\ LET op == Op(t)
           e == params_[op.name]
       IN /\ stale_queue_' =
               IF e.version > 0 /\ Len(stale_queue_) < MaxStale
               THEN Append(stale_queue_, [id |-> op.id, name |-> op.name, version |-> e.version])
               ELSE stale_queue_
          /\ params_' = [params_ EXCEPT ![op.name].full[op.id] = @ + 1,
                                        ![op.name].version = @ + 1]
    /\ Finish(t)
    /\ global_mtx_' = None /\ stale_mtx_' = None
    /\ UNCHANGED queues

\* apply_stale_gradients, after each operation of the worker: both mutexes,
\* global_mtx_ first.
\* Mutant: the order before the fix.
DrainStaleFirst ==
    \/ /\ At(Worker, "drain") /\ stale_mtx_ = None
       /\ stale_mtx_' = Worker /\ Goto(Worker, "drain_stale")
       /\ UNCHANGED <<data, queues, global_mtx_>>
    \/ /\ At(Worker, "drain_stale") /\ stale_mtx_ = Worker /\ global_mtx_ = None
       /\ global_mtx_' = Worker /\ Goto(Worker, "drain_apply")
       /\ UNCHANGED <<data, queues, stale_mtx_>>

DrainLock ==
    \/ /\ At(Worker, "drain") /\ global_mtx_ = None
       /\ global_mtx_' = Worker /\ Goto(Worker, "drain_stale")
       /\ UNCHANGED <<data, queues, stale_mtx_>>
    \/ /\ At(Worker, "drain_stale") /\ stale_mtx_ = None
       /\ stale_mtx_' = Worker /\ Goto(Worker, "drain_apply")
       /\ UNCHANGED <<data, queues, global_mtx_>>

\* The stale gradients of parameter n that are not too old for it.
Fresh(n, i) ==
    Cardinality({k \in 1 .. Len(stale_queue_) :
        /\ stale_queue_[k].name = n /\ stale_queue_[k].id = i
        /\ ~(stale_queue_[k].version < params_[n].version - MaxLag)})

\* They are subtracted and the queue becomes `rest`.
DrainTo(rest) ==
    /\ At(Worker, "drain_apply")
    /\ params_' = [n \in Names |->
                     IF params_[n] = None THEN None
                     ELSE [params_[n] EXCEPT !.half = [i \in Ids |-> @[i] + Fresh(n, i)]]]
    /\ stale_queue_' = rest
    /\ global_mtx_' = None /\ stale_mtx_' = None
    /\ Goto(Worker, "top")
    /\ UNCHANGED <<processed, queues>>

\* Mutant: the queue is not cleared.
DrainApplyKeeps == DrainTo(stale_queue_)

DrainApply == DrainTo(<< >>)

-----------------------------------------------------------------------------
(* async_worker_loop.                                                      *)

WorkerTop ==
    /\ At(Worker, "top")
    /\ Goto(Worker, IF async_running_ THEN "lock" ELSE "done")
    /\ UNCHANGED <<data, queues, global_mtx_, stale_mtx_>>

\* The wait's predicate, entered or woken: take one operation, ...
WorkerTakes(op, rest) ==
    /\ At(Worker, "lock") /\ async_running_ /\ async_queue_ # << >>
    /\ th' = [th EXCEPT ![Worker] = [pc |-> "work", op |-> op]]
    /\ async_queue_' = rest
    /\ UNCHANGED <<data, async_running_, calls, async, global_mtx_, stale_mtx_>>

\* Mutants: the youngest; the oldest, without the pop.
WorkerTakeLast ==
    WorkerTakes(async_queue_[Len(async_queue_)], SubSeq(async_queue_, 1, Len(async_queue_) - 1))
WorkerPeeks == WorkerTakes(Head(async_queue_), async_queue_)

WorkerTake == WorkerTakes(Head(async_queue_), Tail(async_queue_))

\* ... return whatever is still queued, or block: the mutex is still held here, ...
WorkerWait ==
    /\ At(Worker, "lock") /\ (~async_running_ \/ async_queue_ = << >>)
    /\ Goto(Worker, IF async_running_ THEN "block" ELSE "done")
    /\ UNCHANGED <<data, queues, global_mtx_, stale_mtx_>>

\* ... and here it is released and the worker can be notified.
WorkerBlock ==
    /\ At(Worker, "block")
    /\ Goto(Worker, "sleep")
    /\ UNCHANGED <<data, queues, global_mtx_, stale_mtx_>>

-----------------------------------------------------------------------------

Init ==
    /\ params_ = [n \in Names |-> None]
    /\ stale_queue_ = << >> /\ async_queue_ = << >>
    /\ async_running_ = TRUE
    /\ global_mtx_ = None /\ stale_mtx_ = None
    /\ th = [t \in Threads |-> [pc |-> IF t = Worker THEN "top" ELSE "idle", op |-> None]]
    /\ calls = 0 /\ async = {}
    /\ processed = Zero

Process(t) ==
    \/ ProcessPush(t)
    \/ GradUnknown(t) \/ GradGlobal(t) \/ GradStale(t) \/ GradApply(t)

Call(t) ==
    \/ \E kind \in Kinds, n \in Names : CallSync(t, kind, n) \/ CallAsync(t, kind, n)
    \/ Shutdown(t)

WorkerStep ==
    \/ WorkerTop \/ WorkerTake \/ WorkerWait \/ WorkerBlock
    \/ Process(Worker) \/ ProcessPull \/ DrainLock \/ DrainApply

Next == WorkerStep \/ \E t \in Callers : Call(t) \/ Process(t) \/ Join(t)

Spec == Init /\ [][Next]_vars

\* The threads are scheduled and a free mutex is granted; nobody need call
\* anything.
FairSpec ==
    /\ Spec
    /\ WF_vars(WorkerStep)
    /\ \A t \in Callers : WF_vars(Process(t) \/ Join(t))

-----------------------------------------------------------------------------
(* Properties.                                                             *)

Holds(t) == CASE th[t].pc \in {"grad_stale", "drain_stale"} -> {"global"}
              [] th[t].pc \in {"grad_apply", "drain_apply"} -> {"global", "stale"}
              [] OTHER -> {}

\* Types, and a mutex belongs to the thread whose place in the code holds it.
TypeOK ==
    /\ params_ \in [Names -> {None} \cup
         [version : Nat, base : Ids, full : [Ids -> Nat], half : [Ids -> Nat]]]
    /\ async_queue_ \in Seq(Ops) /\ async_running_ \in BOOLEAN
    /\ Len(stale_queue_) <= MaxStale
    /\ processed \in [Ids -> Nat] /\ calls \in 0 .. MaxCalls /\ async \subseteq 1 .. calls
    /\ \A t \in Threads :
         /\ global_mtx_ = t <=> "global" \in Holds(t)
         /\ stale_mtx_ = t <=> "stale" \in Holds(t)
         /\ th[t].pc \in {"work", "grad_stale", "grad_apply"} <=> th[t].op # None

\* How often operation i is in a sequence of operations, and in a thread's hands.
Times(i, s) == Cardinality({k \in 1 .. Len(s) : s[k].id = i})
InHand(t, i) == IF th[t].op # None /\ th[t].op.id = i THEN 1 ELSE 0

\* push_async, pull_async, update_gradient_async: an accepted operation is
\* waiting, in the worker's hands, or processed, exactly one of these and once,
\* with callers that append, and process operations of their own, at any moment.
ExactlyOnce ==
    \A i \in async : processed[i] + Times(i, async_queue_) + InHand(Worker, i) = 1

\* The operations of the queue take effect in the order in which they were
\* accepted, whichever callers they came from: none is processed while an older
\* one is not.
InOrder == \A i, j \in async : i < j /\ processed[j] > 0 => processed[i] > 0

\* process_gradient and apply_stale_gradients: a gradient reaches its parameter
\* once at its learning rate and at most once more as a stale one, although the
\* callers add to the stale queue that the worker drains.
GradientOnce ==
    \A n \in Names, i \in Ids : params_[n] # None =>
        /\ params_[n].full[i] <= 1
        /\ params_[n].half[i] + Times(i, stale_queue_) <= 1

\* Every queued operation is processed, unless the server is shut down first:
\* no wake-up is lost to the queue, and the nested mutexes never block each
\* other ("Global order is now: global_mtx_ before stale_mtx_, everywhere").
Processed == <>[](async_running_ => \A i \in async : processed[i] = 1)

=============================================================================
