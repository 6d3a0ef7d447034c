--------------------------- MODULE RolloutBuffer ---------------------------
(***************************************************************************)
(* AsyncRolloutBuffer and RolloutWorker::produce_to                        *)
(* (src/trainer/rollout_worker.cpp).  Workers push trajectories, numbered  *)
(* in the order of their push, and retry a bounded number of times when    *)
(* the buffer is full; consumers pop until the buffer is closed and empty. *)
(*                                                                         *)
(* Every method is one critical section of mutex_ and so one action, the   *)
(* wait of pop() excepted, which releases the mutex.  A trajectory is      *)
(* <<worker, prompt>>; its tokens are the model's business.                *)
(***************************************************************************)
EXTENDS Integers, Sequences, FiniteSets

CONSTANTS
    Producers,   \* threads in produce_to()
    Consumers,   \* threads in while (buf.pop(t))
    NPrompts,    \* prompts.size() of every produce_to()
    Capacity,    \* capacity_, at least 1 after the constructor
    MaxRetries   \* 10000 in the code

ASSUME ConstantsAssumption ==
    /\ NPrompts \in Nat
    /\ Capacity \in Nat \ {0} /\ MaxRetries \in Nat \ {0}

Trajectories == Producers \X (1 .. NPrompts)

VARIABLES
    queue_,      \* seq -> trajectory
    next_seq_,
    closed_,
    prompt,      \* prompt[p]: the prompt p is at, NPrompts + 1 when it has returned
    retry,
    ppc,         \* "push" or "check" (closed() after a failed push)
    cpc,         \* "call" pop(), "sleep" in its wait, "woken", or "done": pop() was false
    popped       \* what the consumers got, in order

vars == <<queue_, next_seq_, closed_, prompt, retry, ppc, cpc, popped>>
producers == <<prompt, retry, ppc>>

-----------------------------------------------------------------------------

Seqs == DOMAIN queue_
Full == Cardinality(Seqs) >= Capacity
First == CHOOSE s \in Seqs : \A r \in Seqs : s <= r      \* queue_.begin()

\* notify_one: some sleeper, if there is one.
NotifyOne ==
    IF \E c \in Consumers : cpc[c] = "sleep"
    THEN \E c \in Consumers : cpc[c] = "sleep" /\ cpc' = [cpc EXCEPT ![c] = "woken"]
    ELSE UNCHANGED cpc

\* The loop over prompts: on to the next one, or return.
NextPrompt(p) ==
    /\ prompt' = [prompt EXCEPT ![p] = @ + 1]
    /\ retry' = [retry EXCEPT ![p] = 0]
    /\ ppc' = [ppc EXCEPT ![p] = "push"]

Working(p, at) == prompt[p] <= NPrompts /\ ppc[p] = at

Insert(p) ==
    /\ queue_' = [s \in Seqs \cup {next_seq_} |->
                    IF s = next_seq_ THEN <<p, prompt[p]>> ELSE queue_[s]]
    /\ next_seq_' = next_seq_ + 1
    /\ NotifyOne

\* Mutants: a push that succeeded is tried again, a closed buffer takes one
\* more, the consumers are not notified.
PushAgain(p) ==
    /\ Working(p, "push") /\ ~closed_ /\ ~Full
    /\ Insert(p)
    /\ ppc' = [ppc EXCEPT ![p] = "check"]
    /\ UNCHANGED <<closed_, popped, prompt, retry>>
PushAfterClose(p) ==
    /\ Working(p, "push") /\ ~Full
    /\ Insert(p) /\ NextPrompt(p)
    /\ UNCHANGED <<closed_, popped>>
PushSilently(p) ==
    /\ Working(p, "push") /\ ~closed_ /\ ~Full
    /\ queue_' = [s \in Seqs \cup {next_seq_} |->
                    IF s = next_seq_ THEN <<p, prompt[p]>> ELSE queue_[s]]
    /\ next_seq_' = next_seq_ + 1 /\ NextPrompt(p)
    /\ UNCHANGED <<closed_, popped, cpc>>

\* push() succeeds.
Push(p) ==
    /\ Working(p, "push") /\ ~closed_ /\ ~Full
    /\ Insert(p)
    /\ NextPrompt(p)
    /\ UNCHANGED <<closed_, popped>>

\* push() fails: closed, or full.
PushRefused(p) ==
    /\ Working(p, "push") /\ (closed_ \/ Full)
    /\ ppc' = [ppc EXCEPT ![p] = "check"]
    /\ UNCHANGED <<queue_, next_seq_, closed_, prompt, retry, cpc, popped>>

\* closed() after a failed push: return, retry, or give this trajectory up.
CheckClosed(p) ==
    /\ Working(p, "check") /\ closed_
    /\ prompt' = [prompt EXCEPT ![p] = NPrompts + 1]
    /\ UNCHANGED <<queue_, next_seq_, closed_, retry, ppc, cpc, popped>>

Retry(p) ==
    /\ Working(p, "check") /\ ~closed_
    /\ retry[p] + 1 < MaxRetries
    /\ retry' = [retry EXCEPT ![p] = @ + 1]
    /\ ppc' = [ppc EXCEPT ![p] = "push"]
    /\ UNCHANGED <<queue_, next_seq_, closed_, prompt, cpc, popped>>

GiveUp(p) ==
    /\ Working(p, "check") /\ ~closed_
    /\ retry[p] + 1 >= MaxRetries
    /\ NextPrompt(p)
    /\ UNCHANGED <<queue_, next_seq_, closed_, cpc, popped>>

-----------------------------------------------------------------------------

\* The element with number s leaves the buffer.
Take(s) ==
    /\ popped' = Append(popped, queue_[s])
    /\ queue_' = [r \in Seqs \ {s} |-> queue_[r]]
    /\ UNCHANGED <<next_seq_, closed_, producers>>

Awake(c) == cpc[c] \in {"call", "woken"}

\* Mutants: the wait does not look at closed_; pop() gives up with elements left.
PopSleepThroughClose(c) ==
    /\ Awake(c) /\ Seqs = {}
    /\ cpc' = [cpc EXCEPT ![c] = "sleep"]
    /\ UNCHANGED <<queue_, next_seq_, closed_, producers, popped>>
PopEndAnyway(c) ==
    /\ Awake(c) /\ (closed_ \/ (cpc[c] = "woken" /\ Seqs = {}))
    /\ cpc' = [cpc EXCEPT ![c] = "done"]
    /\ UNCHANGED <<queue_, next_seq_, closed_, producers, popped>>

\* pop(), entered or woken: the first element; false; or (back) to sleep.
PopTake(c) == Awake(c) /\ Seqs # {} /\ Take(First) /\ cpc' = [cpc EXCEPT ![c] = "call"]

PopEnd(c) ==
    /\ Awake(c) /\ Seqs = {} /\ closed_
    /\ cpc' = [cpc EXCEPT ![c] = "done"]
    /\ UNCHANGED <<queue_, next_seq_, closed_, producers, popped>>

PopSleep(c) ==
    /\ Awake(c) /\ Seqs = {} /\ ~closed_
    /\ cpc' = [cpc EXCEPT ![c] = "sleep"]
    /\ UNCHANGED <<queue_, next_seq_, closed_, producers, popped>>

\* A wake-up nobody sent.
Spurious(c) ==
    /\ cpc[c] = "sleep"
    /\ cpc' = [cpc EXCEPT ![c] = "woken"]
    /\ UNCHANGED <<queue_, next_seq_, closed_, producers, popped>>

\* try_pop() by any thread; on an empty buffer it changes nothing.
TryPop == Seqs # {} /\ Take(First) /\ UNCHANGED cpc

Close ==
    /\ ~closed_
    /\ closed_' = TRUE
    /\ cpc' = [c \in Consumers |-> IF cpc[c] = "sleep" THEN "woken" ELSE cpc[c]]
    /\ UNCHANGED <<queue_, next_seq_, producers, popped>>

-----------------------------------------------------------------------------

Init ==
    /\ queue_ = [s \in {} |-> 0] /\ next_seq_ = 0 /\ closed_ = FALSE
    /\ prompt = [p \in Producers |-> 1]
    /\ retry = [p \in Producers |-> 0]
    /\ ppc = [p \in Producers |-> "push"]
    /\ cpc = [c \in Consumers |-> "call"]
    /\ popped = << >>

Produce(p) == Push(p) \/ PushRefused(p) \/ CheckClosed(p) \/ Retry(p) \/ GiveUp(p)
Pop(c) == PopTake(c) \/ PopEnd(c) \/ PopSleep(c)

Next ==
    \/ \E p \in Producers : Produce(p)
    \/ \E c \in Consumers : Pop(c) \/ Spurious(c)
    \/ TryPop \/ Close

Spec == Init /\ [][Next]_vars

\* The threads are scheduled; nobody need ever call try_pop() or close(), and
\* no spurious wake-up need ever come.
FairSpec ==
    /\ Spec
    /\ \A p \in Producers : WF_vars(Produce(p))
    /\ \A c \in Consumers : WF_vars(Pop(c))

-----------------------------------------------------------------------------
(* Properties.                                                             *)

\* Every variable has its type; the numbers in the buffer are those handed
\* out and not yet taken, so size() never exceeds the capacity.
TypeOK ==
    /\ next_seq_ \in Nat /\ closed_ \in BOOLEAN
    /\ popped \in Seq(Trajectories)
    /\ queue_ \in [Len(popped) .. next_seq_ - 1 -> Trajectories]
    /\ next_seq_ - Len(popped) \in 0 .. Capacity
    /\ prompt \in [Producers -> 1 .. NPrompts + 1]
    /\ retry \in [Producers -> 0 .. MaxRetries - 1]
    /\ ppc \in [Producers -> {"push", "check"}]
    /\ cpc \in [Consumers -> {"call", "sleep", "woken", "done"}]

\* The trajectories accepted so far: those handed out, then those replay() lists.
Accepted ==
    [i \in 1 .. next_seq_ |-> IF i <= Len(popped) THEN popped[i] ELSE queue_[i - 1]]

Fifo == INSTANCE FifoQueue WITH
            Items <- Trajectories, accepted <- Accepted, delivered <- popped, shut <- closed_

\* "Ordering is ALWAYS deterministic (sequence-numbered map, FIFO by push
\* order)": the buffer implements the bounded queue of FifoQueue.
IsFifo == Fifo!Spec

\* produce_to() offers a trajectory again until it is in, or given up after the
\* last of its attempts, and then never again: however its pushes, retries and
\* the other workers interleave, a worker's trajectories are accepted in the
\* order of its prompts, none twice.  One that was given up is not among them.
ProducerOrder ==
    \A i, j \in 1 .. next_seq_ :
        i < j /\ Accepted[i][1] = Accepted[j][1] => Accepted[i][2] < Accepted[j][2]

\* "Blocking pop; returns false only when closed AND empty": a consumer that
\* has left its loop has left nothing behind, and nothing can come any more.
FalseMeansOver ==
    (\E c \in Consumers : cpc[c] = "done") => closed_ /\ Seqs = {}

\* "close() wakes all waiters so shutdown never deadlocks".
CloseEnds == closed_ ~> \A c \in Consumers : cpc[c] = "done"

\* produce_to() returns, whatever the consumers do, and with a consumer at work
\* every accepted trajectory is taken.
AllTaken == <>[](Seqs = {} /\ \A p \in Producers : prompt[p] > NPrompts)

=============================================================================
