---------------------------- MODULE ModelServer ----------------------------
(***************************************************************************)
(* ModelServer (src/server/production_api.cpp): requests in a queue by     *)
(* priority and age, workers that take them in batches, run the model and  *)
(* call the requests' callbacks, and the metrics they keep.                *)
(*                                                                         *)
(* queue_mutex_ makes taking a batch one action; the metrics are atomics,  *)
(* one action per access where the order of accesses matters.  The model   *)
(* (external) returns, or throws.  Prompts, tokens and latencies are left  *)
(* out; a request of Long asks for more than one token, which runs the     *)
(* model again, outside the try block.                                     *)
(***************************************************************************)
EXTENDS Integers, FiniteSets, FiniteSetsExt, Sequences

CONSTANTS
    Workers,
    Requests,
    MaxBatch,    \* max_batch_size_
    prio,        \* prio[r]: the request's priority
    Long,        \* requests with max_tokens > 1
    MaxStarts    \* bound on the calls of start()

ASSUME ConstantsAssumption ==
    /\ MaxBatch \in Nat \ {0} /\ MaxStarts \in Nat
    /\ prio \in [Requests -> Int] /\ Long \subseteq Requests

VARIABLES
    state,              \* of a request: new, queued, taken, answered
    created_at,         \* its time stamp
    calls,              \* how often its callback was called
    running_, model_,   \* model_: there is a model
    owner,              \* the thread of start() and stop(): idle or joining
    w,                  \* w[i]: the worker's place, batch, what it has counted, its locals
    current, total, errors, max_concurrent,   \* metrics_
    starts, unloaded, crashed

reqs == <<state, created_at, calls>>
metrics == <<current, total, errors, max_concurrent>>
life == <<running_, owner, starts>>
vars == <<reqs, metrics, life, model_, w, unloaded, crashed>>

-----------------------------------------------------------------------------

At(i, pc) == w[i].pc = pc /\ ~crashed
Goto(i, pc) == w' = [w EXCEPT ![i].pc = pc]
Size(i) == Cardinality(w[i].batch)

\* A worker's thread outside of a batch.
Idle(pc) == [pc |-> pc, batch |-> {}, todo |-> {}, prev |-> 0, cur |-> 0]
Queued == {r \in Requests : state[r] = "queued"}

\* CompareRequest: lower priority value first, then the older.
Before(a, b) == prio[a] < prio[b] \/ (prio[a] = prio[b] /\ created_at[a] < created_at[b])

\* The batches a worker may take: the best, up to MaxBatch.
Batches ==
    {B \in SUBSET Queued :
        /\ Cardinality(B) = Min({MaxBatch, Cardinality(Queued)})
        /\ \A a \in B, b \in Queued \ B : ~Before(b, a)}

\* The process is gone: the model is called through a null pointer, or throws
\* where nobody catches.
Crash == crashed' = TRUE /\ UNCHANGED <<reqs, metrics, life, model_, w, unloaded>>

-----------------------------------------------------------------------------
(* submit(): queue the stamped request and notify one worker.              *)

Submit(r) ==
    /\ state[r] = "new" /\ ~crashed
    /\ state' = [state EXCEPT ![r] = "queued"]
    /\ created_at' = [created_at EXCEPT ![r] = 1 + Max({created_at[q] : q \in Requests})]
    /\ UNCHANGED <<calls, metrics, life, model_, w, unloaded, crashed>>

-----------------------------------------------------------------------------
(* start(), stop() and unload_model().                                     *)

Start ==
    /\ owner = "idle" /\ ~running_ /\ ~crashed /\ starts < MaxStarts
    /\ running_' = TRUE /\ starts' = starts + 1
    /\ w' = [i \in Workers |-> Idle("top")]
    /\ UNCHANGED <<reqs, metrics, model_, owner, unloaded, crashed>>

Stop ==
    /\ owner = "idle" /\ running_ /\ ~crashed
    /\ running_' = FALSE /\ owner' = "join"
    /\ UNCHANGED <<reqs, metrics, starts, model_, w, unloaded, crashed>>

Joined ==
    /\ owner = "join" /\ ~crashed /\ \A i \in Workers : w[i].pc = "exit"
    /\ owner' = "idle"
    /\ UNCHANGED <<reqs, metrics, running_, starts, model_, w, unloaded, crashed>>

UnloadModel ==
    /\ model_ /\ ~crashed
    /\ model_' = FALSE /\ unloaded' = TRUE
    /\ UNCHANGED <<reqs, metrics, life, w, crashed>>

-----------------------------------------------------------------------------
(* worker_loop().                                                          *)

Top(i) ==
    /\ At(i, "top")
    /\ Goto(i, IF running_ THEN "wait" ELSE "exit")
    /\ UNCHANGED <<reqs, metrics, life, model_, unloaded, crashed>>

\* The wait ends because the server stops, ...
\* Mutant: ... and nothing is left to do.
WaitStoppedDrained(i) ==
    /\ At(i, "wait") /\ ~running_ /\ Queued = {}
    /\ Goto(i, "exit")
    /\ UNCHANGED <<reqs, metrics, life, model_, unloaded, crashed>>

WaitStopped(i) ==
    /\ At(i, "wait") /\ ~running_
    /\ Goto(i, "exit")
    /\ UNCHANGED <<reqs, metrics, life, model_, unloaded, crashed>>

\* ... or with a batch; after queue_wait_ms_ with an empty one, to wait again.
TakeOf(i, leave, empty) ==
    /\ At(i, "wait") /\ running_
    /\ \E B \in Batches :
         /\ w' = [w EXCEPT ![i].pc = IF B = {} THEN empty ELSE "model", ![i].batch = B,
                           ![i].todo = B]
         /\ state' = [r \in Requests |-> IF r \in B THEN leave ELSE state[r]]
    /\ UNCHANGED <<created_at, calls, metrics, life, model_, unloaded, crashed>>

\* Mutants: the requests stay queued; a timeout ends the thread.
TakeCopies(i) == TakeOf(i, "queued", "top")
TakeOrExit(i) == TakeOf(i, "taken", "exit")

Take(i) == TakeOf(i, "taken", "top")

\* if (model_): count the batch; else go on with made-up logits.
CheckModel(i) ==
    /\ At(i, "model")
    /\ current' = IF model_ THEN current + Size(i) ELSE current
    /\ Goto(i, IF model_ THEN "forward" ELSE "serve")
    /\ UNCHANGED <<reqs, total, errors, max_concurrent, life, model_, unloaded, crashed>>

\* forward() on the batch: returns; or model_ has become null since; or throws.
Forward(i) ==
    /\ At(i, "forward") /\ model_
    /\ Goto(i, "serve")
    /\ UNCHANGED <<reqs, metrics, life, model_, unloaded, crashed>>

ForwardNull(i) == At(i, "forward") /\ ~model_ /\ Crash

\* The catch block: total_errors, ...
Failed(i) ==
    /\ At(i, "forward") /\ model_
    /\ errors' = errors + Size(i)
    /\ Goto(i, "fail")
    /\ UNCHANGED <<reqs, current, total, max_concurrent, life, model_, unloaded, crashed>>

\* ... then current_requests, ...
\* Mutant: the error path forgets it.
UncountNot(i) ==
    /\ At(i, "fail")
    /\ Goto(i, "excuse")
    /\ UNCHANGED <<reqs, metrics, life, model_, unloaded, crashed>>

Uncount(i) ==
    /\ At(i, "fail")
    /\ current' = current - Size(i)
    /\ Goto(i, "excuse")
    /\ UNCHANGED <<reqs, total, errors, max_concurrent, life, model_, unloaded, crashed>>

\* The callback of a request of the batch.
Callback(i, r) ==
    /\ w' = [w EXCEPT ![i].todo = @ \ {r}]
    /\ state' = [state EXCEPT ![r] = "answered"]
    /\ calls' = [calls EXCEPT ![r] = @ + 1]
    /\ UNCHANGED <<created_at, metrics, life, model_, unloaded, crashed>>

\* ... then an empty answer to one request after the other, and the next batch.
Excuse(i) == At(i, "excuse") /\ \E r \in w[i].todo : Callback(i, r)

ExcuseDone(i) ==
    /\ At(i, "excuse") /\ w[i].todo = {}
    /\ w' = [w EXCEPT ![i] = Idle("top")]
    /\ UNCHANGED <<reqs, metrics, life, model_, unloaded, crashed>>

\* One request of a batch that did not fail: its tokens, then its callback.
Answer(i) == At(i, "serve") /\ \E r \in w[i].todo : (r \in Long => model_) /\ Callback(i, r)

\* A long request runs the model again: through a null pointer, or it throws.
AnswerCrash(i) == At(i, "serve") /\ (w[i].todo \cap Long # {}) /\ Crash

\* The batch is done: total_requests, then the peak, then current_requests.
Count(i) ==
    /\ At(i, "serve") /\ w[i].todo = {}
    /\ total' = total + Size(i)
    /\ w' = [w EXCEPT ![i].pc = "peak", ![i].prev = max_concurrent]
    /\ UNCHANGED <<reqs, current, errors, max_concurrent, life, model_, unloaded, crashed>>

LoadCurrent(i) ==
    /\ At(i, "peak")
    /\ w' = [w EXCEPT ![i].pc = "cas", ![i].cur = current]
    /\ UNCHANGED <<reqs, metrics, life, model_, unloaded, crashed>>

\* Mutant: a plain store.
RaiseStore(i) ==
    /\ At(i, "cas")
    /\ max_concurrent' = IF w[i].cur > w[i].prev THEN w[i].cur ELSE max_concurrent
    /\ Goto(i, "leave")
    /\ UNCHANGED <<reqs, current, total, errors, life, model_, unloaded, crashed>>

\* while (cur > prev_max && !compare_exchange(prev_max, cur)) prev_max = load.
Raise(i) ==
    /\ At(i, "cas")
    /\ LET higher == w[i].cur > w[i].prev
           won == higher /\ max_concurrent = w[i].prev
       IN /\ max_concurrent' = IF won THEN w[i].cur ELSE max_concurrent
          /\ w' = [w EXCEPT ![i].pc = IF higher /\ ~won THEN "cas" ELSE "leave",
                            ![i].prev = max_concurrent]
    /\ UNCHANGED <<reqs, current, total, errors, life, model_, unloaded, crashed>>

Leave(i) ==
    /\ At(i, "leave")
    /\ current' = current - Size(i)
    /\ w' = [w EXCEPT ![i] = Idle("top")]
    /\ UNCHANGED <<reqs, total, errors, max_concurrent, life, model_, unloaded, crashed>>

-----------------------------------------------------------------------------

Init ==
    /\ state = [r \in Requests |-> "new"]
    /\ created_at = [r \in Requests |-> 0] /\ calls = [r \in Requests |-> 0]
    /\ running_ = FALSE /\ model_ = TRUE /\ owner = "idle"
    /\ w = [i \in Workers |-> Idle("exit")]
    /\ current = 0 /\ total = 0 /\ errors = 0 /\ max_concurrent = 0
    /\ starts = 0 /\ unloaded = FALSE /\ crashed = FALSE

Work(i) ==
    \/ Top(i) \/ WaitStopped(i) \/ Take(i) \/ CheckModel(i) \/ Forward(i) \/ ForwardNull(i)
    \/ Failed(i) \/ Uncount(i) \/ Excuse(i) \/ ExcuseDone(i) \/ Answer(i) \/ AnswerCrash(i)
    \/ Count(i) \/ LoadCurrent(i) \/ Raise(i) \/ Leave(i)

Next ==
    \/ \E r \in Requests : Submit(r)
    \/ Start \/ Stop \/ Joined \/ UnloadModel
    \/ \E i \in Workers : Work(i)

Spec == Init /\ [][Next]_vars

\* The workers are scheduled, waits time out, and the model returns; stop()
\* goes on once its threads have ended.
FairSpec == Spec /\ WF_vars(Joined) /\ \A i \in Workers : WF_vars(Work(i))

-----------------------------------------------------------------------------
(* Properties.                                                             *)

\* The fields have their types and no worker has more than max_batch_size_
\* requests.
TypeOK ==
    /\ state \in [Requests -> {"new", "queued", "taken", "answered"}]
    /\ created_at \in [Requests -> Nat] /\ calls \in [Requests -> Nat]
    /\ running_ \in BOOLEAN /\ model_ \in BOOLEAN /\ owner \in {"idle", "join"}
    /\ current \in Int /\ total \in Nat /\ errors \in Nat /\ max_concurrent \in Nat
    /\ \A i \in Workers :
         /\ w[i].pc \in {"top", "wait", "model", "forward", "fail", "excuse", "serve", "peak", "cas", "leave",
                        "exit"}
         /\ w[i].todo \subseteq w[i].batch /\ Size(i) <= MaxBatch

\* worker_loop(): a request is in one worker's hands at a time and its callback
\* is called once, when the request is done, on success and on error.
CalledOnce ==
    \A r \in Requests :
        /\ calls[r] = IF state[r] = "answered" THEN 1 ELSE 0
        /\ state[r] = "taken" =>
             Cardinality({i \in Workers : /\ r \in w[i].todo
                                          /\ w[i].pc \in {"model", "forward", "fail", "excuse", "serve"}}) = 1

\* Workers whose batch current_requests should count: from the forward pass to
\* the end of the batch, or to the second line of the catch block.
InFlight == {i \in Workers : w[i].pc \in {"forward", "fail", "serve", "peak", "cas", "leave"}}

\* The requests the totals should count: those of a batch that failed, from the
\* catch block on and so before their callbacks, and those of a batch that was
\* served only once the whole batch has been answered.
Counted ==
    {r \in Requests :
        \/ \E i \in Workers : w[i].pc \in {"fail", "excuse"} /\ r \in w[i].batch
        \/ state[r] = "answered" /\ ~\E i \in Workers : w[i].pc = "serve" /\ r \in w[i].batch}

\* metrics_: while the model stays loaded, current_requests is the number of
\* requests in flight, and every request is counted once, as served or as
\* failed, however the batches of the workers overlap.
CountsExact ==
    ~unloaded =>
        /\ current = Cardinality(UNION {w[i].batch : i \in InFlight})
        /\ total + errors = Cardinality(Counted)

\* max_concurrent: concurrent raises of the peak are not lost; it is not below
\* the load that a worker has seen, when that worker is done with it.
PeakCovers == \A i \in Workers : At(i, "leave") => max_concurrent >= w[i].cur

\* A request that has been submitted is answered, unless the server is stopped
\* for good or the process has crashed: a request left behind by stop() is
\* answered after the next start().
Served == <>[](running_ /\ ~crashed => \A r \in Requests : state[r] \in {"new", "answered"})

\* stop() returns, however its notification races with the workers' waits.
StopReturns == owner = "join" ~> (owner = "idle" \/ crashed)

=============================================================================
