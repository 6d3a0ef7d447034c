----------------------------- MODULE HTTPServer -----------------------------
(***************************************************************************)
(* HTTPServer (src/server/http_server.cpp): its life cycle, the queue of   *)
(* accepted connections between the accepting thread and the worker pool,  *)
(* and the admission of /v1/* requests under max_concurrent_.              *)
(*                                                                         *)
(* Threads: the owner, which starts, stops and destroys the server; the    *)
(* accepting thread (server_loop); the workers (worker_loop).  The setter  *)
(* of the cap may be called at any time.  A connection carries one         *)
(* request, abstracted to what decides its way through handle_request.     *)
(***************************************************************************)
EXTENDS Integers, Sequences, FiniteSets

CONSTANTS
    Workers,   \* the threads of the pool, thread_pool_size_ of them
    Conns,     \* the connections clients make
    Caps,      \* the values max_concurrent_ is given, 0: no cap
    Changes,   \* bound: calls of set_max_concurrent() after construction
    BindFails, \* whether socket(), bind() or listen() may fail
    NoConn     \* no connection

\* "bad": answered with an error before it gets to check_auth; "open": not under
\* /v1/; "api": under /v1/ with the right token; "stranger": without it.
Kinds == {"bad", "open", "api", "stranger"}

ASSUME ConstantsAssumption ==
    /\ IsFiniteSet(Workers) /\ Workers # {}
    /\ Caps \subseteq Nat /\ Changes \in Nat /\ BindFails \in BOOLEAN
    /\ NoConn \notin Conns

VARIABLES
    owner,         \* "idle", joining the other threads in stop(), or "gone"
    running_,
    stop_requested_,
    server,        \* the accepting thread, "none" when not joinable
    worker,        \* worker[w]: where it is, its connection and the cap it has read
    conn_queue_,
    conn,          \* conn[c]: how far connection c has come
    kind,          \* kind[c]: the request it carries
    max_concurrent_,
    current_requests_,
    changes,       \* calls of set_max_concurrent() so far
    steady,        \* history: no call has lifted the cap or set the first one
    aborted        \* std::terminate: a joinable std::thread was overwritten or destroyed

lifeVars == <<owner, running_, stop_requested_, server, aborted>>
slotVars == <<max_concurrent_, current_requests_, changes, steady>>
vars == <<lifeVars, worker, conn_queue_, conn, kind, slotVars>>

Rest == [pc |-> "none", fd |-> NoConn, cap |-> 0]
At(w, label) == worker[w].pc = label
GoTo(w, label) == worker' = [worker EXCEPT ![w].pc = label]

Init ==
    /\ owner = "idle"
    /\ running_ = FALSE /\ stop_requested_ = FALSE
    /\ server = "none"
    /\ worker = [w \in Workers |-> Rest]
    /\ conn_queue_ = <<>>
    /\ conn = [c \in Conns |-> "new"]
    /\ kind \in [Conns -> Kinds]
    /\ max_concurrent_ \in Caps
    /\ current_requests_ = 0
    /\ changes = 0 /\ steady = TRUE
    /\ aborted = FALSE

-----------------------------------------------------------------------------
(* The owner.                                                              *)

Alive == owner = "idle" /\ ~aborted

\* start(): assigning to a thread that was never joined is fatal.
Start ==
    /\ Alive /\ ~running_
    /\ running_' = TRUE
    /\ stop_requested_' = FALSE
    /\ IF server = "none" THEN server' = "open" /\ UNCHANGED aborted
                          ELSE aborted' = TRUE /\ UNCHANGED server
    /\ UNCHANGED <<owner, worker, conn_queue_, conn, kind, slotVars>>

\* stop() returns at once when the server is not running.
Stop ==
    /\ Alive /\ running_
    /\ running_' = FALSE
    /\ stop_requested_' = TRUE
    /\ owner' = "join_server"
    /\ UNCHANGED <<server, aborted, worker, conn_queue_, conn, kind, slotVars>>

\* Mutant: the accepting thread is not joined.
StopJoinServerNot ==
    /\ owner = "join_server"
    /\ owner' = "join_workers"
    /\ UNCHANGED <<running_, stop_requested_, server, aborted, worker, conn_queue_, conn, kind,
                   slotVars>>

StopJoinServer ==
    /\ owner = "join_server" /\ server = "exited"
    /\ server' = "none"
    /\ owner' = "join_workers"
    /\ UNCHANGED <<running_, stop_requested_, aborted, worker, conn_queue_, conn, kind,
                   slotVars>>

StopJoinWorkers ==
    /\ owner = "join_workers"
    /\ \A w \in Workers : worker[w].pc \in {"none", "exited"}
    /\ worker' = [w \in Workers |-> Rest]
    /\ owner' = "idle"
    /\ UNCHANGED <<running_, stop_requested_, server, aborted, conn_queue_, conn, kind,
                   slotVars>>

\* The destructor of a server that stop() has nothing to do for: destroying a
\* thread that was never joined is fatal.
Destroy ==
    /\ Alive /\ ~running_
    /\ owner' = "gone"
    /\ aborted' = (server # "none")
    /\ UNCHANGED <<running_, stop_requested_, server, worker, conn_queue_, conn, kind, slotVars>>

-----------------------------------------------------------------------------
(* server_loop.                                                            *)

ServerFail ==
    /\ BindFails /\ server = "open"
    /\ running_' = FALSE
    /\ server' = "exited"
    /\ UNCHANGED <<owner, stop_requested_, aborted, worker, conn_queue_, conn, kind, slotVars>>

\* The socket listens and the pool is started.
ServerListen ==
    /\ server = "open"
    /\ worker' = [w \in Workers |-> [Rest EXCEPT !.pc = "loop"]]
    /\ server' = "loop"
    /\ UNCHANGED <<owner, running_, stop_requested_, aborted, conn_queue_, conn, kind, slotVars>>

\* Mutant: the loop does not look at the flags.
ServerPollForever ==
    /\ server = "loop"
    /\ server' = "select"
    /\ UNCHANGED <<owner, running_, stop_requested_, aborted, worker, conn_queue_, conn, kind,
                   slotVars>>

ServerPoll ==
    /\ server = "loop"
    /\ server' = IF running_ /\ ~stop_requested_ THEN "select" ELSE "close"
    /\ UNCHANGED <<owner, running_, stop_requested_, aborted, worker, conn_queue_, conn, kind,
                   slotVars>>

\* select() ran into its second without a connection, or failed.
ServerIdle ==
    /\ server = "select"
    /\ server' = "loop"
    /\ UNCHANGED <<owner, running_, stop_requested_, aborted, worker, conn_queue_, conn, kind,
                   slotVars>>

ServerAccept(c) ==
    /\ server = "select" /\ conn[c] = "new"
    /\ conn_queue_' = Append(conn_queue_, c)
    /\ conn' = [conn EXCEPT ![c] = "queued"]
    /\ server' = "loop"
    /\ UNCHANGED <<owner, running_, stop_requested_, aborted, worker, kind, slotVars>>

ServerClose ==
    /\ server = "close"
    /\ stop_requested_' = TRUE
    /\ server' = "exited"
    /\ UNCHANGED <<owner, running_, aborted, worker, conn_queue_, conn, kind, slotVars>>

-----------------------------------------------------------------------------
(* worker_loop and handle_request.                                         *)

WorkerPoll(w) ==
    /\ At(w, "loop")
    /\ GoTo(w, IF stop_requested_ THEN "exited" ELSE "wait")
    /\ UNCHANGED <<lifeVars, conn_queue_, conn, kind, slotVars>>

\* Mutant: a worker that has waited a second for nothing leaves the pool.
WorkerIdleExits(w) ==
    /\ At(w, "wait") /\ conn_queue_ = <<>>
    /\ GoTo(w, "exited")
    /\ UNCHANGED <<lifeVars, conn_queue_, conn, kind, slotVars>>

\* The wait ends without a connection: its second is over, or stop() woke it.
WorkerIdle(w) ==
    /\ At(w, "wait") /\ conn_queue_ = <<>>
    /\ GoTo(w, "loop")
    /\ UNCHANGED <<lifeVars, conn_queue_, conn, kind, slotVars>>

\* Mutant: the front is read but not popped.
WorkerTakeFront(w) ==
    /\ At(w, "wait") /\ conn_queue_ # <<>>
    /\ worker' = [worker EXCEPT ![w] = [pc |-> "request", fd |-> Head(conn_queue_), cap |-> 0]]
    /\ conn' = [conn EXCEPT ![Head(conn_queue_)] = "open"]
    /\ UNCHANGED <<lifeVars, conn_queue_, kind, slotVars>>

WorkerTake(w) ==
    /\ At(w, "wait") /\ conn_queue_ # <<>>
    /\ worker' = [worker EXCEPT ![w] = [pc |-> "request", fd |-> Head(conn_queue_), cap |-> 0]]
    /\ conn_queue_' = Tail(conn_queue_)
    /\ conn' = [conn EXCEPT ![Head(conn_queue_)] = "open"]
    /\ UNCHANGED <<lifeVars, kind, slotVars>>

\* handle_request has returned: close the connection.
Close(w) ==
    /\ conn' = [conn EXCEPT ![worker[w].fd] = "closed"]
    /\ worker' = [worker EXCEPT ![w] = [Rest EXCEPT !.pc = "loop"]]

\* Answered without a slot: an error up to check_auth, 401, or not under /v1/.
Answer(w) ==
    /\ At(w, "request") /\ kind[worker[w].fd] # "api"
    /\ Close(w)
    /\ UNCHANGED <<lifeVars, conn_queue_, kind, slotVars>>

\* try_acquire_slot reads the cap under config_mtx_, ...
ReadCap(w) ==
    /\ At(w, "request") /\ kind[worker[w].fd] = "api"
    /\ worker' = [worker EXCEPT ![w] =
                     [pc |-> IF max_concurrent_ = 0 THEN "route" ELSE "claim",
                      fd |-> worker[w].fd, cap |-> max_concurrent_]]
    /\ UNCHANGED <<lifeVars, conn_queue_, conn, kind, slotVars>>

\* Mutant: while (cur <= cap), one too many.
ClaimAnyway(w) ==
    /\ At(w, "claim") /\ current_requests_ <= worker[w].cap
    /\ current_requests_' = current_requests_ + 1
    /\ GoTo(w, "route")
    /\ UNCHANGED <<lifeVars, conn_queue_, conn, kind, max_concurrent_, changes, steady>>

\* ... and the compare-and-swap loop claims a slot below it, ...
Claim(w) ==
    /\ At(w, "claim") /\ current_requests_ < worker[w].cap
    /\ current_requests_' = current_requests_ + 1
    /\ GoTo(w, "route")
    /\ UNCHANGED <<lifeVars, conn_queue_, conn, kind, max_concurrent_, changes, steady>>

\* ... or the request is answered with 503.
Overloaded(w) ==
    /\ At(w, "claim") /\ current_requests_ >= worker[w].cap
    /\ Close(w)
    /\ UNCHANGED <<lifeVars, conn_queue_, kind, slotVars>>

\* Mutant: an endpoint returns past the release of the slot.
RouteReturns(w) ==
    /\ At(w, "route")
    /\ Close(w)
    /\ UNCHANGED <<lifeVars, conn_queue_, kind, slotVars>>

\* The endpoint has answered; release_slot reads the cap again.
Route(w) ==
    /\ At(w, "route")
    /\ IF max_concurrent_ = 0 THEN Close(w) ELSE GoTo(w, "release") /\ UNCHANGED conn
    /\ UNCHANGED <<lifeVars, conn_queue_, kind, slotVars>>

Release(w) ==
    /\ At(w, "release")
    /\ current_requests_' = current_requests_ - 1
    /\ Close(w)
    /\ UNCHANGED <<lifeVars, conn_queue_, kind, max_concurrent_, changes, steady>>

-----------------------------------------------------------------------------

\* set_max_concurrent(), by any thread; without a cap the count starts afresh.
SetMaxConcurrent(n) ==
    /\ changes < Changes
    /\ changes' = changes + 1
    /\ steady' = (steady /\ (n = 0 <=> max_concurrent_ = 0))
    /\ max_concurrent_' = n
    /\ current_requests_' = IF n = 0 THEN 0 ELSE current_requests_
    /\ UNCHANGED <<lifeVars, worker, conn_queue_, conn, kind>>

OwnerStep == StopJoinServer \/ StopJoinWorkers

ServerStep ==
    \/ ServerFail \/ ServerListen \/ ServerPoll \/ ServerIdle \/ ServerClose
    \/ \E c \in Conns : ServerAccept(c)

WorkerStep(w) ==
    \/ WorkerPoll(w) \/ WorkerIdle(w) \/ WorkerTake(w)
    \/ Answer(w) \/ ReadCap(w) \/ Claim(w) \/ Overloaded(w) \/ Route(w) \/ Release(w)

Next ==
    /\ ~aborted
    /\ \/ Start \/ Stop \/ Destroy \/ OwnerStep
       \/ ServerStep
       \/ \E w \in Workers : WorkerStep(w)
       \/ \E n \in Caps : SetMaxConcurrent(n)

Spec == Init /\ [][Next]_vars

\* Every thread that can run is scheduled: waits are bounded by their timeout of
\* a second, reads of a request by the socket's timeout, and endpoints return.
\* The owner need not call anything, and no client need connect.
FairSpec ==
    /\ Spec
    /\ WF_vars(OwnerStep) /\ WF_vars(ServerStep)
    /\ \A w \in Workers : WF_vars(WorkerStep(w))

-----------------------------------------------------------------------------
(* Properties.                                                             *)

\* The fields have their types, and a worker has a connection exactly while it
\* handles a request.
TypeOK ==
    /\ owner \in {"idle", "join_server", "join_workers", "gone"}
    /\ running_ \in BOOLEAN /\ stop_requested_ \in BOOLEAN /\ aborted \in BOOLEAN
    /\ server \in {"none", "open", "loop", "select", "close", "exited"}
    /\ worker \in [Workers -> [pc : {"none", "loop", "wait", "request", "claim", "route",
                                     "release", "exited"},
                               fd : Conns \cup {NoConn}, cap : Nat]]
    /\ \A w \in Workers : worker[w].fd = NoConn
                            <=> worker[w].pc \in {"none", "loop", "wait", "exited"}
    /\ conn_queue_ \in Seq(Conns)
    /\ conn \in [Conns -> {"new", "queued", "open", "closed"}]
    /\ kind \in [Conns -> Kinds]
    /\ max_concurrent_ \in Nat /\ current_requests_ \in Int
    /\ changes \in Nat /\ steady \in BOOLEAN

Holding == {w \in Workers : worker[w].pc \in {"route", "release"}}

\* The admission counter is the number of requests that hold a slot: none is
\* counted twice, and none keeps its slot after its answer.
SlotsExact == steady /\ max_concurrent_ > 0 => current_requests_ = Cardinality(Holding)

\* try_acquire_slot: "in-flight /v1/* beyond max_concurrent_ get 503", and those
\* within it do not: a request is admitted exactly when there is room for it.
AdmissionExact ==
    [][steady /\ max_concurrent_ > 0 =>
         \A w \in Workers : At(w, "claim") /\ worker'[w].pc # "claim" =>
           (worker'[w].pc = "route" <=> Cardinality(Holding) < worker[w].cap)]_vars

\* A connection is in the queue once or with one worker, or has been closed: none
\* is handled twice, and none that a worker took is left open.
ConnsTracked ==
    \A c \in Conns :
        /\ conn[c] = "queued" <=> \E i \in DOMAIN conn_queue_ : conn_queue_[i] = c
        /\ \A i, j \in DOMAIN conn_queue_ :
             conn_queue_[i] = c /\ conn_queue_[j] = c => i = j
        /\ Cardinality({w \in Workers : worker[w].fd = c}) = IF conn[c] = "open" THEN 1 ELSE 0

\* No sequence of start(), stop() and destruction overwrites or destroys a thread
\* that was not joined.
NoAbort == ~aborted

\* std::terminate comes only for an accepting thread that has ended by itself,
\* because its socket failed, and that stop() therefore never joined.
AbortsOnFailure == aborted => server = "exited" /\ ~stop_requested_

\* An accepted connection is answered and closed unless the server is stopped or
\* fails; one left in the queue by stop() is served after the next start().
Served == \A c \in Conns : conn[c] = "queued" ~> conn[c] = "closed" \/ ~running_ \/ aborted

\* stop() returns, wherever the other threads are.
StopReturns == owner = "join_server" ~> owner = "idle"

=============================================================================
