-------------------------- MODULE HTTPServerProofs --------------------------
(***************************************************************************)
(* The admission, the connections and the life cycle of HTTPServer for any *)
(* number of workers and connections and any changes of the cap.           *)
(*                                                                         *)
(* SlotsExact and ConnsTracked need to know that the pool is started and   *)
(* discarded only when none of its workers handles a request: Pool.        *)
(* AbortsOnFailure needs to know where the accepting thread can be while   *)
(* the owner is outside of stop(): Cycle.                                  *)
(***************************************************************************)
EXTENDS HTTPServer, FiniteSetTheorems, TLAPS

Free == {"none", "loop", "wait", "exited"}
Busy == {"request", "claim", "route", "release"}
Thread == [pc : Free \cup Busy, fd : Conns \cup {NoConn}, cap : Nat]
Sane(r) == r.fd = NoConn <=> r.pc \in Free

\* No thread of a pool runs before the socket listens and after stop().
Pool ==
    server = "open" \/ (server = "none" /\ owner # "join_workers")
        => \A w \in Workers : worker[w].pc = "none"

-----------------------------------------------------------------------------
(* Types.                                                                  *)

WorkersTyped == worker \in [Workers -> Thread] /\ \A w \in Workers : Sane(worker[w])
FieldsTyped ==
    /\ owner \in {"idle", "join_server", "join_workers", "gone"}
    /\ running_ \in BOOLEAN /\ stop_requested_ \in BOOLEAN /\ aborted \in BOOLEAN
    /\ server \in {"none", "open", "loop", "select", "close", "exited"}
    /\ conn_queue_ \in Seq(Conns)
    /\ conn \in [Conns -> {"new", "queued", "open", "closed"}]
    /\ kind \in [Conns -> Kinds]
    /\ max_concurrent_ \in Nat /\ current_requests_ \in Int
    /\ changes \in Nat /\ steady \in BOOLEAN

\* TypeOK speaks of each worker by itself, ...
LEMMA TypeSplit == TypeOK <=> WorkersTyped /\ FieldsTyped
<1>1. Free \cup Busy = {"none", "loop", "wait", "request", "claim", "route", "release", "exited"}
  BY DEF Free, Busy
<1>2. QED  BY <1>1 DEF TypeOK, WorkersTyped, FieldsTyped, Thread, Sane, Free

\* ... and so it does after a step.
LEMMA TypeSplitNext == TypeOK' <=> WorkersTyped' /\ FieldsTyped'
<1>1. Free \cup Busy = {"none", "loop", "wait", "request", "claim", "route", "release", "exited"}
  BY DEF Free, Busy
<1>2. QED  BY <1>1 DEF TypeOK, WorkersTyped, FieldsTyped, Thread, Sane, Free

\* One worker's thread is replaced by another of its type.
LEMMA Replace ==
    ASSUME WorkersTyped, NEW w \in Workers, NEW r \in Thread, Sane(r),
           worker' = [worker EXCEPT ![w] = r]
    PROVE  WorkersTyped'
<1>1. worker' \in [Workers -> Thread]
  BY DEF WorkersTyped
<1>2. ASSUME NEW v \in Workers PROVE Sane(worker'[v])
  <2>1. worker'[v] = IF v = w THEN r ELSE worker[v]
    BY DEF WorkersTyped
  <2>2. QED  BY <2>1 DEF WorkersTyped
<1>3. QED  BY <1>1, <1>2 DEF WorkersTyped

\* What the thread of worker w becomes in a step of it.
LEMMA ThreadStep ==
    ASSUME TypeOK, NEW w \in Workers, WorkerStep(w)
    PROVE  \E r \in Thread : Sane(r) /\ worker' = [worker EXCEPT ![w] = r]
<1>1. WorkersTyped /\ worker[w] \in Thread /\ Sane(worker[w])
  BY TypeSplit DEF WorkersTyped
<1>2. /\ worker[w].pc \in Free \cup Busy /\ worker[w].cap \in Nat
      /\ worker[w].fd \in Conns \cup {NoConn}
  BY <1>1 DEF Thread
<1>3. ASSUME NEW l, GoTo(w, l), l \in Free \cup Busy,
             l \in Free <=> worker[w].pc \in Free
      PROVE  \E r \in Thread : Sane(r) /\ worker' = [worker EXCEPT ![w] = r]
  <2> DEFINE r == [worker[w] EXCEPT !.pc = l]
  <2>1. worker' = [worker EXCEPT ![w] = r]
    BY <1>1, <1>3 DEF GoTo
  <2>2. r = [pc |-> l, fd |-> worker[w].fd, cap |-> worker[w].cap]
    BY <1>1 DEF Thread
  <2> HIDE DEF r
  <2>3. r \in Thread /\ Sane(r)
    BY <1>1, <1>2, <1>3, <2>2 DEF Thread, Sane
  <2>4. QED  BY <2>1, <2>3
<1>4. ASSUME Close(w)
      PROVE  \E r \in Thread : Sane(r) /\ worker' = [worker EXCEPT ![w] = r]
  <2>1. [Rest EXCEPT !.pc = "loop"] = [pc |-> "loop", fd |-> NoConn, cap |-> 0]
    BY DEF Rest
  <2>2. [Rest EXCEPT !.pc = "loop"] \in Thread /\ Sane([Rest EXCEPT !.pc = "loop"])
    BY <2>1 DEF Thread, Sane, Free
  <2>3. QED  BY <1>4, <2>2 DEF Close
<1>5. CASE WorkerPoll(w)
  BY <1>3, <1>5 DEF WorkerPoll, At, Free
<1>6. CASE WorkerIdle(w)
  BY <1>3, <1>6 DEF WorkerIdle, At, Free
<1>7. CASE WorkerTake(w)
  <2> DEFINE c == Head(conn_queue_)
             r == [pc |-> "request", fd |-> c, cap |-> 0]
  <2>1. c \in Conns
    BY <1>7 DEF TypeOK, WorkerTake
  <2>2. worker' = [worker EXCEPT ![w] = r]
    BY <1>7 DEF WorkerTake
  <2>3. r \in Thread /\ Sane(r)
    BY <1>2, <2>1, ConstantsAssumption DEF Thread, Sane, Free, Busy
  <2> HIDE DEF r
  <2>4. QED  BY <2>2, <2>3
<1>8. CASE Answer(w) \/ Overloaded(w)
  BY <1>4, <1>8 DEF Answer, Overloaded
<1>9. CASE ReadCap(w)
  <2> DEFINE l == IF max_concurrent_ = 0 THEN "route" ELSE "claim"
             r == [pc |-> l, fd |-> worker[w].fd, cap |-> max_concurrent_]
  <2>1. worker' = [worker EXCEPT ![w] = r] /\ worker[w].pc = "request"
    BY <1>9 DEF ReadCap, At
  <2>2. r \in Thread /\ Sane(r)
    BY <1>1, <1>2, <2>1 DEF Thread, Sane, Free, Busy, TypeOK
  <2> HIDE DEF r
  <2>3. QED  BY <2>1, <2>2
<1>10. CASE Claim(w)
  BY <1>3, <1>10 DEF Claim, At, Free, Busy
<1>11. CASE Route(w)
  BY <1>3, <1>4, <1>11 DEF Route, At, Free, Busy
<1>12. CASE Release(w)
  BY <1>4, <1>12 DEF Release
<1>13. QED
  BY <1>5, <1>6, <1>7, <1>8, <1>9, <1>10, <1>11, <1>12 DEF WorkerStep

\* The fields have their types at the start ...
LEMMA TypeInit == Init => TypeOK
<1> SUFFICES ASSUME Init PROVE TypeOK
  OBVIOUS
<1>1. worker = [w \in Workers |-> [pc |-> "none", fd |-> NoConn, cap |-> 0]]
  BY DEF Init, Rest
<1>2. WorkersTyped
  BY <1>1 DEF WorkersTyped, Thread, Sane, Free
<1>3. FieldsTyped
  <2>1. max_concurrent_ \in Nat /\ conn_queue_ \in Seq(Conns)
    BY ConstantsAssumption DEF Init
  <2>2. conn \in [Conns -> {"new", "queued", "open", "closed"}]
    BY DEF Init
  <2>3. running_ \in BOOLEAN /\ stop_requested_ \in BOOLEAN /\ aborted \in BOOLEAN
    BY DEF Init
  <2>4. current_requests_ \in Int /\ changes \in Nat
    BY DEF Init
  <2>5. QED  BY <2>1, <2>2, <2>3, <2>4 DEF Init, FieldsTyped
<1>4. QED  BY <1>2, <1>3, TypeSplit

\* ... and every step keeps them.
LEMMA TypeStep == TypeOK /\ [Next]_vars => TypeOK'
<1> SUFFICES ASSUME TypeOK, [Next]_vars PROVE TypeOK'
  OBVIOUS
<1> USE DEF lifeVars, slotVars
<1>1. CASE Start \/ Stop \/ Destroy \/ StopJoinServer
  BY <1>1 DEF TypeOK, Start, Stop, Destroy, StopJoinServer
<1>2. CASE StopJoinWorkers
  <2>1. worker' = [w \in Workers |-> [pc |-> "none", fd |-> NoConn, cap |-> 0]]
    BY <1>2 DEF StopJoinWorkers, Rest
  <2>2. WorkersTyped'
    BY <2>1 DEF WorkersTyped, Thread, Sane, Free
  <2>3. FieldsTyped'
    BY <1>2, TypeSplit DEF StopJoinWorkers, FieldsTyped
  <2>4. QED  BY <2>2, <2>3, TypeSplitNext
<1>3. CASE ServerFail \/ ServerPoll \/ ServerIdle \/ ServerClose
  BY <1>3 DEF TypeOK, ServerFail, ServerPoll, ServerIdle, ServerClose
<1>4. CASE ServerListen
  <2>1. worker' = [w \in Workers |-> [pc |-> "loop", fd |-> NoConn, cap |-> 0]]
    BY <1>4 DEF ServerListen, Rest
  <2>2. WorkersTyped'
    BY <2>1 DEF WorkersTyped, Thread, Sane, Free
  <2>3. FieldsTyped'
    BY <1>4, TypeSplit DEF ServerListen, FieldsTyped
  <2>4. QED  BY <2>2, <2>3, TypeSplitNext
<1>5. ASSUME NEW c \in Conns, ServerAccept(c) PROVE TypeOK'
  BY <1>5 DEF TypeOK, ServerAccept
<1>6. ASSUME NEW w \in Workers, WorkerStep(w) PROVE TypeOK'
  <2>1. WorkersTyped'
    BY <1>6, ThreadStep, Replace, TypeSplit
  <2>2. FieldsTyped
    BY TypeSplit
  <2>3. ASSUME Close(w), worker[w].pc \in Busy
        PROVE  conn' \in [Conns -> {"new", "queued", "open", "closed"}]
    BY <2>2, <2>3 DEF Close, FieldsTyped
  <2>4. CASE WorkerPoll(w) \/ WorkerIdle(w) \/ ReadCap(w)
    BY <2>1, <2>2, <2>4, TypeSplitNext DEF FieldsTyped, WorkerPoll, WorkerIdle, ReadCap
  <2>5. CASE WorkerTake(w)
    BY <2>1, <2>2, <2>5, TypeSplitNext DEF FieldsTyped, WorkerTake
  <2>6. CASE Answer(w) \/ Overloaded(w)
    BY <2>1, <2>2, <2>3, <2>6, TypeSplitNext
       DEF FieldsTyped, Answer, Overloaded, At, Busy
  <2>7. CASE Claim(w)
    BY <2>1, <2>2, <2>7, TypeSplitNext DEF FieldsTyped, Claim
  <2>8. CASE Route(w)
    BY <2>1, <2>2, <2>3, <2>8, TypeSplitNext DEF FieldsTyped, Route, At, Busy
  <2>9. CASE Release(w)
    BY <2>1, <2>2, <2>3, <2>9, TypeSplitNext DEF FieldsTyped, Release, At, Busy
  <2>10. QED  BY <1>6, <2>4, <2>5, <2>6, <2>7, <2>8, <2>9 DEF WorkerStep
<1>7. ASSUME NEW n \in Caps, SetMaxConcurrent(n) PROVE TypeOK'
  BY <1>7, ConstantsAssumption DEF TypeOK, SetMaxConcurrent
<1>8. CASE UNCHANGED vars
  BY <1>8 DEF TypeOK, vars
<1>9. QED
  BY <1>1, <1>2, <1>3, <1>4, <1>5, <1>6, <1>7, <1>8 DEF Next, OwnerStep, ServerStep

\* The fields of HTTPServer have their types, and a worker has a connection
\* exactly while it handles a request, for any number of workers.
THEOREM TypeCorrect == Spec => []TypeOK
<1>1. QED  BY TypeInit, TypeStep, PTL DEF Spec

-----------------------------------------------------------------------------
(* Slots.                                                                  *)

\* The pool is empty at the start, ...
LEMMA PoolInit == Init => Pool
  BY DEF Init, Pool, Rest

\* ... and no step starts it early or lets it outlive stop().
LEMMA PoolStep == TypeOK /\ Pool /\ [Next]_vars => Pool'
<1> SUFFICES ASSUME TypeOK, Pool, [Next]_vars PROVE Pool'
  OBVIOUS
<1> USE DEF lifeVars, slotVars
<1>1. CASE Start \/ Stop \/ Destroy \/ StopJoinServer
  BY <1>1 DEF Pool, Start, Stop, Destroy, StopJoinServer, Alive
<1>2. CASE StopJoinWorkers
  BY <1>2 DEF Pool, StopJoinWorkers, Rest
<1>3. CASE \/ ServerFail \/ ServerListen \/ ServerPoll \/ ServerIdle \/ ServerClose
           \/ \E c \in Conns : ServerAccept(c)
  BY <1>3 DEF Pool, ServerFail, ServerListen, ServerPoll, ServerIdle, ServerClose, ServerAccept
<1>4. ASSUME NEW w \in Workers, WorkerStep(w) PROVE Pool'
  <2>1. worker[w].pc # "none" /\ server' = server /\ owner' = owner
    BY <1>4 DEF WorkerStep, WorkerPoll, WorkerIdle, WorkerTake, Answer, ReadCap,
                Claim, Overloaded, Route, Release, At
  <2>2. QED  BY <2>1 DEF Pool
<1>5. ASSUME NEW n \in Caps, SetMaxConcurrent(n) PROVE Pool'
  BY <1>5 DEF Pool, SetMaxConcurrent
<1>6. CASE UNCHANGED vars
  BY <1>6 DEF Pool, vars
<1>7. QED  BY <1>1, <1>2, <1>3, <1>4, <1>5, <1>6 DEF Next, OwnerStep, ServerStep

\* One more worker holds a slot.
LEMMA OneMore ==
    ASSUME NEW w \in Workers, w \notin Holding, Holding' = Holding \cup {w}
    PROVE  Cardinality(Holding') = Cardinality(Holding) + 1
<1>1. IsFiniteSet(Holding)
  BY FS_Subset, ConstantsAssumption DEF Holding
<1>2. QED  BY <1>1, FS_AddElement

\* One worker gives its slot back.
LEMMA OneLess ==
    ASSUME NEW w \in Workers, w \in Holding, Holding' = Holding \ {w}
    PROVE  Cardinality(Holding') = Cardinality(Holding) - 1
<1>1. IsFiniteSet(Holding)
  BY FS_Subset, ConstantsAssumption DEF Holding
<1>2. QED  BY <1>1, FS_RemoveElement

\* There is a cap, and it is neither the first one nor was it ever lifted.
Capped == steady /\ max_concurrent_ > 0

\* The counter is exact while that is so.
Slots == Capped => current_requests_ = Cardinality(Holding)

\* Every step that claims or releases a slot counts it, and no other step changes
\* the holders.
LEMMA SlotsStep == TypeOK /\ Pool /\ Slots /\ [Next]_vars => Slots'
<1> SUFFICES ASSUME TypeOK, Pool, Slots, [Next]_vars, Capped' PROVE Slots'
  BY DEF Slots
<1> USE DEF lifeVars, slotVars
<1>1. CASE Start \/ Stop \/ Destroy \/ StopJoinServer
  BY <1>1 DEF Slots, Capped, Holding, Start, Stop, Destroy, StopJoinServer
<1>2. CASE StopJoinWorkers
  <2>1. Holding' = Holding
    BY <1>2 DEF StopJoinWorkers, Holding, Rest
  <2>2. QED  BY <1>2, <2>1 DEF Slots, Capped, StopJoinWorkers
<1>3. CASE \/ ServerFail \/ ServerPoll \/ ServerIdle \/ ServerClose
           \/ \E c \in Conns : ServerAccept(c)
  BY <1>3 DEF Slots, Capped, Holding, ServerFail, ServerPoll, ServerIdle, ServerClose, ServerAccept
<1>4. CASE ServerListen
  <2>1. Holding' = Holding
    BY <1>4 DEF ServerListen, Holding, Rest, Pool
  <2>2. QED  BY <1>4, <2>1 DEF Slots, Capped, ServerListen
<1>5. ASSUME NEW w \in Workers, WorkerStep(w) PROVE Slots'
  <2>1. PICK r \in Thread : worker' = [worker EXCEPT ![w] = r]
    BY <1>5, ThreadStep
  <2>2. \A v \in Workers : worker'[v] = IF v = w THEN r ELSE worker[v]
    BY <2>1 DEF TypeOK
  <2>3. worker'[w] = r /\ Capped /\ max_concurrent_ # 0
    <3>1. max_concurrent_' = max_concurrent_ /\ steady' = steady
      BY <1>5 DEF WorkerStep, WorkerPoll, WorkerIdle, WorkerTake, Answer, ReadCap,
                  Claim, Overloaded, Route, Release
    <3>2. QED  BY <2>2, <3>1 DEF Capped, TypeOK
  <2>4. ASSUME NEW l, GoTo(w, l) PROVE r.pc = l
    BY <2>3, <2>4 DEF GoTo, TypeOK
  <2>5. ASSUME Close(w) PROVE r.pc = "loop"
    BY <2>3, <2>5 DEF Close, TypeOK, Rest
  <2>6. CASE \/ WorkerPoll(w) \/ WorkerIdle(w) \/ WorkerTake(w) \/ Answer(w)
             \/ ReadCap(w) \/ Overloaded(w) \/ Route(w)
    <3>1. worker[w].pc \in {"route", "release"} <=> r.pc \in {"route", "release"}
      <4>1. CASE WorkerPoll(w) \/ WorkerIdle(w)
        BY <2>4, <4>1 DEF WorkerPoll, WorkerIdle, At
      <4>2. CASE WorkerTake(w)
        BY <2>3, <4>2 DEF WorkerTake, At, TypeOK
      <4>3. CASE Answer(w) \/ Overloaded(w)
        BY <2>5, <4>3 DEF Answer, Overloaded, At
      <4>4. CASE ReadCap(w)
        BY <2>3, <4>4 DEF ReadCap, At, TypeOK
      <4>5. CASE Route(w)
        BY <2>3, <2>4, <4>5 DEF Route, At
      <4>6. QED  BY <2>6, <4>1, <4>2, <4>3, <4>4, <4>5
    <3>2. Holding' = Holding
      BY <2>2, <3>1 DEF Holding
    <3>3. current_requests_' = current_requests_
      BY <2>6 DEF WorkerPoll, WorkerIdle, WorkerTake, Answer, ReadCap, Overloaded, Route
    <3>4. QED  BY <2>3, <3>2, <3>3 DEF Slots
  <2>7. CASE Claim(w)
    <3>1. worker[w].pc = "claim" /\ r.pc = "route"
      BY <2>4, <2>7 DEF Claim, At
    <3>2. w \notin Holding /\ Holding' = Holding \cup {w}
      BY <2>2, <3>1 DEF Holding
    <3>3. QED  BY <2>3, <2>7, <3>2, OneMore DEF Slots, Claim
  <2>8. CASE Release(w)
    <3>1. worker[w].pc = "release" /\ r.pc = "loop"
      BY <2>5, <2>8 DEF Release, At
    <3>2. w \in Holding /\ Holding' = Holding \ {w}
      BY <2>2, <3>1 DEF Holding
    <3>3. QED  BY <2>3, <2>8, <3>2, OneLess DEF Slots, Release
  <2>9. QED  BY <1>5, <2>6, <2>7, <2>8 DEF WorkerStep
<1>6. ASSUME NEW n \in Caps, SetMaxConcurrent(n) PROVE Slots'
  <2>1. max_concurrent_' = n /\ steady' = (steady /\ (n = 0 <=> max_concurrent_ = 0))
    BY <1>6 DEF SetMaxConcurrent
  <2>2. steady /\ (n = 0 <=> max_concurrent_ = 0)
    BY <2>1, Zenon DEF Capped
  <2>3. n # 0 /\ max_concurrent_ \in Nat
    BY <2>1, ConstantsAssumption DEF Capped, TypeOK
  <2>4. Capped
    BY <2>2, <2>3 DEF Capped
  <2>5. QED  BY <1>6, <2>3, <2>4 DEF Slots, Holding, SetMaxConcurrent
<1>7. CASE UNCHANGED vars
  BY <1>7 DEF Slots, Capped, Holding, vars
<1>8. QED
  BY <1>1, <1>2, <1>3, <1>4, <1>5, <1>6, <1>7 DEF Next, OwnerStep, ServerStep

\* Nobody holds a slot at the start.
LEMMA SlotsInit == Init => Slots
<1> SUFFICES ASSUME Init PROVE Slots
  OBVIOUS
<1>1. Holding = {}
  BY DEF Init, Holding, Rest
<1>2. QED  BY <1>1, FS_EmptySet DEF Init, Slots

\* try_acquire_slot and release_slot: as long as the cap is never lifted,
\* current_requests_ is the number of requests that hold a slot, for any number
\* of workers and any changes of the cap.
THEOREM SlotsAreExact == Spec => []SlotsExact
<1> DEFINE IInv == TypeOK /\ Pool /\ Slots
<1>1. Init => IInv
  BY TypeInit, PoolInit, SlotsInit
<1>2. IInv /\ [Next]_vars => IInv'
  BY TypeStep, PoolStep, SlotsStep
<1>3. IInv => SlotsExact
  BY DEF Slots, Capped, SlotsExact
<1>4. QED  BY <1>1, <1>2, <1>3, PTL DEF Spec

\* try_acquire_slot: as long as the cap is never lifted, a request is admitted
\* exactly when there is room for it under the cap it has read.
THEOREM AdmissionIsExact == Spec => AdmissionExact
<1> DEFINE IInv == TypeOK /\ Pool /\ Slots
           Exact == steady /\ max_concurrent_ > 0 =>
                      \A w \in Workers : At(w, "claim") /\ worker'[w].pc # "claim" =>
                        (worker'[w].pc = "route" <=> Cardinality(Holding) < worker[w].cap)
<1>1. Init => IInv
  BY TypeInit, PoolInit, SlotsInit
<1>2. IInv /\ [Next]_vars => IInv'
  BY TypeStep, PoolStep, SlotsStep
<1>3. IInv /\ [Next]_vars => [Exact]_vars
  <2> SUFFICES ASSUME IInv, Next, steady, max_concurrent_ > 0,
                      NEW w \in Workers, At(w, "claim"), worker'[w].pc # "claim"
               PROVE  worker'[w].pc = "route" <=> Cardinality(Holding) < worker[w].cap
    OBVIOUS
  <2>1. WorkerStep(w)
    <3>1. ASSUME NEW v \in Workers, WorkerStep(v), v # w PROVE FALSE
      <4>1. PICK r \in Thread : worker' = [worker EXCEPT ![v] = r]
        BY <3>1, ThreadStep
      <4>2. worker'[w] = worker[w]
        BY <3>1, <4>1 DEF TypeOK
      <4>3. QED  BY <4>2 DEF At
    <3>2. CASE StopJoinWorkers
      BY <3>2 DEF StopJoinWorkers, At
    <3>3. CASE ServerListen
      BY <3>3 DEF ServerListen, At, Pool
    <3>4. CASE worker' = worker
      BY <3>4 DEF At
    <3>5. QED
      BY <3>1, <3>2, <3>3, <3>4 DEF Next, OwnerStep, ServerStep, Start, Stop, Destroy,
           StopJoinServer, ServerFail, ServerPoll, ServerIdle, ServerClose, ServerAccept,
           SetMaxConcurrent
  <2>2. CASE Claim(w)
    <3>1. worker'[w].pc = "route"
      BY <2>2 DEF Claim, GoTo, TypeOK
    <3>2. QED  BY <2>2, <3>1 DEF Claim, Slots, Capped
  <2>3. CASE Overloaded(w)
    <3>1. worker'[w].pc = "loop"
      BY <2>3 DEF Overloaded, Close, TypeOK, Rest
    <3>2. current_requests_ >= worker[w].cap /\ current_requests_ = Cardinality(Holding)
      BY <2>3 DEF Overloaded, Slots, Capped
    <3>3. worker[w].cap \in Nat /\ current_requests_ \in Int
      BY DEF TypeOK
    <3>4. QED  BY <3>1, <3>2, <3>3
  <2>4. QED
    BY <2>1, <2>2, <2>3 DEF WorkerStep, WorkerPoll, WorkerIdle, WorkerTake, Answer, ReadCap,
                            Route, Release, At
<1>4. QED  BY <1>1, <1>2, <1>3, PTL DEF Spec, AdmissionExact

-----------------------------------------------------------------------------
(* Connections.                                                            *)

InQueue(c) == \E i \in 1 .. Len(conn_queue_) : conn_queue_[i] = c

\* ConnsTracked without counting.
Tracked ==
    /\ \A c \in Conns : conn[c] = "queued" <=> InQueue(c)
    /\ \A i, j \in 1 .. Len(conn_queue_) : conn_queue_[i] = conn_queue_[j] => i = j
    /\ \A c \in Conns : conn[c] = "open" <=> \E w \in Workers : worker[w].fd = c
    /\ \A v, w \in Workers : worker[v].fd = worker[w].fd /\ worker[v].fd # NoConn => v = w

\* Steps that leave queue and connections alone and each worker its connection.
LEMMA TrackedQuiet ==
    ASSUME Tracked, UNCHANGED <<conn_queue_, conn>>, \A w \in Workers : worker'[w].fd = worker[w].fd
    PROVE  Tracked'
BY DEF Tracked, InQueue

\* A worker takes the front of the queue.
LEMMA TrackedTake ==
    ASSUME TypeOK, Tracked, NEW w \in Workers, WorkerTake(w)
    PROVE  Tracked'
<1> DEFINE c == Head(conn_queue_)  q == conn_queue_  n == Len(q) - 1
<1>1. /\ q \in Seq(Conns) /\ q # << >> /\ conn_queue_' = Tail(q)
      /\ conn' = [conn EXCEPT ![c] = "open"] /\ conn \in [Conns -> {"new", "queued", "open", "closed"}]
      /\ worker[w].fd = NoConn
  BY DEF TypeOK, WorkerTake, At
<1>2. /\ n \in Nat /\ n + 1 = Len(q) /\ c = q[1] /\ c \in Conns /\ c # NoConn
      /\ Len(conn_queue_') = n /\ \A i \in 1 .. n : conn_queue_'[i] = q[i + 1]
  BY <1>1, ConstantsAssumption
<1>3. \A v \in Workers : worker'[v].fd = IF v = w THEN c ELSE worker[v].fd
  BY DEF WorkerTake, TypeOK
<1>4. \A d \in Conns : conn'[d] = IF d = c THEN "open" ELSE conn[d]
  BY <1>1, <1>2
<1>5. InQueue(c) /\ conn[c] = "queued" /\ \A v \in Workers : worker[v].fd # c
  <2>1. InQueue(c)
    BY <1>2 DEF InQueue
  <2>2. conn[c] = "queued"
    BY <1>2, <2>1 DEF Tracked
  <2>3. QED  BY <1>2, <2>1, <2>2 DEF Tracked
<1> HIDE DEF c, n
<1>6. \A d \in Conns : InQueue(d)' <=> d # c /\ InQueue(d)
  <2>1. ASSUME NEW d \in Conns, InQueue(d)' PROVE d # c /\ InQueue(d)
    <3>1. PICK i \in 1 .. n : q[i + 1] = d
      BY <1>2, <2>1 DEF InQueue
    <3>2. i + 1 \in 1 .. Len(q) /\ 1 \in 1 .. Len(q) /\ i + 1 # 1
      BY <1>2
    <3>3. QED  BY <1>2, <3>1, <3>2 DEF InQueue, Tracked
  <2>2. ASSUME NEW d \in Conns, InQueue(d), d # c PROVE InQueue(d)'
    <3>1. PICK i \in 1 .. Len(q) : q[i] = d
      BY <2>2 DEF InQueue
    <3>2. i - 1 \in 1 .. n /\ (i - 1) + 1 = i
      BY <1>2, <2>2, <3>1
    <3>3. conn_queue_'[i - 1] = d
      BY <1>2, <3>1, <3>2
    <3>4. QED  BY <1>2, <3>2, <3>3 DEF InQueue
  <2>3. QED  BY <2>1, <2>2
<1>7. \A i, j \in 1 .. n : conn_queue_'[i] = conn_queue_'[j] => i = j
  <2>1. SUFFICES ASSUME NEW i \in 1 .. n, NEW j \in 1 .. n, q[i + 1] = q[j + 1] PROVE i = j
    BY <1>2
  <2>2. i + 1 \in 1 .. Len(q) /\ j + 1 \in 1 .. Len(q)
    BY <1>2
  <2>3. i + 1 = j + 1
    BY <2>1, <2>2 DEF Tracked
  <2>4. QED  BY <1>2, <2>3
<1>8. \A d \in Conns : conn'[d] = "queued" <=> InQueue(d)'
  BY <1>4, <1>6 DEF Tracked
<1>9. \A d \in Conns : conn'[d] = "open" <=> \E v \in Workers : worker'[v].fd = d
  <2>1. SUFFICES ASSUME NEW d \in Conns PROVE conn'[d] = "open" <=> \E v \in Workers : worker'[v].fd = d
    OBVIOUS
  <2>2. CASE d = c
    BY <1>3, <1>4, <2>2
  <2>3. CASE d # c
    <3>1. (\E v \in Workers : worker'[v].fd = d) <=> \E v \in Workers : worker[v].fd = d
      BY <1>1, <1>3, <2>3, ConstantsAssumption
    <3>2. QED  BY <1>4, <2>3, <3>1 DEF Tracked
  <2>4. QED  BY <2>2, <2>3
<1>10. \A u, v \in Workers : worker'[u].fd = worker'[v].fd /\ worker'[u].fd # NoConn => u = v
  BY <1>3, <1>5 DEF Tracked
<1>11. QED  BY <1>2, <1>7, <1>8, <1>9, <1>10 DEF Tracked

\* A worker closes the connection it has.
LEMMA TrackedClose ==
    ASSUME TypeOK, Tracked, NEW w \in Workers, worker[w].pc \in Busy, Close(w), conn_queue_' = conn_queue_
    PROVE  Tracked'
<1> DEFINE c == worker[w].fd
<1>1. c \in Conns /\ c # NoConn
  <2>1. c # NoConn
    BY DEF TypeOK, Busy
  <2>2. QED  BY <2>1 DEF TypeOK
<1>2. \A d \in Conns : conn'[d] = IF d = c THEN "closed" ELSE conn[d]
  BY <1>1 DEF Close, TypeOK
<1>3. \A v \in Workers : worker'[v].fd = IF v = w THEN NoConn ELSE worker[v].fd
  BY DEF Close, TypeOK, Rest
<1>4. conn[c] = "open" /\ \A v \in Workers \ {w} : worker[v].fd # c
  BY <1>1 DEF Tracked
<1>5. \A d \in Conns : InQueue(d)' <=> InQueue(d)
  BY DEF InQueue
<1> HIDE DEF c
<1>6. \A d \in Conns : conn'[d] = "queued" <=> InQueue(d)'
  BY <1>2, <1>4, <1>5 DEF Tracked
<1>7. ASSUME NEW d \in Conns PROVE conn'[d] = "open" <=> \E v \in Workers : worker'[v].fd = d
  <2>1. d # NoConn
    BY ConstantsAssumption
  <2>2. CASE d = c
    BY <1>2, <1>3, <1>4, <2>1, <2>2
  <2>3. CASE d # c
    <3>1. (\E v \in Workers : worker'[v].fd = d) <=> \E v \in Workers : worker[v].fd = d
      BY <1>3, <2>1, <2>3 DEF c
    <3>2. QED  BY <1>2, <2>3, <3>1 DEF Tracked
  <2>4. QED  BY <2>2, <2>3
<1>8. \A u, v \in Workers : worker'[u].fd = worker'[v].fd /\ worker'[u].fd # NoConn => u = v
  BY <1>3 DEF Tracked
<1>9. QED  BY <1>6, <1>7, <1>8 DEF Tracked

\* accept() queues a new connection.
LEMMA TrackedAccept ==
    ASSUME TypeOK, Tracked, NEW c \in Conns, ServerAccept(c)
    PROVE  Tracked'
<1> DEFINE q == conn_queue_  n == Len(q)
<1>1. /\ q \in Seq(Conns) /\ n \in Nat /\ conn_queue_' = Append(q, c) /\ conn[c] = "new"
      /\ conn' = [conn EXCEPT ![c] = "queued"] /\ worker' = worker
      /\ conn \in [Conns -> {"new", "queued", "open", "closed"}]
  BY DEF TypeOK, ServerAccept
<1>2. /\ Len(conn_queue_') = n + 1 /\ conn_queue_'[n + 1] = c
      /\ \A i \in 1 .. n : conn_queue_'[i] = q[i]
      /\ \A i : i \in 1 .. n + 1 <=> i \in 1 .. n \/ i = n + 1
  BY <1>1
<1>3. \A i \in 1 .. n : q[i] # c
  BY <1>1 DEF Tracked, InQueue
<1>4. \A d \in Conns : conn'[d] = IF d = c THEN "queued" ELSE conn[d]
  BY <1>1
<1> HIDE DEF n
<1>5. \A d : InQueue(d)' <=> d = c \/ InQueue(d)
  <2>1. \A d : InQueue(d) <=> \E i \in 1 .. n : q[i] = d
    BY DEF InQueue, n
  <2>2. \A d : InQueue(d)' <=> \E i \in 1 .. n + 1 : conn_queue_'[i] = d
    BY <1>2 DEF InQueue
  <2>3. QED  BY <1>2, <2>1, <2>2
<1>6. \A d \in Conns : conn'[d] = "queued" <=> InQueue(d)'
  BY <1>4, <1>5 DEF Tracked
<1>7. \A i, j \in 1 .. n + 1 : conn_queue_'[i] = conn_queue_'[j] => i = j
  <2>1. \A i, j \in 1 .. n : q[i] = q[j] => i = j
    BY DEF Tracked, n
  <2>2. QED  BY <1>2, <1>3, <2>1
<1>8. \A d \in Conns : conn'[d] = "open" <=> \E v \in Workers : worker'[v].fd = d
  BY <1>1, <1>4 DEF Tracked
<1>9. QED  BY <1>1, <1>2, <1>6, <1>7, <1>8 DEF Tracked

LEMMA TrackedInit == Init => Tracked
<1> SUFFICES ASSUME Init PROVE Tracked
  OBVIOUS
<1>1. \A w \in Workers : worker[w].fd = NoConn
  BY DEF Init, Rest
<1>2. Len(conn_queue_) = 0 /\ \A c \in Conns : conn[c] = "new" /\ c # NoConn
  BY ConstantsAssumption DEF Init
<1>3. QED  BY <1>1, <1>2 DEF Tracked, InQueue

LEMMA TrackedStep == TypeOK /\ Pool /\ Tracked /\ [Next]_vars => Tracked'
<1> SUFFICES ASSUME TypeOK, Pool, Tracked, [Next]_vars PROVE Tracked'
  OBVIOUS
<1>1. CASE StopJoinWorkers \/ ServerListen
  <2>1. \A w \in Workers : worker[w].pc \in Free /\ worker'[w].fd = NoConn
    BY <1>1 DEF StopJoinWorkers, ServerListen, Rest, Pool, Free
  <2>2. \A w \in Workers : worker[w].fd = NoConn
    BY <2>1 DEF TypeOK, Free
  <2>3. QED  BY <1>1, <2>1, <2>2, TrackedQuiet DEF StopJoinWorkers, ServerListen
<1>2. CASE \E c \in Conns : ServerAccept(c)
  BY <1>2, TrackedAccept
<1>3. ASSUME NEW w \in Workers, WorkerStep(w) PROVE Tracked'
  <2>1. CASE WorkerTake(w)
    BY <2>1, TrackedTake
  <2>2. CASE Close(w) /\ worker[w].pc \in Busy /\ conn_queue_' = conn_queue_
    BY <2>2, TrackedClose
  <2>3. ASSUME NEW l, GoTo(w, l), UNCHANGED <<conn_queue_, conn>> PROVE Tracked'
    <3>1. \A v \in Workers : worker'[v].fd = worker[v].fd
      BY <2>3 DEF GoTo, TypeOK
    <3>2. QED  BY <2>3, <3>1, TrackedQuiet
  <2>4. CASE ReadCap(w)
    <3>1. \A v \in Workers : worker'[v].fd = worker[v].fd
      BY <2>4 DEF ReadCap, TypeOK
    <3>2. QED  BY <2>4, <3>1, TrackedQuiet DEF ReadCap
  <2>5. CASE WorkerPoll(w) \/ WorkerIdle(w) \/ Claim(w)
    BY <2>3, <2>5 DEF WorkerPoll, WorkerIdle, Claim
  <2>6. CASE Answer(w) \/ Overloaded(w) \/ Release(w)
    BY <2>2, <2>6 DEF Answer, Overloaded, Release, At, Busy
  <2>7. CASE Route(w)
    BY <2>2, <2>3, <2>7 DEF Route, At, Busy
  <2>8. QED  BY <1>3, <2>1, <2>4, <2>5, <2>6, <2>7 DEF WorkerStep
<1>4. CASE UNCHANGED <<conn_queue_, conn, worker>>
  BY <1>4, TrackedQuiet
<1>5. QED
  BY <1>1, <1>2, <1>3, <1>4 DEF Next, OwnerStep, ServerStep, Start, Stop, Destroy, StopJoinServer,
     ServerFail, ServerPoll, ServerIdle, ServerClose, SetMaxConcurrent, vars

\* server_loop and worker_loop: an accepted connection is in the queue once, with
\* one worker, or closed, through any number of starts and stops.
THEOREM ConnsAreTracked == Spec => []ConnsTracked
<1> DEFINE IInv == TypeOK /\ Pool /\ Tracked
<1>1. Init => IInv
  BY TypeInit, PoolInit, TrackedInit
<1>2. IInv /\ [Next]_vars => IInv'
  BY TypeStep, PoolStep, TrackedStep
<1>3. ASSUME IInv PROVE ConnsTracked
  <2>1. DOMAIN conn_queue_ = 1 .. Len(conn_queue_)
    BY <1>3 DEF TypeOK
  <2>2. SUFFICES ASSUME NEW c \in Conns
                 PROVE  Cardinality({w \in Workers : worker[w].fd = c}) = IF conn[c] = "open" THEN 1 ELSE 0
    BY <1>3, <2>1 DEF ConnsTracked, Tracked, InQueue
  <2> DEFINE H == {w \in Workers : worker[w].fd = c}
  <2>3. CASE conn[c] = "open"
    <3>1. PICK w \in Workers : worker[w].fd = c
      BY <1>3, <2>3 DEF Tracked
    <3>2. H = {w}
      BY <1>3, <3>1, ConstantsAssumption DEF Tracked
    <3>3. QED  BY <2>3, <3>2, FS_Singleton
  <2>4. CASE conn[c] # "open"
    <3>1. H = {}
      BY <1>3, <2>4 DEF Tracked
    <3>2. QED  BY <2>4, <3>1, FS_EmptySet
  <2>5. QED  BY <2>3, <2>4
<1>4. QED  BY <1>1, <1>2, <1>3, PTL DEF Spec

-----------------------------------------------------------------------------
(* Life cycle.                                                             *)

\* Outside of stop(), the accepting thread of a running server is in its loop, and
\* one that has ended has ended by itself, before anybody asked for it.
Cycle ==
    /\ owner = "idle" /\ ~aborted =>
         IF running_ THEN server \in {"open", "loop", "select"} /\ ~stop_requested_
                     ELSE server = "none" \/ (server = "exited" /\ ~stop_requested_)
    /\ owner \in {"join_server", "join_workers"} => ~running_
    /\ owner = "join_workers" => server = "none"

LEMMA CycleStep == TypeOK /\ Cycle /\ AbortsOnFailure /\ [Next]_vars => Cycle' /\ AbortsOnFailure'
<1> SUFFICES ASSUME TypeOK, Cycle, AbortsOnFailure, [Next]_vars PROVE Cycle' /\ AbortsOnFailure'
  OBVIOUS
<1> USE DEF lifeVars, Cycle, AbortsOnFailure, TypeOK
<1>1. CASE ~aborted /\ (Start \/ Stop \/ Destroy)
  BY <1>1 DEF Start, Stop, Destroy, Alive
<1>2. CASE ~aborted /\ OwnerStep
  BY <1>2 DEF OwnerStep, StopJoinServer, StopJoinWorkers
<1>3. CASE ~aborted /\ ServerStep
  BY <1>3 DEF ServerStep, ServerFail, ServerListen, ServerPoll, ServerIdle, ServerClose, ServerAccept
<1>4. CASE UNCHANGED lifeVars
  BY <1>4
<1>5. QED
  BY <1>1, <1>2, <1>3, <1>4 DEF Next, WorkerStep, WorkerPoll, WorkerIdle, WorkerTake, Answer, ReadCap,
     Claim, Overloaded, Route, Release, SetMaxConcurrent, vars

\* start(), stop() and the destructor: std::terminate comes only for an accepting
\* thread whose socket failed, whatever the owner does and wherever it is.
THEOREM AbortsOnlyOnFailure == Spec => []AbortsOnFailure
<1> DEFINE IInv == TypeOK /\ Cycle /\ AbortsOnFailure
<1>1. Init => IInv
  BY TypeInit DEF Init, Cycle, AbortsOnFailure
<1>2. IInv /\ [Next]_vars => IInv'
  BY TypeStep, CycleStep
<1>3. QED  BY <1>1, <1>2, PTL DEF Spec

=============================================================================
