------------------------- MODULE ModelServerProofs -------------------------
(***************************************************************************)
(* The requests and the metrics of ModelServer, for any workers, requests, *)
(* priorities and batch sizes, and any number of starts and stops.         *)
(*                                                                         *)
(* Batched says who has which request and how far it has come.  A start    *)
(* replaces the workers, and finds none of them with a batch (Life).  The  *)
(* peak can only grow, so that a worker that has not raised it has seen    *)
(* one at least as high (Peaks).                                           *)
(***************************************************************************)
EXTENDS ModelServer, FiniteSetTheorems, TLAPS

Unbatched == {"top", "wait", "exit"}
Pending == {"model", "forward", "fail"}
Raising == {"peak", "cas", "leave"}
Excusing == {"fail", "excuse"}
Places == Unbatched \cup Pending \cup {"excuse", "serve"} \cup Raising
WorkerType == [pc : Places, batch : SUBSET Requests, todo : SUBSET Requests, prev : Int, cur : Int]

Submitted == {r \in Requests : state[r] # "new"}

Types ==
    /\ state \in [Requests -> {"new", "queued", "taken", "answered"}]
    /\ calls \in [Requests -> Nat] /\ IsFiniteSet(Submitted)
    /\ w \in [Workers -> WorkerType]
    /\ current \in Int /\ total \in Int /\ errors \in Int /\ max_concurrent \in Int

Life ==
    /\ running_ \in BOOLEAN /\ (unloaded <=> ~model_)
    /\ owner \in {"idle", "join"} /\ (owner = "join" => ~running_)
    /\ owner = "idle" /\ ~running_ => \A i \in Workers : w[i].pc = "exit"

Batched ==
    /\ \A i \in Workers :
         /\ w[i].todo \subseteq w[i].batch
         /\ w[i].pc \in Unbatched => w[i].batch = {}
         /\ w[i].pc \in Pending => w[i].todo = w[i].batch
         /\ w[i].pc \in Raising => w[i].todo = {}
         /\ \A r \in w[i].batch : state[r] = IF r \in w[i].todo THEN "taken" ELSE "answered"
    /\ \A i, j \in Workers : i # j => w[i].batch \cap w[j].batch = {}
    /\ \A r \in Requests : state[r] = "taken" => \E i \in Workers : r \in w[i].todo

Called == \A r \in Requests : calls[r] = IF state[r] = "answered" THEN 1 ELSE 0

Flying == UNION {w[i].batch : i \in InFlight}

Counts == ~unloaded => current = Cardinality(Flying) /\ total + errors = Cardinality(Counted)

Peaks ==
    /\ max_concurrent >= 0
    /\ \A i \in Workers : /\ w[i].prev <= max_concurrent
                          /\ w[i].pc = "leave" => w[i].cur <= max_concurrent

Inv == Types /\ Life /\ Batched /\ Called /\ Counts /\ Peaks

-----------------------------------------------------------------------------
(* Sets of requests.                                                       *)

LEMMA AddBatch ==
    ASSUME NEW S, NEW B, IsFiniteSet(S), IsFiniteSet(B), S \cap B = {}
    PROVE  Cardinality(S \cup B) = Cardinality(S) + Cardinality(B)
<1>1. Cardinality(S \cup B) = Cardinality(S) + Cardinality(B) - Cardinality(S \cap B)
  BY FS_Union
<1>2. Cardinality(S \cap B) = 0 /\ Cardinality(S) \in Nat /\ Cardinality(B) \in Nat
  BY FS_EmptySet, FS_CardinalityType
<1>3. QED  BY <1>1, <1>2

\* Everything a worker has was submitted.
LEMMA FiniteBatches ==
    ASSUME Types, Batched
    PROVE  /\ \A i \in Workers : /\ w[i].batch \subseteq Submitted /\ IsFiniteSet(w[i].batch)
                                /\ Size(i) \in Nat
           /\ IsFiniteSet(Flying) /\ IsFiniteSet(Counted)
<1>1. \A i \in Workers : w[i].batch \subseteq Submitted
  BY DEF Types, WorkerType, Batched, Submitted
<1>2. Flying \subseteq Submitted /\ Counted \subseteq Submitted
  BY <1>1 DEF Flying, InFlight, Counted, Submitted
<1>3. \A S : S \subseteq Submitted => IsFiniteSet(S)
  BY FS_Subset DEF Types
<1>4. \A i \in Workers : Size(i) \in Nat
  BY <1>1, <1>3, FS_CardinalityType DEF Size
<1>5. QED  BY <1>1, <1>2, <1>3, <1>4

\* What a worker adds to Flying.
Flight == {"forward", "fail", "serve", "peak", "cas", "leave"}
Part(v) == IF v.pc \in Flight THEN v.batch ELSE {}

\* A worker's thread becomes v: Flying changes by its part.
LEMMA FlyingStep ==
    ASSUME Types, Batched, NEW i \in Workers, NEW v \in WorkerType, w' = [w EXCEPT ![i] = v],
           Part(v) \subseteq w[i].batch
    PROVE  /\ Cardinality(Part(v)) \in Nat /\ Cardinality(Part(w[i])) \in Nat /\ Cardinality(Flying) \in Nat
           /\ Cardinality(Flying') = Cardinality(Flying) - Cardinality(Part(w[i])) + Cardinality(Part(v))
<1> DEFINE R == {x \in Flying : x \notin w[i].batch}
<1>1. w \in [Workers -> WorkerType] /\ \A j \in Workers : w'[j] = IF j = i THEN v ELSE w[j]
  BY DEF Types
<1>2. \A x : x \in Flying <=> \E j \in Workers : x \in Part(w[j])
  BY DEF Flying, InFlight, Flight, Part
<1>3. \A x : x \in Flying' <=> \E j \in Workers : x \in Part(w'[j])
  BY DEF Flying, InFlight, Flight, Part
<1>4. \A j \in Workers : Part(w[j]) \subseteq w[j].batch
  BY DEF Part
<1>5. \A j \in Workers \ {i} : Part(w[j]) \cap w[i].batch = {}
  BY <1>4 DEF Batched
<1>6. Flying = R \cup Part(w[i]) /\ Flying' = R \cup Part(v)
  <2>1. ASSUME NEW x PROVE x \in Flying <=> x \in R \/ x \in Part(w[i])
    BY <1>2, <1>4, <1>5
  <2>2. ASSUME NEW x PROVE x \in Flying' <=> x \in R \/ x \in Part(v)
    <3>1. x \in Flying' <=> x \in Part(v) \/ \E j \in Workers \ {i} : x \in Part(w[j])
      BY <1>1, <1>3
    <3>2. x \in R <=> \E j \in Workers \ {i} : x \in Part(w[j])
      BY <1>2, <1>4, <1>5
    <3>3. QED  BY <3>1, <3>2
  <2>3. QED  BY <2>1, <2>2
<1>7. R \cap Part(w[i]) = {} /\ R \cap Part(v) = {}
  BY <1>4
<1>8. IsFiniteSet(R) /\ IsFiniteSet(Part(w[i])) /\ IsFiniteSet(Part(v)) /\ IsFiniteSet(Flying)
  BY <1>4, FiniteBatches, FS_Subset
<1>9. /\ Cardinality(Flying) = Cardinality(R) + Cardinality(Part(w[i]))
      /\ Cardinality(Flying') = Cardinality(R) + Cardinality(Part(v))
  BY <1>6, <1>7, <1>8, AddBatch
<1>10. /\ Cardinality(R) \in Nat /\ Cardinality(Part(w[i])) \in Nat /\ Cardinality(Part(v)) \in Nat
       /\ Cardinality(Flying) \in Nat
  BY <1>8, FS_CardinalityType
<1>11. QED  BY <1>9, <1>10

\* How the totals count a worker's request; `done`: it is answered.
CountedBy(v, r, done) == \/ v.pc \in Excusing /\ r \in v.batch
                         \/ done /\ ~(v.pc = "serve" /\ r \in v.batch)

\* Counted changes at most in the worker's batch.
LEMMA CountedStep ==
    ASSUME Types, Batched, NEW i \in Workers, NEW v \in WorkerType, w' = [w EXCEPT ![i] = v],
           v.pc \in Excusing \cup {"serve"} => v.batch \subseteq w[i].batch,
           \A r \in Requests \ w[i].batch : state'[r] = "answered" <=> state[r] = "answered"
    PROVE  /\ \A r \in Requests \ w[i].batch : r \in Counted' <=> r \in Counted
           /\ \A r \in w[i].batch : r \in Counted <=> CountedBy(w[i], r, state[r] = "answered")
           /\ \A r \in w[i].batch : r \in Counted' <=> CountedBy(v, r, state'[r] = "answered")
           /\ Counted \subseteq Requests /\ Counted' \subseteq Requests /\ w[i].batch \subseteq Requests
<1>1. w \in [Workers -> WorkerType] /\ \A j \in Workers : w'[j] = IF j = i THEN v ELSE w[j]
  BY DEF Types
<1>2. w[i].batch \subseteq Requests
  BY <1>1 DEF WorkerType
<1>3. \A r \in w[i].batch, j \in Workers \ {i} : r \notin w[j].batch
  BY DEF Batched
<1>4. \A r \in Requests :
        r \in Counted' <=> \/ \E j \in Workers : w'[j].pc \in Excusing /\ r \in w'[j].batch
                           \/ state'[r] = "answered"
                                /\ ~\E j \in Workers : w'[j].pc = "serve" /\ r \in w'[j].batch
  BY DEF Counted, Excusing
<1>5. \A r \in Requests :
        r \in Counted <=> \/ \E j \in Workers : w[j].pc \in Excusing /\ r \in w[j].batch
                          \/ state[r] = "answered"
                               /\ ~\E j \in Workers : w[j].pc = "serve" /\ r \in w[j].batch
  BY DEF Counted, Excusing
<1>6. ASSUME NEW r \in Requests \ w[i].batch PROVE r \in Counted' <=> r \in Counted
  <2>1. (\E j \in Workers : w'[j].pc \in Excusing /\ r \in w'[j].batch)
          <=> (\E j \in Workers : w[j].pc \in Excusing /\ r \in w[j].batch)
    BY <1>1
  <2>2. (\E j \in Workers : w'[j].pc = "serve" /\ r \in w'[j].batch)
          <=> (\E j \in Workers : w[j].pc = "serve" /\ r \in w[j].batch)
    BY <1>1
  <2>3. QED  BY <1>4, <1>5, <2>1, <2>2
<1>7. ASSUME NEW r \in w[i].batch
      PROVE  /\ r \in Counted <=> CountedBy(w[i], r, state[r] = "answered")
             /\ r \in Counted' <=> CountedBy(v, r, state'[r] = "answered")
  <2>1. /\ \A j \in Workers : r \in w[j].batch => j = i
        /\ \A j \in Workers : r \in w'[j].batch => j = i
        /\ w'[i] = v /\ r \in Requests
    BY <1>1, <1>2, <1>3
  <2>2. QED  BY <1>4, <1>5, <2>1 DEF CountedBy
<1>8. QED  BY <1>2, <1>6, <1>7 DEF Counted

-----------------------------------------------------------------------------
(* Steps of a worker.                                                      *)

\* A thread's batch fits its place.
Shape(v) ==
    /\ v.todo \subseteq v.batch
    /\ v.pc \in Unbatched => v.batch = {}
    /\ v.pc \in Pending => v.todo = v.batch
    /\ v.pc \in Raising => v.todo = {}

\* The worker goes on with what is left of its batch, or lets go of it.
LEMMA BatchedStep ==
    ASSUME Types, Batched, Called, NEW i \in Workers, NEW v \in WorkerType, w' = [w EXCEPT ![i] = v],
           Shape(v), v.todo = w[i].todo, v.batch \subseteq w[i].batch, UNCHANGED <<state, calls>>
    PROVE  Batched' /\ Called'
<1>1. \A j \in Workers : w'[j] = IF j = i THEN v ELSE w[j]
  BY DEF Types
<1>2. ASSUME NEW j \in Workers
      PROVE  /\ w'[j].todo \subseteq w'[j].batch
             /\ w'[j].pc \in Unbatched => w'[j].batch = {}
             /\ w'[j].pc \in Pending => w'[j].todo = w'[j].batch
             /\ w'[j].pc \in Raising => w'[j].todo = {}
             /\ \A r \in w'[j].batch : state[r] = IF r \in w'[j].todo THEN "taken" ELSE "answered"
  BY <1>1 DEF Batched, Shape
<1>3. \A j, k \in Workers : j # k => w'[j].batch \cap w'[k].batch = {}
  BY <1>1 DEF Batched
<1>4. \A r \in Requests : state[r] = "taken" => \E j \in Workers : r \in w'[j].todo
  BY <1>1 DEF Batched
<1>5. QED  BY <1>2, <1>3, <1>4 DEF Batched, Called

\* A worker that has a step to take has not ended.
LEMMA LifeStep ==
    ASSUME Life, NEW i \in Workers, w[i].pc # "exit", UNCHANGED <<running_, owner, model_, unloaded>>
    PROVE  Life'
BY DEF Life

LEMMA TypesStep ==
    ASSUME Types, NEW i \in Workers, NEW v \in WorkerType, w' = [w EXCEPT ![i] = v],
           UNCHANGED <<state, calls>>,
           current' \in Int, total' \in Int, errors' \in Int, max_concurrent' \in Int
    PROVE  Types'
BY DEF Types, Submitted

\* The peak does not sink.
LEMMA PeaksStep ==
    ASSUME Types, Peaks, NEW i \in Workers, NEW v \in WorkerType, w' = [w EXCEPT ![i] = v],
           max_concurrent' \in Int, max_concurrent <= max_concurrent', v.prev <= max_concurrent',
           v.pc = "leave" => v.cur <= max_concurrent'
    PROVE  Peaks'
<1>1. \A j \in Workers : w'[j] = IF j = i THEN v ELSE w[j]
  BY DEF Types
<1>2. /\ max_concurrent \in Int /\ max_concurrent >= 0
      /\ \A j \in Workers : /\ w[j].prev \in Int /\ w[j].cur \in Int /\ w[j].prev <= max_concurrent
                            /\ w[j].pc = "leave" => w[j].cur <= max_concurrent
  BY DEF Types, WorkerType, Peaks
<1>3. max_concurrent' >= 0
  BY <1>2
<1>4. ASSUME NEW j \in Workers
      PROVE  w'[j].prev <= max_concurrent' /\ (w'[j].pc = "leave" => w'[j].cur <= max_concurrent')
  <2>1. CASE j = i
    BY <1>1, <2>1
  <2>2. CASE j # i
    BY <1>1, <1>2, <2>2
  <2>3. QED  BY <2>1, <2>2
<1>5. QED  BY <1>3, <1>4 DEF Peaks

\* Steps that change neither the requests nor the metrics nor what is counted.
LEMMA QuietStep ==
    ASSUME Inv, NEW i \in Workers, NEW v \in WorkerType, w' = [w EXCEPT ![i] = v], w[i].pc # "exit",
           Shape(v), v.todo = w[i].todo, v.batch = w[i].batch,
           v.pc \in Flight <=> w[i].pc \in Flight, v.pc # "leave",
           v.prev = w[i].prev, w[i].pc \notin Excusing \cup {"serve"},
           v.pc \notin Excusing, v.pc = "serve" => w[i].pc = "forward",
           UNCHANGED <<reqs, metrics, life, model_, unloaded>>
    PROVE  Inv'
<1>1. /\ Types /\ Life /\ Batched /\ Called /\ Counts /\ Peaks /\ w[i] \in WorkerType
      /\ UNCHANGED <<state, calls, current, total, errors, max_concurrent, running_, owner>>
      /\ current \in Int /\ total \in Int /\ errors \in Int /\ max_concurrent \in Int
      /\ w[i].prev <= max_concurrent /\ max_concurrent <= max_concurrent
  BY DEF Inv, Types, Peaks, reqs, metrics, life
<1>2. Types' /\ Life' /\ Batched' /\ Called' /\ Peaks'
  BY <1>1, TypesStep, LifeStep, BatchedStep, PeaksStep
<1>3. Part(v) = Part(w[i]) /\ Part(v) \subseteq w[i].batch
  BY DEF Part
<1>4. Cardinality(Flying') = Cardinality(Flying)
  <2>1. /\ Cardinality(Part(v)) \in Nat /\ Cardinality(Flying) \in Nat
        /\ Cardinality(Flying') = Cardinality(Flying) - Cardinality(Part(v)) + Cardinality(Part(v))
    BY <1>1, <1>3, FlyingStep
  <2>2. QED  BY <2>1
<1>5. Counted' = Counted
  <2>1. /\ \A r \in Requests \ w[i].batch : r \in Counted' <=> r \in Counted
        /\ \A r \in w[i].batch : r \in Counted <=> CountedBy(w[i], r, state[r] = "answered")
        /\ \A r \in w[i].batch : r \in Counted' <=> CountedBy(v, r, state'[r] = "answered")
        /\ Counted \subseteq Requests /\ Counted' \subseteq Requests /\ w[i].batch \subseteq Requests
    BY <1>1, CountedStep DEF Excusing
  <2>2. ASSUME NEW r \in w[i].batch, v.pc = "serve" PROVE state[r] # "answered"
    <3>1. w[i].todo = w[i].batch
      BY <1>1, <2>2 DEF Batched, Pending
    <3>2. QED  BY <1>1, <3>1 DEF Batched
  <2>3. \A r \in w[i].batch : r \in Counted' <=> r \in Counted
    BY <1>1, <2>1, <2>2 DEF CountedBy
  <2>4. QED  BY <2>1, <2>3
<1>6. Counts'
  BY <1>1, <1>4, <1>5 DEF Counts
<1>7. QED  BY <1>2, <1>6 DEF Inv

LEMMA GoOnInv ==
    ASSUME Inv, NEW i \in Workers, Top(i) \/ WaitStopped(i) \/ Forward(i) \/ LoadCurrent(i)
    PROVE  Inv'
<1>1. w \in [Workers -> WorkerType] /\ w[i] \in WorkerType /\ Batched /\ current \in Int
  BY DEF Inv, Types
<1>2. Shape(w[i])
  BY <1>1 DEF Batched, Shape
<1>3. CASE Top(i) \/ WaitStopped(i) \/ Forward(i)
  <2>1. PICK pc : /\ w' = [w EXCEPT ![i].pc = pc]
                  /\ \/ w[i].pc \in {"top", "wait"} /\ pc \in {"wait", "exit"}
                     \/ w[i].pc = "forward" /\ pc = "serve"
    BY <1>3 DEF Top, WaitStopped, Forward, Goto, At
  <2> DEFINE v == [w[i] EXCEPT !.pc = pc]
  <2>2. w' = [w EXCEPT ![i] = v]
    BY <1>1, <2>1
  <2>3. /\ v \in WorkerType /\ v.pc = pc /\ v.todo = w[i].todo /\ v.batch = w[i].batch
        /\ v.prev = w[i].prev
    BY <1>1, <2>1 DEF WorkerType, Places, Unbatched
  <2> HIDE DEF v
  <2>4. Shape(v)
    BY <1>2, <2>1, <2>3 DEF Shape, Unbatched, Pending, Raising
  <2>5. UNCHANGED <<reqs, metrics, life, model_, unloaded>>
    BY <1>3 DEF Top, WaitStopped, Forward
  <2>6. QED  BY <2>1, <2>2, <2>3, <2>4, <2>5, QuietStep DEF Flight, Excusing
<1>4. CASE LoadCurrent(i)
  <2> DEFINE v == [w[i] EXCEPT !.pc = "cas", !.cur = current]
  <2>1. w' = [w EXCEPT ![i] = v] /\ w[i].pc = "peak"
    BY <1>1, <1>4 DEF LoadCurrent, At
  <2>2. /\ v \in WorkerType /\ v.pc = "cas" /\ v.todo = w[i].todo /\ v.batch = w[i].batch
        /\ v.prev = w[i].prev
    BY <1>1 DEF WorkerType, Places, Raising
  <2> HIDE DEF v
  <2>3. Shape(v)
    BY <1>2, <2>1, <2>2 DEF Shape, Unbatched, Pending, Raising
  <2>4. UNCHANGED <<reqs, metrics, life, model_, unloaded>>
    BY <1>4 DEF LoadCurrent
  <2>5. QED  BY <2>1, <2>2, <2>3, <2>4, QuietStep DEF Flight, Excusing
<1>5. QED  BY <1>3, <1>4

\* The batch joins current_requests, if there is a model.
LEMMA CheckModelInv == ASSUME Inv, NEW i \in Workers, CheckModel(i) PROVE Inv'
<1> DEFINE v == [w[i] EXCEPT !.pc = IF model_ THEN "forward" ELSE "serve"]
<1>1. /\ Types /\ Life /\ Batched /\ Called /\ Counts /\ Peaks /\ w \in [Workers -> WorkerType]
      /\ w[i] \in WorkerType /\ w[i].pc = "model" /\ Size(i) \in Nat
      /\ UNCHANGED <<state, calls, total, errors, max_concurrent, running_, owner, model_, unloaded>>
      /\ current \in Int /\ total \in Int /\ errors \in Int /\ max_concurrent \in Int
      /\ w[i].prev <= max_concurrent /\ max_concurrent <= max_concurrent
      /\ current' = IF model_ THEN current + Size(i) ELSE current
  BY FiniteBatches DEF CheckModel, Inv, Types, Peaks, reqs, life, At
<1>2. w' = [w EXCEPT ![i] = v]
  BY <1>1 DEF CheckModel, Goto
<1>3. /\ v \in WorkerType /\ v.pc = (IF model_ THEN "forward" ELSE "serve") /\ v.todo = w[i].todo
      /\ v.batch = w[i].batch /\ v.prev = w[i].prev
  BY <1>1 DEF WorkerType, Places, Pending
<1> HIDE DEF v
<1>4. w[i].todo = w[i].batch /\ Shape(v)
  BY <1>1, <1>3 DEF Batched, Shape, Pending, Unbatched, Raising
<1>5. current' \in Int
  BY <1>1
<1>6. Types' /\ Life' /\ Batched' /\ Called' /\ Peaks'
  BY <1>1, <1>2, <1>3, <1>4, <1>5, TypesStep, LifeStep, BatchedStep, PeaksStep
<1>7. ASSUME ~unloaded PROVE current' = Cardinality(Flying') /\ total + errors = Cardinality(Counted')
  <2>1. v.pc = "forward" /\ current' = current + Size(i)
    BY <1>1, <1>3, <1>7 DEF Life
  <2>2. Part(w[i]) = {} /\ Part(v) = w[i].batch
    BY <1>1, <1>3, <2>1 DEF Part, Flight
  <2>3. /\ Cardinality(Flying) \in Nat
        /\ Cardinality(Flying') = Cardinality(Flying) - Cardinality({}) + Cardinality(w[i].batch)
    BY <1>1, <1>2, <1>3, <2>2, FlyingStep
  <2>4. Cardinality({}) = 0 /\ Cardinality(w[i].batch) = Size(i)
    BY FS_EmptySet DEF Size
  <2>5. current' = Cardinality(Flying')
    BY <1>1, <1>7, <2>1, <2>3, <2>4 DEF Counts
  <2>6. /\ \A r \in Requests \ w[i].batch : r \in Counted' <=> r \in Counted
        /\ \A r \in w[i].batch : r \in Counted <=> CountedBy(w[i], r, state[r] = "answered")
        /\ \A r \in w[i].batch : r \in Counted' <=> CountedBy(v, r, state'[r] = "answered")
        /\ Counted \subseteq Requests /\ Counted' \subseteq Requests
    BY <1>1, <1>2, <1>3, CountedStep DEF Excusing
  <2>7. Counted' = Counted
    BY <1>1, <2>1, <2>6 DEF CountedBy, Excusing
  <2>8. QED  BY <1>1, <1>7, <2>5, <2>7 DEF Counts
<1>8. Counts'
  BY <1>1, <1>7 DEF Counts
<1>9. QED  BY <1>6, <1>8 DEF Inv

\* The batch is done: it is counted in total_requests.
LEMMA CountInv == ASSUME Inv, NEW i \in Workers, Count(i) PROVE Inv'
<1> DEFINE v == [w[i] EXCEPT !.pc = "peak", !.prev = max_concurrent]
<1>1. /\ Types /\ Life /\ Batched /\ Called /\ Counts /\ Peaks /\ w \in [Workers -> WorkerType]
      /\ w[i] \in WorkerType /\ w[i].pc = "serve" /\ w[i].todo = {} /\ Size(i) \in Nat
      /\ UNCHANGED <<state, calls, current, errors, max_concurrent, running_, owner, model_, unloaded>>
      /\ current \in Int /\ total \in Int /\ errors \in Int /\ max_concurrent \in Int
      /\ max_concurrent <= max_concurrent /\ total' = total + Size(i)
  BY FiniteBatches DEF Count, Inv, Types, Peaks, reqs, life, At
<1>2. w' = [w EXCEPT ![i] = v]
  BY <1>1 DEF Count
<1>3. /\ v \in WorkerType /\ v.pc = "peak" /\ v.todo = w[i].todo
      /\ v.batch = w[i].batch /\ v.prev = max_concurrent
  BY <1>1 DEF WorkerType, Places, Raising
<1> HIDE DEF v
<1>4. Shape(v)
  BY <1>1, <1>3 DEF Shape, Pending, Unbatched, Raising
<1>5. total' \in Int
  BY <1>1
<1>6. Types' /\ Life' /\ Batched' /\ Called' /\ Peaks'
  BY <1>1, <1>2, <1>3, <1>4, <1>5, TypesStep, LifeStep, BatchedStep, PeaksStep
<1>7. Cardinality(Flying') = Cardinality(Flying)
  <2>1. Part(w[i]) = w[i].batch /\ Part(v) = w[i].batch
    BY <1>1, <1>3 DEF Part, Flight
  <2>2. /\ Cardinality(Flying) \in Nat /\ Cardinality(w[i].batch) \in Nat
        /\ Cardinality(Flying') = Cardinality(Flying) - Cardinality(w[i].batch) + Cardinality(w[i].batch)
    BY <1>1, <1>2, <1>3, <2>1, FlyingStep
  <2>3. QED  BY <2>2
<1>8. Cardinality(Counted') = Cardinality(Counted) + Size(i)
  <2>1. \A r \in w[i].batch : state[r] = "answered"
    BY <1>1 DEF Batched
  <2>2. /\ \A r \in Requests \ w[i].batch : r \in Counted' <=> r \in Counted
        /\ \A r \in w[i].batch : r \in Counted <=> CountedBy(w[i], r, state[r] = "answered")
        /\ \A r \in w[i].batch : r \in Counted' <=> CountedBy(v, r, state'[r] = "answered")
        /\ Counted \subseteq Requests /\ Counted' \subseteq Requests /\ w[i].batch \subseteq Requests
    BY <1>1, <1>2, <1>3, CountedStep DEF Excusing
  <2>3. Counted' = Counted \cup w[i].batch /\ Counted \cap w[i].batch = {}
    BY <1>1, <1>3, <2>1, <2>2 DEF CountedBy, Excusing
  <2>4. QED  BY <1>1, <2>3, AddBatch, FiniteBatches DEF Size
<1>9. Counts'
  <2>1. Cardinality(Counted) \in Nat
    BY <1>1, FiniteBatches, FS_CardinalityType
  <2>2. QED  BY <1>1, <1>7, <1>8, <2>1 DEF Counts
<1>10. QED  BY <1>6, <1>9 DEF Inv

\* The peak is raised, or was high enough.
LEMMA RaiseInv == ASSUME Inv, NEW i \in Workers, Raise(i) PROVE Inv'
<1> DEFINE higher == w[i].cur > w[i].prev
           won == higher /\ max_concurrent = w[i].prev
           v == [w[i] EXCEPT !.pc = IF higher /\ ~won THEN "cas" ELSE "leave", !.prev = max_concurrent]
<1>1. /\ Types /\ Life /\ Batched /\ Called /\ Counts /\ Peaks /\ w \in [Workers -> WorkerType]
      /\ w[i] \in WorkerType /\ w[i].pc = "cas"
      /\ UNCHANGED <<state, calls, current, total, errors, running_, owner, model_, unloaded>>
      /\ current \in Int /\ total \in Int /\ errors \in Int /\ max_concurrent \in Int
      /\ w[i].prev <= max_concurrent /\ w[i].prev \in Int /\ w[i].cur \in Int
  BY DEF Raise, Inv, Types, WorkerType, Peaks, reqs, life, At
<1>2. w' = [w EXCEPT ![i] = v] /\ max_concurrent' = IF won THEN w[i].cur ELSE max_concurrent
  BY <1>1 DEF Raise
<1>3. /\ v \in WorkerType /\ v.pc = (IF higher /\ ~won THEN "cas" ELSE "leave") /\ v.todo = w[i].todo
      /\ v.batch = w[i].batch /\ v.prev = max_concurrent /\ v.cur = w[i].cur
  BY <1>1 DEF WorkerType, Places, Raising
<1> HIDE DEF v
<1>4. w[i].todo = {} /\ Shape(v)
  BY <1>1, <1>3 DEF Batched, Shape, Pending, Unbatched, Raising
<1>5. /\ max_concurrent' \in Int /\ max_concurrent <= max_concurrent'
      /\ v.pc = "leave" => v.cur <= max_concurrent'
  BY <1>1, <1>2, <1>3
<1> HIDE DEF higher, won
<1>6. v.pc \in {"cas", "leave"} /\ v.prev <= max_concurrent'
  BY <1>3, <1>5
<1>7. Types' /\ Life' /\ Batched' /\ Called' /\ Peaks'
  BY <1>1, <1>2, <1>3, <1>4, <1>5, <1>6, TypesStep, LifeStep, BatchedStep, PeaksStep
<1>8. Cardinality(Flying') = Cardinality(Flying)
  <2>1. Part(w[i]) = w[i].batch /\ Part(v) = w[i].batch
    BY <1>1, <1>3, <1>6 DEF Part, Flight
  <2>2. /\ Cardinality(Flying) \in Nat /\ Cardinality(w[i].batch) \in Nat
        /\ Cardinality(Flying') = Cardinality(Flying) - Cardinality(w[i].batch) + Cardinality(w[i].batch)
    BY <1>1, <1>2, <1>3, <2>1, FlyingStep
  <2>3. QED  BY <2>2
<1>9. Counted' = Counted
  <2>1. /\ \A r \in Requests \ w[i].batch : r \in Counted' <=> r \in Counted
        /\ \A r \in w[i].batch : r \in Counted <=> CountedBy(w[i], r, state[r] = "answered")
        /\ \A r \in w[i].batch : r \in Counted' <=> CountedBy(v, r, state'[r] = "answered")
        /\ Counted \subseteq Requests /\ Counted' \subseteq Requests
    BY <1>1, <1>2, <1>3, CountedStep DEF Excusing
  <2>2. QED  BY <1>1, <1>6, <2>1 DEF CountedBy, Excusing
<1>10. Counts'
  BY <1>1, <1>8, <1>9 DEF Counts
<1>11. QED  BY <1>7, <1>10 DEF Inv

\* The batch leaves current_requests.
LEMMA LeaveInv == ASSUME Inv, NEW i \in Workers, Leave(i) PROVE Inv'
<1> DEFINE v == Idle("top")
<1>1. /\ Types /\ Life /\ Batched /\ Called /\ Counts /\ Peaks /\ w \in [Workers -> WorkerType]
      /\ w[i] \in WorkerType /\ w[i].pc = "leave" /\ Size(i) \in Nat
      /\ UNCHANGED <<state, calls, total, errors, max_concurrent, running_, owner, model_, unloaded>>
      /\ current \in Int /\ total \in Int /\ errors \in Int /\ max_concurrent \in Int
      /\ max_concurrent <= max_concurrent /\ 0 <= max_concurrent /\ current' = current - Size(i)
      /\ w' = [w EXCEPT ![i] = v]
  BY FiniteBatches DEF Leave, Inv, Types, Peaks, reqs, life, At
<1>2. v \in WorkerType /\ v.pc = "top" /\ v.todo = {} /\ v.batch = {} /\ v.prev = 0
  BY DEF Idle, WorkerType, Places, Unbatched
<1> HIDE DEF v
<1>3. w[i].todo = {} /\ Shape(v)
  BY <1>1, <1>2 DEF Batched, Shape, Pending, Unbatched, Raising
<1>4. current' \in Int
  BY <1>1
<1>5. Types' /\ Life' /\ Batched' /\ Called' /\ Peaks'
  BY <1>1, <1>2, <1>3, <1>4, TypesStep, LifeStep, BatchedStep, PeaksStep
<1>6. Cardinality(Flying') = Cardinality(Flying) - Size(i) /\ Cardinality(Flying) \in Nat
  <2>1. Part(w[i]) = w[i].batch /\ Part(v) = {}
    BY <1>1, <1>2 DEF Part, Flight
  <2>2. /\ Cardinality(Flying) \in Nat /\ Cardinality(w[i].batch) \in Nat
        /\ Cardinality(Flying') = Cardinality(Flying) - Cardinality(w[i].batch) + Cardinality({})
    BY <1>1, <1>2, <2>1, FlyingStep
  <2>3. QED  BY <2>2, FS_EmptySet DEF Size
<1>7. Counted' = Counted
  <2>1. /\ \A r \in Requests \ w[i].batch : r \in Counted' <=> r \in Counted
        /\ \A r \in w[i].batch : r \in Counted <=> CountedBy(w[i], r, state[r] = "answered")
        /\ \A r \in w[i].batch : r \in Counted' <=> CountedBy(v, r, state'[r] = "answered")
        /\ Counted \subseteq Requests /\ Counted' \subseteq Requests
    BY <1>1, <1>2, CountedStep DEF Excusing
  <2>2. QED  BY <1>1, <1>2, <2>1 DEF CountedBy, Excusing
<1>8. Counts'
  BY <1>1, <1>6, <1>7 DEF Counts
<1>9. QED  BY <1>5, <1>8 DEF Inv

\* A worker with no batch takes queued requests: they are in nobody's hands.
LEMMA TakeInv == ASSUME Inv, NEW i \in Workers, Take(i) PROVE Inv'
<1>1. PICK B \in Batches :
        /\ w' = [w EXCEPT ![i].pc = IF B = {} THEN "top" ELSE "model", ![i].batch = B, ![i].todo = B]
        /\ state' = [r \in Requests |-> IF r \in B THEN "taken" ELSE state[r]]
  BY DEF Take, TakeOf
<1> DEFINE v == [w[i] EXCEPT !.pc = IF B = {} THEN "top" ELSE "model", !.batch = B, !.todo = B]
<1>2. /\ Types /\ Life /\ Batched /\ Called /\ Counts /\ Peaks /\ w \in [Workers -> WorkerType]
      /\ w[i] \in WorkerType /\ w[i].pc = "wait"
      /\ UNCHANGED <<calls, current, total, errors, max_concurrent, running_, owner, model_, unloaded>>
      /\ max_concurrent \in Int /\ w[i].prev <= max_concurrent /\ max_concurrent <= max_concurrent
  <2>1. w[i].pc = "wait" /\ UNCHANGED <<calls, metrics, life, model_, unloaded>>
    BY DEF Take, TakeOf, At
  <2>2. QED  BY <2>1 DEF Inv, Types, Peaks, metrics, life
<1>3. w' = [w EXCEPT ![i] = v]
  BY <1>1, <1>2
<1>4. B \subseteq Requests /\ \A r \in B : state[r] = "queued"
  BY DEF Batches, Queued
<1>5. /\ v \in WorkerType /\ v.pc = (IF B = {} THEN "top" ELSE "model") /\ v.todo = B
      /\ v.batch = B /\ v.prev = w[i].prev
  BY <1>2, <1>4 DEF WorkerType, Places, Pending, Unbatched
<1> HIDE DEF v
<1>6. w[i].batch = {} /\ w[i].todo = {} /\ Shape(v)
  BY <1>2, <1>5 DEF Batched, Shape, Pending, Unbatched, Raising
<1>7. \A j \in Workers : w'[j] = IF j = i THEN v ELSE w[j]
  BY <1>2, <1>3
<1>8. \A r \in Requests : state'[r] = IF r \in B THEN "taken" ELSE state[r]
  BY <1>1
<1>9. Types'
  <2>1. Submitted' = Submitted
    BY <1>4, <1>8 DEF Submitted
  <2>2. state' \in [Requests -> {"new", "queued", "taken", "answered"}]
    BY <1>1, <1>2 DEF Types
  <2>3. w' \in [Workers -> WorkerType]
    BY <1>2, <1>3, <1>5
  <2>4. QED  BY <1>2, <2>1, <2>2, <2>3 DEF Types
<1>10. Life' /\ Peaks'
  BY <1>2, <1>3, <1>5, LifeStep, PeaksStep
<1>11. Called'
  BY <1>2, <1>4, <1>8 DEF Called
<1>12. \A j \in Workers : w[j].batch \subseteq Requests /\ w[j].batch \cap B = {}
  BY <1>2, <1>4 DEF Batched, WorkerType
<1>13. Batched'
  <2>1. ASSUME NEW j \in Workers
        PROVE  /\ w'[j].todo \subseteq w'[j].batch
               /\ w'[j].pc \in Unbatched => w'[j].batch = {}
               /\ w'[j].pc \in Pending => w'[j].todo = w'[j].batch
               /\ w'[j].pc \in Raising => w'[j].todo = {}
               /\ \A r \in w'[j].batch : state'[r] = IF r \in w'[j].todo THEN "taken" ELSE "answered"
    <3>1. CASE j = i
      BY <1>4, <1>5, <1>6, <1>7, <1>8, <3>1 DEF Shape
    <3>2. CASE j # i
      BY <1>2, <1>7, <1>8, <1>12, <3>2 DEF Batched
    <3>3. QED  BY <3>1, <3>2
  <2>2. ASSUME NEW j \in Workers, NEW k \in Workers, j # k PROVE w'[j].batch \cap w'[k].batch = {}
    BY <1>2, <1>5, <1>7, <1>12, <2>2 DEF Batched
  <2>3. ASSUME NEW r \in Requests, state'[r] = "taken" PROVE \E j \in Workers : r \in w'[j].todo
    <3>1. CASE r \in B
      BY <1>5, <1>7, <3>1
    <3>2. CASE r \notin B
      BY <1>2, <1>6, <1>7, <1>8, <2>3, <3>2 DEF Batched
    <3>3. QED  BY <3>1, <3>2
  <2>4. QED  BY <2>1, <2>2, <2>3 DEF Batched
<1>14. Cardinality(Flying') = Cardinality(Flying)
  <2>1. Part(w[i]) = {} /\ Part(v) = {}
    BY <1>2, <1>5 DEF Part, Flight
  <2>2. /\ Cardinality(Flying) \in Nat /\ Cardinality({}) \in Nat
        /\ Cardinality(Flying') = Cardinality(Flying) - Cardinality({}) + Cardinality({})
    BY <1>2, <1>3, <1>5, <2>1, FlyingStep
  <2>3. QED  BY <2>2
<1>15. Counted' = Counted
  <2>1. \A r \in Requests \ w[i].batch : state'[r] = "answered" <=> state[r] = "answered"
    BY <1>4, <1>8
  <2>2. /\ \A r \in Requests \ w[i].batch : r \in Counted' <=> r \in Counted
        /\ Counted \subseteq Requests /\ Counted' \subseteq Requests
    BY <1>2, <1>3, <1>5, <2>1, CountedStep DEF Excusing
  <2>3. QED  BY <1>6, <2>2
<1>16. Counts'
  BY <1>2, <1>14, <1>15 DEF Counts
<1>17. QED  BY <1>9, <1>10, <1>11, <1>13, <1>16 DEF Inv

\* A worker answers some of its requests.
LEMMA AnsweredStep ==
    ASSUME Types, Batched, Called, NEW i \in Workers, NEW v \in WorkerType, w' = [w EXCEPT ![i] = v],
           NEW A, A \subseteq w[i].todo, Shape(v), v.todo = w[i].todo \ A, v.batch \subseteq w[i].batch,
           state' = [r \in Requests |-> IF r \in A THEN "answered" ELSE state[r]],
           calls' = [r \in Requests |-> IF r \in A THEN calls[r] + 1 ELSE calls[r]],
           current' \in Int, total' \in Int, errors' \in Int, max_concurrent' \in Int
    PROVE  /\ Types' /\ Batched' /\ Called'
           /\ A \subseteq w[i].batch /\ \A r \in A : state[r] = "taken"
<1>1. w \in [Workers -> WorkerType] /\ \A j \in Workers : w'[j] = IF j = i THEN v ELSE w[j]
  BY DEF Types
<1>2. A \subseteq w[i].batch /\ \A j \in Workers : w[j].batch \subseteq Requests
  BY <1>1 DEF Batched, WorkerType
<1>3. \A r \in A : state[r] = "taken"
  BY <1>2 DEF Batched
<1>4. \A r \in Requests : /\ state'[r] = IF r \in A THEN "answered" ELSE state[r]
                          /\ calls'[r] = IF r \in A THEN calls[r] + 1 ELSE calls[r]
  OBVIOUS
<1>5. Types'
  <2>1. Submitted' = Submitted
    BY <1>3, <1>4 DEF Submitted
  <2>2. state' \in [Requests -> {"new", "queued", "taken", "answered"}] /\ calls' \in [Requests -> Nat]
    BY DEF Types
  <2>3. w' \in [Workers -> WorkerType]
    BY <1>1
  <2>4. QED  BY <2>1, <2>2, <2>3 DEF Types
<1>6. Called'
  BY <1>3, <1>4 DEF Called, Types
<1>7. \A j \in Workers \ {i} : w[j].batch \cap A = {}
  BY <1>2 DEF Batched
<1>8. Batched'
  <2>1. ASSUME NEW j \in Workers
        PROVE  /\ w'[j].todo \subseteq w'[j].batch
               /\ w'[j].pc \in Unbatched => w'[j].batch = {}
               /\ w'[j].pc \in Pending => w'[j].todo = w'[j].batch
               /\ w'[j].pc \in Raising => w'[j].todo = {}
               /\ \A r \in w'[j].batch : state'[r] = IF r \in w'[j].todo THEN "taken" ELSE "answered"
    <3>1. CASE j = i
      <4>1. \A r \in v.batch : state'[r] = IF r \in v.todo THEN "taken" ELSE "answered"
        BY <1>2, <1>4 DEF Batched
      <4>2. QED  BY <1>1, <3>1, <4>1 DEF Shape
    <3>2. CASE j # i
      BY <1>1, <1>2, <1>4, <1>7, <3>2 DEF Batched
    <3>3. QED  BY <3>1, <3>2
  <2>2. ASSUME NEW j \in Workers, NEW k \in Workers, j # k PROVE w'[j].batch \cap w'[k].batch = {}
    BY <1>1, <2>2 DEF Batched
  <2>3. ASSUME NEW r \in Requests, state'[r] = "taken" PROVE \E j \in Workers : r \in w'[j].todo
    BY <1>1, <1>4, <2>3 DEF Batched
  <2>4. QED  BY <2>1, <2>2, <2>3 DEF Batched
<1>9. QED  BY <1>2, <1>3, <1>5, <1>6, <1>8

\* forward() throws: the batch counts as errors, before any of its callbacks.
LEMMA FailedInv == ASSUME Inv, NEW i \in Workers, Failed(i) PROVE Inv'
<1> DEFINE v == [w[i] EXCEPT !.pc = "fail"]
<1>1. /\ Types /\ Life /\ Batched /\ Called /\ Counts /\ Peaks /\ w \in [Workers -> WorkerType]
      /\ w[i] \in WorkerType /\ w[i].pc = "forward" /\ Size(i) \in Nat
      /\ UNCHANGED <<state, calls, current, total, max_concurrent, running_, owner, model_, unloaded>>
      /\ current \in Int /\ total \in Int /\ errors \in Int /\ max_concurrent \in Int
      /\ max_concurrent <= max_concurrent /\ w[i].prev <= max_concurrent /\ errors' = errors + Size(i)
  BY FiniteBatches DEF Failed, Inv, Types, Peaks, reqs, life, At
<1>2. w' = [w EXCEPT ![i] = v]
  BY <1>1 DEF Failed, Goto
<1>3. /\ v \in WorkerType /\ v.pc = "fail" /\ v.todo = w[i].todo
      /\ v.batch = w[i].batch /\ v.prev = w[i].prev
  BY <1>1 DEF WorkerType, Places, Pending
<1> HIDE DEF v
<1>4. w[i].todo = w[i].batch /\ Shape(v)
  BY <1>1, <1>3 DEF Batched, Shape, Pending, Unbatched, Raising
<1>5. errors' \in Int
  BY <1>1
<1>6. Types' /\ Life' /\ Batched' /\ Called' /\ Peaks'
  BY <1>1, <1>2, <1>3, <1>4, <1>5, TypesStep, LifeStep, BatchedStep, PeaksStep
<1>7. Cardinality(Flying') = Cardinality(Flying)
  <2>1. Part(w[i]) = w[i].batch /\ Part(v) = w[i].batch
    BY <1>1, <1>3 DEF Part, Flight
  <2>2. /\ Cardinality(Flying) \in Nat /\ Cardinality(w[i].batch) \in Nat
        /\ Cardinality(Flying') = Cardinality(Flying) - Cardinality(w[i].batch) + Cardinality(w[i].batch)
    BY <1>1, <1>2, <1>3, <2>1, FlyingStep
  <2>3. QED  BY <2>2
<1>8. Cardinality(Counted') = Cardinality(Counted) + Size(i)
  <2>1. \A r \in w[i].batch : state[r] = "taken"
    BY <1>1, <1>4 DEF Batched
  <2>2. /\ \A r \in Requests \ w[i].batch : r \in Counted' <=> r \in Counted
        /\ \A r \in w[i].batch : r \in Counted <=> CountedBy(w[i], r, state[r] = "answered")
        /\ \A r \in w[i].batch : r \in Counted' <=> CountedBy(v, r, state'[r] = "answered")
        /\ Counted \subseteq Requests /\ Counted' \subseteq Requests /\ w[i].batch \subseteq Requests
    BY <1>1, <1>2, <1>3, CountedStep DEF Excusing
  <2>3. Counted' = Counted \cup w[i].batch /\ Counted \cap w[i].batch = {}
    BY <1>1, <1>3, <2>1, <2>2 DEF CountedBy, Excusing
  <2>4. QED  BY <1>1, <2>3, AddBatch, FiniteBatches DEF Size
<1>9. Counts'
  <2>1. Cardinality(Counted) \in Nat
    BY <1>1, FiniteBatches, FS_CardinalityType
  <2>2. QED  BY <1>1, <1>7, <1>8, <2>1 DEF Counts
<1>10. QED  BY <1>6, <1>9 DEF Inv

\* The failed batch leaves current_requests.
LEMMA UncountInv == ASSUME Inv, NEW i \in Workers, Uncount(i) PROVE Inv'
<1> DEFINE v == [w[i] EXCEPT !.pc = "excuse"]
<1>1. /\ Types /\ Life /\ Batched /\ Called /\ Counts /\ Peaks /\ w \in [Workers -> WorkerType]
      /\ w[i] \in WorkerType /\ w[i].pc = "fail" /\ Size(i) \in Nat
      /\ UNCHANGED <<state, calls, total, errors, max_concurrent, running_, owner, model_, unloaded>>
      /\ current \in Int /\ total \in Int /\ errors \in Int /\ max_concurrent \in Int
      /\ max_concurrent <= max_concurrent /\ w[i].prev <= max_concurrent /\ current' = current - Size(i)
  BY FiniteBatches DEF Uncount, Inv, Types, Peaks, reqs, life, At
<1>2. w' = [w EXCEPT ![i] = v]
  BY <1>1 DEF Uncount, Goto
<1>3. /\ v \in WorkerType /\ v.pc = "excuse" /\ v.todo = w[i].todo
      /\ v.batch = w[i].batch /\ v.prev = w[i].prev
  BY <1>1 DEF WorkerType, Places
<1> HIDE DEF v
<1>4. Shape(v)
  BY <1>1, <1>3 DEF Batched, Shape, Pending, Unbatched, Raising
<1>5. current' \in Int
  BY <1>1
<1>6. Types' /\ Life' /\ Batched' /\ Called' /\ Peaks'
  BY <1>1, <1>2, <1>3, <1>4, <1>5, TypesStep, LifeStep, BatchedStep, PeaksStep
<1>7. Cardinality(Flying') = Cardinality(Flying) - Size(i) /\ Cardinality(Flying) \in Nat
  <2>1. Part(w[i]) = w[i].batch /\ Part(v) = {}
    BY <1>1, <1>3 DEF Part, Flight
  <2>2. /\ Cardinality(Flying) \in Nat /\ Cardinality(w[i].batch) \in Nat
        /\ Cardinality(Flying') = Cardinality(Flying) - Cardinality(w[i].batch) + Cardinality({})
    BY <1>1, <1>2, <1>3, <2>1, FlyingStep
  <2>3. QED  BY <2>2, FS_EmptySet DEF Size
<1>8. Counted' = Counted
  <2>1. /\ \A r \in Requests \ w[i].batch : r \in Counted' <=> r \in Counted
        /\ \A r \in w[i].batch : r \in Counted <=> CountedBy(w[i], r, state[r] = "answered")
        /\ \A r \in w[i].batch : r \in Counted' <=> CountedBy(v, r, state'[r] = "answered")
        /\ Counted \subseteq Requests /\ Counted' \subseteq Requests
    BY <1>1, <1>2, <1>3, CountedStep DEF Excusing
  <2>2. QED  BY <1>1, <1>3, <2>1 DEF CountedBy, Excusing
<1>9. Counts'
  BY <1>1, <1>7, <1>8 DEF Counts
<1>10. QED  BY <1>6, <1>9 DEF Inv

\* The failed batch has its callbacks: the worker lets go of it, and its
\* requests, now answered, stay counted.
LEMMA ExcuseDoneInv == ASSUME Inv, NEW i \in Workers, ExcuseDone(i) PROVE Inv'
<1> DEFINE v == Idle("top")
<1>1. /\ Types /\ Life /\ Batched /\ Called /\ Counts /\ Peaks /\ w \in [Workers -> WorkerType]
      /\ w[i] \in WorkerType /\ w[i].pc = "excuse" /\ w[i].todo = {}
      /\ UNCHANGED <<state, calls, current, total, errors, max_concurrent, running_, owner, model_, unloaded>>
      /\ current \in Int /\ total \in Int /\ errors \in Int /\ max_concurrent \in Int
      /\ max_concurrent <= max_concurrent /\ 0 <= max_concurrent
      /\ w' = [w EXCEPT ![i] = v]
  BY DEF ExcuseDone, Inv, Types, Peaks, reqs, metrics, life, At
<1>2. v \in WorkerType /\ v.pc = "top" /\ v.todo = {} /\ v.batch = {} /\ v.prev = 0
  BY DEF Idle, WorkerType, Places, Unbatched
<1> HIDE DEF v
<1>3. Shape(v)
  BY <1>1, <1>2 DEF Shape, Pending, Unbatched, Raising
<1>4. Types' /\ Life' /\ Batched' /\ Called' /\ Peaks'
  BY <1>1, <1>2, <1>3, TypesStep, LifeStep, BatchedStep, PeaksStep
<1>5. Cardinality(Flying') = Cardinality(Flying)
  <2>1. Part(w[i]) = {} /\ Part(v) = {}
    BY <1>1, <1>2 DEF Part, Flight
  <2>2. /\ Cardinality(Flying) \in Nat /\ Cardinality({}) \in Nat
        /\ Cardinality(Flying') = Cardinality(Flying) - Cardinality({}) + Cardinality({})
    BY <1>1, <1>2, <2>1, FlyingStep
  <2>3. QED  BY <2>2
<1>6. Counted' = Counted
  <2>1. \A r \in w[i].batch : state[r] = "answered"
    BY <1>1 DEF Batched
  <2>2. /\ \A r \in Requests \ w[i].batch : r \in Counted' <=> r \in Counted
        /\ \A r \in w[i].batch : r \in Counted <=> CountedBy(w[i], r, state[r] = "answered")
        /\ \A r \in w[i].batch : r \in Counted' <=> CountedBy(v, r, state'[r] = "answered")
        /\ Counted \subseteq Requests /\ Counted' \subseteq Requests
    BY <1>1, <1>2, CountedStep DEF Excusing
  <2>3. QED  BY <1>1, <1>2, <2>1, <2>2 DEF CountedBy, Excusing
<1>7. Counts'
  BY <1>1, <1>5, <1>6 DEF Counts
<1>8. QED  BY <1>4, <1>7 DEF Inv

\* One request of the batch gets its callback: it counts with its batch.
LEMMA CallbackInv == ASSUME Inv, NEW i \in Workers, Answer(i) \/ Excuse(i) PROVE Inv'
<1>1. PICK q \in w[i].todo :
        /\ w' = [w EXCEPT ![i].todo = @ \ {q}]
        /\ state' = [state EXCEPT ![q] = "answered"]
        /\ calls' = [calls EXCEPT ![q] = @ + 1]
  BY DEF Answer, Excuse, Callback
<1> DEFINE v == [w[i] EXCEPT !.todo = @ \ {q}]
           A == {q}
<1>2. /\ w[i].pc \in {"serve", "excuse"}
      /\ UNCHANGED <<current, total, errors, max_concurrent, running_, owner, model_, unloaded>>
  BY DEF Answer, Excuse, Callback, At, metrics, life
<1>3. /\ Types /\ Life /\ Batched /\ Called /\ Counts /\ Peaks /\ w \in [Workers -> WorkerType]
      /\ w[i] \in WorkerType
      /\ current \in Int /\ total \in Int /\ errors \in Int /\ max_concurrent \in Int
      /\ max_concurrent <= max_concurrent /\ w[i].prev <= max_concurrent
  BY DEF Inv, Types, Peaks
<1>4. /\ v \in WorkerType /\ v.pc = w[i].pc /\ v.todo = w[i].todo \ A /\ v.batch = w[i].batch
      /\ v.prev = w[i].prev /\ w' = [w EXCEPT ![i] = v]
  BY <1>1, <1>2, <1>3 DEF WorkerType
<1> HIDE DEF v
<1>5. Shape(v)
  BY <1>2, <1>3, <1>4 DEF Batched, Shape, Pending, Unbatched, Raising
<1>6. /\ state' = [r \in Requests |-> IF r \in A THEN "answered" ELSE state[r]]
      /\ calls' = [r \in Requests |-> IF r \in A THEN calls[r] + 1 ELSE calls[r]]
  BY <1>1, <1>3 DEF Types
<1>7. A \subseteq w[i].todo
  BY <1>1
<1> HIDE DEF A
<1>8. Types' /\ Batched' /\ Called' /\ A \subseteq w[i].batch
  BY <1>2, <1>3, <1>4, <1>5, <1>6, <1>7, AnsweredStep
<1>9. Life' /\ Peaks'
  BY <1>2, <1>3, <1>4, LifeStep, PeaksStep
<1>10. Cardinality(Flying') = Cardinality(Flying)
  <2>1. Part(v) = Part(w[i]) /\ Part(w[i]) \subseteq w[i].batch
    BY <1>2, <1>4 DEF Part, Flight
  <2>2. /\ Cardinality(Flying) \in Nat /\ Cardinality(Part(w[i])) \in Nat
        /\ Cardinality(Flying') = Cardinality(Flying) - Cardinality(Part(w[i])) + Cardinality(Part(w[i]))
    BY <1>3, <1>4, <2>1, FlyingStep
  <2>3. QED  BY <2>2
<1>11. Counted' = Counted
  <2>1. \A r \in Requests \ w[i].batch : state'[r] = "answered" <=> state[r] = "answered"
    BY <1>6, <1>8
  <2>2. /\ \A r \in Requests \ w[i].batch : r \in Counted' <=> r \in Counted
        /\ \A r \in w[i].batch : r \in Counted <=> CountedBy(w[i], r, state[r] = "answered")
        /\ \A r \in w[i].batch : r \in Counted' <=> CountedBy(v, r, state'[r] = "answered")
        /\ Counted \subseteq Requests /\ Counted' \subseteq Requests
    BY <1>3, <1>4, <2>1, CountedStep DEF Excusing
  <2>3. QED  BY <1>2, <1>4, <2>2 DEF CountedBy, Excusing
<1>12. Counts'
  BY <1>2, <1>3, <1>10, <1>11 DEF Counts
<1>13. QED  BY <1>8, <1>9, <1>12 DEF Inv

LEMMA WorkInv == ASSUME Inv, NEW i \in Workers, Work(i) PROVE Inv'
<1>1. CASE ForwardNull(i) \/ AnswerCrash(i)
  <2>1. UNCHANGED <<reqs, metrics, life, model_, w, unloaded>>
    BY <1>1 DEF ForwardNull, AnswerCrash, Crash
  <2>2. QED  BY <2>1 DEF Inv, Types, Submitted, Life, Batched, Called, Counts, Flying, InFlight,
                         Counted, Peaks, reqs, metrics, life
<1>2. QED
  BY <1>1, GoOnInv, TakeInv, CheckModelInv, FailedInv, UncountInv, CallbackInv, ExcuseDoneInv,
     CountInv, RaiseInv, LeaveInv DEF Work

-----------------------------------------------------------------------------
(* The callers: submit(), start(), stop() and unload_model().              *)

LEMMA SubmitInv == ASSUME Inv, NEW r \in Requests, Submit(r) PROVE Inv'
<1>1. /\ state[r] = "new" /\ state' = [state EXCEPT ![r] = "queued"]
      /\ UNCHANGED <<calls, metrics, life, model_, w, unloaded>>
  BY DEF Submit
<1>2. Types /\ Life /\ Batched /\ Called /\ Counts /\ Peaks /\ w \in [Workers -> WorkerType]
  BY DEF Inv, Types
<1>3. \A q \in Requests : state'[q] = IF q = r THEN "queued" ELSE state[q]
  BY <1>1, <1>2 DEF Types
<1>4. Types'
  <2>1. Submitted' = Submitted \cup {r}
    BY <1>3 DEF Submitted
  <2>2. IsFiniteSet(Submitted')
    BY <1>2, <2>1, FS_AddElement DEF Types
  <2>3. QED  BY <1>1, <1>2, <2>2 DEF Types, metrics
<1>5. Life' /\ Peaks'
  BY <1>1, <1>2 DEF Life, Peaks, life, metrics
<1>6. Called'
  BY <1>1, <1>2, <1>3 DEF Called
<1>7. \A j \in Workers : r \notin w[j].batch /\ w[j].batch \subseteq Requests
  BY <1>1, <1>2 DEF Batched, WorkerType
<1>8. Batched'
  <2>1. \A j \in Workers : \A q \in w[j].batch : state'[q] = IF q \in w[j].todo THEN "taken" ELSE "answered"
    BY <1>2, <1>3, <1>7 DEF Batched
  <2>2. \A q \in Requests : state'[q] = "taken" => \E j \in Workers : q \in w[j].todo
    BY <1>2, <1>3 DEF Batched
  <2>3. QED  BY <1>1, <1>2, <2>1, <2>2 DEF Batched
<1>9. Counted' = Counted /\ Flying' = Flying
  BY <1>1, <1>3 DEF Counted, Flying, InFlight
<1>10. Counts'
  BY <1>1, <1>2, <1>9 DEF Counts, metrics
<1>11. QED  BY <1>4, <1>5, <1>6, <1>8, <1>10 DEF Inv

\* start() finds no worker with a batch: stop() has joined them all.
LEMMA StartInv == ASSUME Inv, Start PROVE Inv'
<1>1. /\ owner = "idle" /\ ~running_ /\ running_' = TRUE /\ w' = [i \in Workers |-> Idle("top")]
      /\ UNCHANGED <<reqs, metrics, model_, owner, unloaded>>
  BY DEF Start
<1>2. Types /\ Life /\ Batched /\ Called /\ Counts /\ Peaks
  BY DEF Inv
<1>3. \A i \in Workers : w[i].pc = "exit" /\ w[i].batch = {} /\ w[i].todo = {}
  BY <1>1, <1>2 DEF Life, Batched, Unbatched
<1>4. /\ Idle("top") \in WorkerType /\ Idle("top").pc = "top" /\ Idle("top").todo = {}
      /\ Idle("top").batch = {} /\ Idle("top").prev = 0
  BY DEF Idle, WorkerType, Places, Unbatched
<1>5. \A i \in Workers : /\ w'[i] \in WorkerType /\ w'[i].pc = "top" /\ w'[i].todo = {}
                         /\ w'[i].batch = {} /\ w'[i].prev = 0
  BY <1>1, <1>4
<1>6. Types'
  <2>1. w' \in [Workers -> WorkerType]
    BY <1>1, <1>4
  <2>2. QED  BY <1>1, <1>2, <2>1 DEF Types, Submitted, reqs, metrics
<1>7. Life' /\ Called'
  BY <1>1, <1>2 DEF Life, Called, reqs
<1>8. Peaks'
  BY <1>1, <1>2, <1>5 DEF Types, Peaks, metrics
<1>9. \A r \in Requests : state[r] # "taken"
  BY <1>2, <1>3 DEF Batched
<1>10. Batched'
  BY <1>1, <1>5, <1>9 DEF Batched, Unbatched, Pending, Raising, reqs
<1>11. Flying' = Flying
  BY <1>3, <1>5 DEF Flying, InFlight
<1>12. Counted' = Counted
  BY <1>1, <1>3, <1>5 DEF Counted, reqs
<1>13. Counts'
  BY <1>1, <1>2, <1>11, <1>12 DEF Counts, metrics
<1>14. QED  BY <1>6, <1>7, <1>8, <1>10, <1>13 DEF Inv

LEMMA CallersInv == ASSUME Inv, Stop \/ Joined \/ UnloadModel PROVE Inv'
<1>1. UNCHANGED <<reqs, metrics, w>> /\ Types /\ Life /\ Batched /\ Called /\ Counts /\ Peaks
  BY DEF Stop, Joined, UnloadModel, Inv
<1>2. Types' /\ Batched' /\ Called' /\ Peaks'
  BY <1>1 DEF Types, Submitted, Batched, Called, Peaks, reqs, metrics
<1>3. Flying' = Flying /\ Counted' = Counted
  BY <1>1 DEF Flying, InFlight, Counted, reqs
<1>4. Counts'
  <2>1. unloaded' = TRUE \/ unloaded' = unloaded
    BY DEF Stop, Joined, UnloadModel
  <2>2. QED  BY <1>1, <1>3, <2>1 DEF Counts, metrics
<1>5. Life'
  <2>1. CASE Stop
    BY <1>1, <2>1, Zenon DEF Life, Stop
  <2>2. CASE Joined
    BY <1>1, <2>2, Zenon DEF Life, Joined
  <2>3. CASE UnloadModel
    BY <1>1, <2>3, Zenon DEF Life, UnloadModel, life
  <2>4. QED  BY <2>1, <2>2, <2>3
<1>6. QED  BY <1>2, <1>4, <1>5 DEF Inv

LEMMA InitInv == Init => Inv
<1>1. SUFFICES ASSUME Init PROVE Inv
  OBVIOUS
<1>2. \A i \in Workers : /\ w[i] \in WorkerType /\ w[i].pc = "exit" /\ w[i].todo = {}
                         /\ w[i].batch = {} /\ w[i].prev = 0
  BY <1>1 DEF Init, Idle, WorkerType, Places, Unbatched
<1>3. Submitted = {} /\ Flying = {} /\ Counted = {}
  BY <1>1, <1>2 DEF Init, Submitted, Flying, InFlight, Counted
<1>4. IsFiniteSet({}) /\ Cardinality({}) = 0
  BY FS_EmptySet
<1>5. Types
  <2>1. w \in [Workers -> WorkerType]
    BY <1>1, <1>2 DEF Init
  <2>2. QED  BY <1>1, <1>3, <1>4, <2>1 DEF Init, Types
<1>6. Counts
  BY <1>1, <1>3, <1>4 DEF Init, Counts
<1>7. Batched
  BY <1>1, <1>2 DEF Init, Batched, Unbatched, Pending, Raising
<1>8. Life /\ Called /\ Peaks
  <2>1. Life
    BY <1>1, <1>2, Zenon DEF Init, Life
  <2>2. Called
    BY <1>1 DEF Init, Called
  <2>3. Peaks
    BY <1>1, <1>2 DEF Init, Peaks
  <2>4. QED  BY <2>1, <2>2, <2>3
<1>9. QED  BY <1>5, <1>6, <1>7, <1>8 DEF Inv

LEMMA NextInv == Inv /\ [Next]_vars => Inv'
<1>1. SUFFICES ASSUME Inv, [Next]_vars PROVE Inv'
  OBVIOUS
<1>2. CASE UNCHANGED vars
  BY <1>1, <1>2 DEF vars, Inv, Types, Submitted, Life, Batched, Called, Counts, Flying, InFlight,
                    Counted, Peaks, reqs, metrics, life
<1>3. CASE Next
  BY <1>1, <1>3, SubmitInv, StartInv, CallersInv, WorkInv DEF Next
<1>4. QED  BY <1>1, <1>2, <1>3

LEMMA Invariance == Spec => []Inv
BY InitInv, NextInv, PTL DEF Spec

-----------------------------------------------------------------------------
(* What the invariant says of the program.                                 *)

\* worker_loop(): with any workers and any requests, a callback is called once,
\* when the request is done, and one worker has the request until then.
THEOREM CallbacksOnce == Spec => []CalledOnce
<1>1. ASSUME Inv PROVE CalledOnce
  <2>1. ASSUME NEW r \in Requests, state[r] = "taken"
        PROVE  Cardinality({i \in Workers : /\ r \in w[i].todo
                                           /\ w[i].pc \in {"model", "forward", "fail", "excuse", "serve"}}) = 1
    <3>1. Batched /\ w \in [Workers -> WorkerType]
      BY <1>1 DEF Inv, Types
    <3>2. PICK j \in Workers : r \in w[j].todo
      BY <2>1, <3>1 DEF Batched
    <3>3. \A i \in Workers : r \in w[i].todo => i = j
      BY <3>1, <3>2 DEF Batched
    <3>4. w[j].pc \in {"model", "forward", "fail", "excuse", "serve"}
      BY <3>1, <3>2 DEF Batched, WorkerType, Places, Unbatched, Pending, Raising
    <3>5. {i \in Workers : /\ r \in w[i].todo
                            /\ w[i].pc \in {"model", "forward", "fail", "excuse", "serve"}} = {j}
      BY <3>2, <3>3, <3>4
    <3>6. QED  BY <3>5, FS_Singleton
  <2>2. QED  BY <1>1, <2>1 DEF Inv, Called, CalledOnce
<1>2. QED  BY <1>1, Invariance, PTL

\* metrics_: while the model stays loaded, current_requests is the number of
\* requests in flight and the two totals count every request once: a failed one
\* from the catch block on, a served one from the end of its batch on.
THEOREM MetricsExact == Spec => []CountsExact
<1>1. Inv => CountsExact
  BY DEF Inv, Counts, Flying, Counted, CountsExact
<1>2. QED  BY <1>1, Invariance, PTL

\* The compare-and-exchange loop loses no raise of max_concurrent, whatever
\* other workers do between its steps.
THEOREM PeakKept == Spec => []PeakCovers
<1>1. Inv => PeakCovers
  BY DEF Inv, Types, WorkerType, Peaks, PeakCovers, At
<1>2. QED  BY <1>1, Invariance, PTL

=============================================================================
