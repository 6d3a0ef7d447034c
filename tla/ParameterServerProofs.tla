----------------------- MODULE ParameterServerProofs -----------------------
(***************************************************************************)
(* The operations and the gradients of ParameterServer, for any callers,   *)
(* parameters, bounds and numbers of calls.                                *)
(*                                                                         *)
(* Placed is the heart of the invariant: an operation is in the queue, in  *)
(* the hands of one thread or processed, one of these only, and the worker *)
(* has only what came through the queue.  Older orders the three places:   *)
(* what has left the queue is older than what is in it, and what the       *)
(* worker has in hand is younger than all it has processed.  Gradients     *)
(* adds that only processed gradients have reached a parameter or the      *)
(* stale queue, which names each of them once.                             *)
(***************************************************************************)
EXTENDS ParameterServer, SequenceTheorems, FiniteSetTheorems, TLAPS

Entries == [version : Nat, base : Ids, full : [Ids -> Nat], half : [Ids -> Nat]]
StaleEntries == [id : Ids, name : Names, version : Nat]
Busy == {"work", "grad_stale", "grad_apply"}
Draining == {"drain", "drain_stale", "drain_apply"}
Places == Busy \cup Draining \cup {"idle", "join", "top", "lock", "block", "sleep", "done"}
ThreadType == [pc : Places, op : Ops \cup {None}]

\* Operation i is in s, in the hands of t; s is in the order of the calls.
In(i, s) == \E k \in 1 .. Len(s) : s[k].id = i
Carries(t, i) == th[t].op # None /\ th[t].op.id = i
Ascending(s) == \A k, l \in 1 .. Len(s) : k < l => s[k].id < s[l].id

Types ==
    /\ async_queue_ \in Seq(Ops) /\ async_running_ \in BOOLEAN
    /\ th \in [Threads -> ThreadType]
    /\ calls \in 0 .. MaxCalls /\ async \subseteq 1 .. calls
    /\ processed \in [Ids -> Nat]

DataTypes ==
    /\ params_ \in [Names -> {None} \cup Entries]
    /\ stale_queue_ \in Seq(StaleEntries) /\ Len(stale_queue_) <= MaxStale

BusyExactly == \A t \in Threads : th[t].pc \in Busy <=> th[t].op # None

\* The mutexes belong to the threads whose place in the code holds them.
Mutexes ==
    \A t \in Threads :
        /\ global_mtx_ = t <=> th[t].pc \in {"grad_stale", "drain_stale", "grad_apply", "drain_apply"}
        /\ stale_mtx_ = t <=> th[t].pc \in {"grad_apply", "drain_apply"}
        /\ th[t].pc \in {"grad_stale", "grad_apply"} => params_[Op(t).name] # None

Placed ==
    /\ Ascending(async_queue_)
    /\ \A i \in Ids : In(i, async_queue_) =>
         /\ i \in async /\ processed[i] = 0
         /\ \A t \in Threads : ~Carries(t, i)
    /\ \A t \in Threads, i \in Ids : Carries(t, i) =>
         /\ i <= calls /\ processed[i] = 0 /\ (i \in async <=> t = Worker)
         /\ \A u \in Threads \ {t} : ~Carries(u, i)
    /\ \A i \in Ids : processed[i] \in {0, 1} /\ (i > calls => processed[i] = 0)
    /\ \A i \in async : processed[i] = 1 \/ In(i, async_queue_) \/ Carries(Worker, i)

\* What has left the queue is older than what is in it, and what is processed
\* older than what the worker has.
Older ==
    /\ \A i, j \in async : In(j, async_queue_) /\ ~In(i, async_queue_) => i < j
    /\ \A i, j \in async : Carries(Worker, j) /\ processed[i] = 1 => i < j

Gradients ==
    /\ \A k, l \in 1 .. Len(stale_queue_) : stale_queue_[k].id = stale_queue_[l].id => k = l
    /\ \A i \in Ids : processed[i] = 0 => ~In(i, stale_queue_)
    /\ \A n \in Names : params_[n] # None => \A i \in Ids :
         /\ params_[n].full[i] <= processed[i] /\ params_[n].half[i] <= processed[i]
         /\ In(i, stale_queue_) => params_[n].half[i] = 0

Inv == Types /\ DataTypes /\ BusyExactly /\ Mutexes /\ Placed /\ Older /\ Gradients

-----------------------------------------------------------------------------
(* Sequences of operations.                                                *)

LEMMA EmptyIn == /\ \A i : ~In(i, << >>)
                 /\ Ascending(<< >>)
BY DEF In, Ascending

LEMMA AppendIn ==
    ASSUME NEW s \in Seq(Ops), NEW o \in Ops
    PROVE  /\ Append(s, o) \in Seq(Ops) /\ Append(s, o) # << >>
           /\ \A i : In(i, Append(s, o)) <=> In(i, s) \/ i = o.id
           /\ Ascending(s) /\ (\A i \in Ids : In(i, s) => i < o.id) => Ascending(Append(s, o))
<1> DEFINE r == Append(s, o)  n == Len(s)
<1>1. n \in Nat /\ \A k \in 1 .. n : s[k] \in Ops
  OBVIOUS
<1>2. r \in Seq(Ops) /\ r # << >> /\ Len(r) = n + 1 /\ r[n + 1] = o /\ \A k \in 1 .. n : r[k] = s[k]
  BY AppendProperties
<1> HIDE DEF r, n
<1>3. \A k : k \in 1 .. n + 1 <=> k \in 1 .. n \/ k = n + 1
  BY <1>1
<1>4. \A i : In(i, r) <=> In(i, s) \/ i = o.id
  <2>1. \A i : In(i, r) <=> \E k \in 1 .. n + 1 : r[k].id = i
    BY <1>2 DEF In
  <2>2. \A i : In(i, s) <=> \E k \in 1 .. n : s[k].id = i
    BY DEF In, n
  <2>3. QED  BY <1>2, <1>3, <2>1, <2>2
<1>5. ASSUME Ascending(s), \A i \in Ids : In(i, s) => i < o.id PROVE Ascending(r)
  <2>1. SUFFICES ASSUME NEW k \in 1 .. n + 1, NEW l \in 1 .. n + 1, k < l PROVE r[k].id < r[l].id
    BY <1>2 DEF Ascending
  <2>2. k \in 1 .. n
    BY <1>1, <2>1
  <2>3. CASE l \in 1 .. n
    BY <1>2, <1>5, <2>1, <2>2, <2>3 DEF Ascending, n
  <2>4. CASE l = n + 1
    <3>1. In(s[k].id, s) /\ s[k].id \in Ids
      BY <1>1, <2>2 DEF In, n, Ops
    <3>2. QED  BY <1>2, <1>5, <2>2, <2>4, <3>1
  <2>5. QED  BY <1>3, <2>3, <2>4
<1>6. QED  BY <1>2, <1>4, <1>5 DEF r

LEMMA TailIn ==
    ASSUME NEW s \in Seq(Ops), s # << >>, Ascending(s)
    PROVE  /\ Head(s) \in Ops /\ Tail(s) \in Seq(Ops) /\ Ascending(Tail(s))
           /\ \A i : In(i, s) <=> i = Head(s).id \/ In(i, Tail(s))
           /\ ~In(Head(s).id, Tail(s))
           /\ \A i : In(i, Tail(s)) => Head(s).id < i
           /\ Len(s) > 1 <=> Tail(s) # << >>
<1> DEFINE r == Tail(s)  n == Len(s) - 1
<1>1. n \in Nat /\ n + 1 = Len(s) /\ \A k \in 1 .. n + 1 : s[k] \in Ops
  OBVIOUS
<1>2. Head(s) = s[1] /\ r \in Seq(Ops) /\ Len(r) = n /\ \A k \in 1 .. n : r[k] = s[k + 1]
  OBVIOUS
<1> HIDE DEF r, n
<1>3. n > 0 <=> r # << >>
  <2>1. r = << >> <=> Len(r) = 0
    BY <1>2, EmptySeq
  <2>2. QED  BY <1>1, <1>2, <2>1
<1>4. Ascending(r)
  <2>1. SUFFICES ASSUME NEW k \in 1 .. n, NEW l \in 1 .. n, k < l PROVE s[k + 1].id < s[l + 1].id
    BY <1>2 DEF Ascending
  <2>2. k + 1 \in 1 .. Len(s) /\ l + 1 \in 1 .. Len(s) /\ k + 1 < l + 1
    BY <1>1, <2>1
  <2>3. QED  BY <2>2 DEF Ascending
<1>5. \A i : In(i, r) <=> \E k \in 1 .. n : s[k + 1].id = i
  BY <1>2 DEF In
<1>6. \A i : In(i, r) => s[1].id < i /\ In(i, s)
  <2>1. SUFFICES ASSUME NEW k \in 1 .. n PROVE s[1].id < s[k + 1].id /\ In(s[k + 1].id, s)
    BY <1>5
  <2>2. 1 \in 1 .. Len(s) /\ k + 1 \in 1 .. Len(s) /\ 1 < k + 1
    BY <1>1
  <2>3. QED  BY <2>2 DEF Ascending, In
<1>7. In(s[1].id, s)
  BY <1>1 DEF In
<1>8. ASSUME NEW i, In(i, s) PROVE i = s[1].id \/ In(i, r)
  <2>1. PICK k \in 1 .. Len(s) : s[k].id = i
    BY <1>8 DEF In
  <2>2. CASE k = 1
    BY <2>1, <2>2
  <2>3. CASE k # 1
    <3>1. k - 1 \in 1 .. n /\ (k - 1) + 1 = k
      BY <1>1, <2>3
    <3>2. QED  BY <1>5, <2>1, <3>1
  <2>4. QED  BY <2>2, <2>3
<1>9. s[1].id \in Nat
  BY <1>1 DEF Ops, Ids
<1>10. ~In(s[1].id, r)
  BY <1>6, <1>9
<1>11. Len(s) > 1 <=> n > 0
  BY <1>1
<1>12. QED  BY <1>1, <1>2, <1>3, <1>4, <1>6, <1>7, <1>8, <1>10, <1>11 DEF r

\* Counting places whose elements are distinct.
LEMMA TimesIn ==
    ASSUME NEW S, NEW s \in Seq(S), NEW i
    PROVE  /\ Times(i, s) \in Nat /\ (Times(i, s) > 0 <=> In(i, s))
           /\ (\A k, l \in 1 .. Len(s) : s[k].id = s[l].id => k = l) => Times(i, s) <= 1
<1> DEFINE T == {k \in 1 .. Len(s) : s[k].id = i}
<1>1. Len(s) \in Nat
  OBVIOUS
<1>2. IsFiniteSet(1 .. Len(s))
  BY <1>1, FS_Interval
<1>3. IsFiniteSet(T)
  BY <1>2, FS_Subset
<1>4. Cardinality(T) \in Nat /\ (Cardinality(T) = 0 <=> T = {})
  BY <1>3, FS_CardinalityType, FS_EmptySet
<1>5. ASSUME \A k, l \in 1 .. Len(s) : s[k].id = s[l].id => k = l PROVE Cardinality(T) <= 1
  <2>1. CASE T = {}
    BY <1>4, <2>1
  <2>2. CASE T # {}
    <3>1. PICK k : k \in T
      BY <2>2
    <3>2. T = {k}
      BY <1>5, <3>1
    <3>3. Cardinality(T) = 1
      BY <3>2, FS_Singleton
    <3>4. QED  BY <3>3
  <2>3. QED  BY <2>1, <2>2
<1>6. T # {} <=> In(i, s)
  BY DEF In
<1>7. Times(i, s) = Cardinality(T)
  BY DEF Times
<1> HIDE DEF T
<1>8. QED  BY <1>4, <1>5, <1>6, <1>7

LEMMA AscendingDistinct ==
    ASSUME NEW s \in Seq(Ops), Ascending(s)
    PROVE  \A k, l \in 1 .. Len(s) : s[k].id = s[l].id => k = l
<1>1. ASSUME NEW k \in 1 .. Len(s) PROVE s[k].id \in Int
  <2>1. s[k] \in Ops
    OBVIOUS
  <2>2. QED  BY <2>1, ConstantsAssumption DEF Ops, Ids
<1>2. ASSUME NEW k \in 1 .. Len(s), NEW l \in 1 .. Len(s), s[k].id = s[l].id PROVE k = l
  <2>1. ~(k < l) /\ ~(l < k)
    BY <1>1, <1>2 DEF Ascending
  <2>2. QED  BY <2>1
<1>3. QED  BY <1>2

-----------------------------------------------------------------------------
(* Where operations are.                                                   *)

Threading == Types /\ BusyExactly /\ Placed /\ Older

\* Steps that move no operation.
LEMMA Unmoved ==
    ASSUME Threading, UNCHANGED <<async_queue_, async, processed, calls>>,
           async_running_' \in BOOLEAN,
           th' \in [Threads -> ThreadType],
           \A t \in Threads : th'[t].op = th[t].op /\ (th'[t].pc \in Busy <=> th[t].pc \in Busy)
    PROVE  Threading'
<1>1. Types'
  BY DEF Threading, Types
<1>2. BusyExactly'
  BY DEF Threading, BusyExactly
<1>3. \A t \in Threads : \A i : Carries(t, i)' <=> Carries(t, i)
  BY DEF Carries
<1>4. Placed'
  BY <1>3 DEF Threading, Placed, Threads
<1>5. Older'
  BY <1>3 DEF Threading, Older, Threads
<1>6. QED  BY <1>1, <1>2, <1>4, <1>5 DEF Threading

\* A thread has processed its operation.
LEMMA Finished ==
    ASSUME Threading, NEW t \in Threads, th[t].pc \in Busy, Finish(t), UNCHANGED queues
    PROVE  /\ Threading' /\ processed[Op(t).id] = 0 /\ Op(t) \in Ops
           /\ th'[t].pc \in {"idle", "drain"} /\ \A u \in Threads \ {t} : th'[u] = th[u]
           /\ processed' = [processed EXCEPT ![Op(t).id] = 1]
<1> DEFINE o == Op(t)
<1>1. o \in Ops /\ o.id \in Ids /\ Carries(t, o.id)
  BY DEF Threading, Types, ThreadType, BusyExactly, Op, Ops, Carries
<1>2. /\ processed[o.id] = 0 /\ processed' = [processed EXCEPT ![o.id] = 1]
      /\ processed \in [Ids -> Nat]
  <2>1. processed[o.id] = 0
    BY <1>1 DEF Threading, Placed
  <2>2. processed' = [processed EXCEPT ![o.id] = @ + 1] /\ processed \in [Ids -> Nat]
    BY DEF Finish, Threading, Types
  <2>3. QED  BY <1>1, <2>1, <2>2
<1>3. /\ th' \in [Threads -> ThreadType]
      /\ th'[t].pc \in {"idle", "drain"} /\ th'[t].op = None
      /\ \A u \in Threads \ {t} : th'[u] = th[u]
  BY DEF Finish, Threading, Types, ThreadType, Places, Draining
<1>4. UNCHANGED <<async_queue_, async, async_running_, calls>> /\ async \subseteq Ids /\ calls \in Nat
  BY ConstantsAssumption DEF queues, Threading, Types, Ids
<1> HIDE DEF o
<1>5. Types'
  BY <1>1, <1>2, <1>3, <1>4 DEF Threading, Types
<1>6. BusyExactly'
  BY <1>3 DEF Threading, BusyExactly, Busy
<1>7. /\ \A u \in Threads, i \in Ids : Carries(u, i)' <=> u # t /\ Carries(u, i)
      /\ \A i \in Ids : processed'[i] = IF i = o.id THEN 1 ELSE processed[i]
      /\ \A i \in Ids : Carries(t, i) <=> i = o.id
  BY <1>1, <1>2, <1>3 DEF Carries
<1>8. Placed'
  <2>1. /\ ~In(o.id, async_queue_) /\ o.id <= calls /\ (o.id \in async <=> t = Worker)
        /\ \A u \in Threads \ {t} : ~Carries(u, o.id)
    BY <1>1 DEF Threading, Placed
  <2>2. \A i \in Ids : In(i, async_queue_) =>
         /\ i \in async /\ processed'[i] = 0
         /\ \A u \in Threads : ~Carries(u, i)'
    BY <1>7, <2>1 DEF Threading, Placed
  <2>3. \A u \in Threads, i \in Ids : Carries(u, i)' =>
         /\ i <= calls /\ processed'[i] = 0 /\ (i \in async <=> u = Worker)
         /\ \A v \in Threads \ {u} : ~Carries(v, i)'
    BY <1>7, <2>1 DEF Threading, Placed
  <2>4. \A i \in Ids : processed'[i] \in {0, 1} /\ (i > calls => processed'[i] = 0)
    BY <1>1, <1>4, <1>7, <2>1 DEF Threading, Placed, Ids
  <2>5. \A i \in async : processed'[i] = 1 \/ In(i, async_queue_) \/ Carries(Worker, i)'
    <3>1. SUFFICES ASSUME NEW i \in async, processed[i] # 1, ~In(i, async_queue_)
                   PROVE  processed'[i] = 1 \/ Carries(Worker, i)'
      BY <1>4, <1>7
    <3>2. Carries(Worker, i) /\ Worker \in Threads /\ i \in Ids
      BY <1>4, <3>1 DEF Threading, Placed, Threads
    <3>3. QED  BY <1>7, <3>2
  <2>6. QED  BY <1>4, <2>2, <2>3, <2>4, <2>5 DEF Threading, Placed
<1>9. Older'
  <2>1. ASSUME NEW i \in async, NEW j \in async, Carries(Worker, j)', processed'[i] = 1 PROVE i < j
    <3>1. Worker # t /\ Carries(Worker, j) /\ i \in Ids /\ j \in Ids
      BY <1>4, <1>7, <2>1 DEF Threads
    <3>2. i # o.id
      BY <1>1, <3>1 DEF Threading, Placed
    <3>3. QED  BY <1>7, <2>1, <3>1, <3>2 DEF Threading, Older
  <2>2. QED  BY <1>4, <2>1 DEF Threading, Older
<1>10. QED  BY <1>1, <1>2, <1>3, <1>5, <1>6, <1>8, <1>9 DEF Threading, o

\* The operation of the next call is new.
LEMMA NewOperation ==
    ASSUME Threading, NewCall, NEW kind \in Kinds, NEW n \in Names
    PROVE  /\ calls + 1 \in Ids /\ calls' = calls + 1 /\ calls' \in 0 .. MaxCalls /\ calls \in Nat
           /\ [id |-> calls + 1, kind |-> kind, name |-> n] \in Ops
           /\ processed[calls + 1] = 0 /\ calls + 1 \notin async
           /\ ~In(calls + 1, async_queue_)
           /\ \A t \in Threads : ~Carries(t, calls + 1)
           /\ \A i \in Ids : In(i, async_queue_) => i < calls + 1
           /\ \A i \in Ids : i \in Int /\ (i <= calls => i <= calls + 1) /\ (i > calls + 1 => i > calls)
           /\ async \subseteq Ids
<1>1. /\ calls + 1 \in Ids /\ calls' = calls + 1 /\ calls' \in 0 .. MaxCalls /\ calls \in Nat
      /\ ~(calls + 1 <= calls) /\ calls + 1 > calls /\ async \subseteq Ids
      /\ \A i \in Ids : i \in Int /\ (i <= calls => i <= calls + 1) /\ (i > calls + 1 => i > calls)
  BY ConstantsAssumption DEF Threading, Types, NewCall, Ids
<1>2. [id |-> calls + 1, kind |-> kind, name |-> n] \in Ops
  BY <1>1 DEF Ops
<1>3. calls + 1 \notin async /\ \A i \in async : i \in Int /\ i < calls + 1
  BY <1>1 DEF Threading, Types
<1>4. QED  BY <1>1, <1>2, <1>3 DEF Threading, Placed

\* push and update_gradient.
LEMMA CallSyncPlaced ==
    ASSUME Threading, NEW t \in Callers, NEW kind \in Kinds, NEW n \in Names, CallSync(t, kind, n)
    PROVE  Threading'
<1> DEFINE o == [id |-> calls + 1, kind |-> kind, name |-> n]
<1>1. /\ calls + 1 \in Ids /\ calls' = calls + 1 /\ calls' \in 0 .. MaxCalls /\ calls \in Nat
      /\ o \in Ops /\ processed[calls + 1] = 0 /\ calls + 1 \notin async /\ ~In(calls + 1, async_queue_)
      /\ \A u \in Threads : ~Carries(u, calls + 1)
      /\ \A i \in Ids : i \in Int /\ (i <= calls => i <= calls + 1) /\ (i > calls + 1 => i > calls)
      /\ async \subseteq Ids
  BY NewOperation DEF CallSync
<1>2. /\ t \in Threads /\ t # Worker /\ Worker \in Threads /\ th[t].pc = "idle"
      /\ UNCHANGED <<processed, async_queue_, async_running_, async>>
  BY ConstantsAssumption DEF Threads, CallSync, At, data
<1>3. th' = [th EXCEPT ![t] = [pc |-> "work", op |-> o]] /\ o.id = calls + 1 /\ o # None
  BY <1>1, ConstantsAssumption DEF CallSync
<1> HIDE DEF o
<1>4. /\ th' \in [Threads -> ThreadType] /\ th'[t].pc = "work" /\ th'[t].op = o
      /\ \A u \in Threads \ {t} : th'[u] = th[u]
  BY <1>1, <1>2, <1>3 DEF Threading, Types, ThreadType, Places, Busy
<1>5. Types'
  BY <1>1, <1>2, <1>4 DEF Threading, Types
<1>6. BusyExactly'
  BY <1>3, <1>4 DEF Threading, BusyExactly, Busy
<1>7. \A u \in Threads, i \in Ids : Carries(u, i)' <=> IF u = t THEN i = calls + 1 ELSE Carries(u, i)
  BY <1>3, <1>4 DEF Carries
<1>8. Placed'
  <2>1. \A i \in Ids : In(i, async_queue_) =>
         /\ i \in async /\ processed[i] = 0
         /\ \A u \in Threads : ~Carries(u, i)'
    BY <1>1, <1>7 DEF Threading, Placed
  <2>2. \A u \in Threads, i \in Ids : Carries(u, i)' =>
         /\ i <= calls + 1 /\ processed[i] = 0 /\ (i \in async <=> u = Worker)
         /\ \A v \in Threads \ {u} : ~Carries(v, i)'
    BY <1>1, <1>2, <1>7 DEF Threading, Placed
  <2>3. \A i \in Ids : processed[i] \in {0, 1} /\ (i > calls + 1 => processed[i] = 0)
    BY <1>1 DEF Threading, Placed
  <2>4. \A i \in async : processed[i] = 1 \/ In(i, async_queue_) \/ Carries(Worker, i)'
    BY <1>1, <1>2, <1>7 DEF Threading, Placed
  <2>5. QED  BY <1>1, <1>2, <2>1, <2>2, <2>3, <2>4 DEF Threading, Placed
<1>9. Older'
  BY <1>1, <1>2, <1>7 DEF Threading, Older
<1>10. QED  BY <1>5, <1>6, <1>8, <1>9 DEF Threading

\* push_async, pull_async and update_gradient_async.
LEMMA CallAsyncPlaced ==
    ASSUME Threading, NEW t \in Callers, NEW kind \in Kinds, NEW n \in Names, CallAsync(t, kind, n)
    PROVE  Threading'
<1> DEFINE o == [id |-> calls + 1, kind |-> kind, name |-> n]
<1>1. /\ calls + 1 \in Ids /\ calls' = calls + 1 /\ calls' \in 0 .. MaxCalls /\ calls \in Nat
      /\ o \in Ops /\ o.id = calls + 1 /\ processed[calls + 1] = 0 /\ calls + 1 \notin async
      /\ \A u \in Threads : ~Carries(u, calls + 1)
      /\ \A i \in Ids : In(i, async_queue_) => i < calls + 1
      /\ \A i \in Ids : i \in Int /\ (i <= calls => i <= calls + 1) /\ (i > calls + 1 => i > calls)
      /\ async \subseteq Ids
  BY NewOperation DEF CallAsync
<1>2. /\ async_queue_' = Append(async_queue_, o) /\ async' = async \cup {calls + 1}
      /\ UNCHANGED <<processed, async_running_>> /\ async_queue_ \in Seq(Ops) /\ Ascending(async_queue_)
  BY DEF CallAsync, Threading, Types, Placed, data
<1>3. /\ async_queue_' \in Seq(Ops) /\ Ascending(async_queue_')
      /\ \A i : In(i, async_queue_') <=> In(i, async_queue_) \/ i = calls + 1
  BY <1>1, <1>2, AppendIn
<1> HIDE DEF o
<1>4. /\ th' \in [Threads -> ThreadType]
      /\ \A u \in Threads :
           /\ th'[u].op = th[u].op
           /\ th'[u].pc = IF u = Worker /\ th[u].pc = "sleep" THEN "lock" ELSE th[u].pc
  BY ZenonT(30) DEF CallAsync, Threading, Types, ThreadType, Places, Threads
<1>5. Types'
  <2>1. async' \subseteq 1 .. calls'
    BY <1>1, <1>2 DEF Threading, Types
  <2>2. QED  BY <1>1, <1>2, <1>3, <1>4, <2>1 DEF Threading, Types
<1>6. BusyExactly'
  BY <1>4 DEF Threading, BusyExactly, Busy
<1>7. \A u \in Threads : \A i : Carries(u, i)' <=> Carries(u, i)
  BY <1>4 DEF Carries
<1>8. Placed'
  <2>1. \A i \in Ids : In(i, async_queue_') =>
         /\ i \in async' /\ processed[i] = 0
         /\ \A u \in Threads : ~Carries(u, i)'
    BY <1>1, <1>2, <1>3, <1>7 DEF Threading, Placed
  <2>2. \A u \in Threads, i \in Ids : Carries(u, i)' =>
         /\ i <= calls + 1 /\ processed[i] = 0 /\ (i \in async' <=> u = Worker)
         /\ \A v \in Threads \ {u} : ~Carries(v, i)'
    BY <1>1, <1>2, <1>7 DEF Threading, Placed
  <2>3. \A i \in Ids : processed[i] \in {0, 1} /\ (i > calls + 1 => processed[i] = 0)
    BY <1>1 DEF Threading, Placed
  <2>4. \A i \in async' : processed[i] = 1 \/ In(i, async_queue_') \/ Carries(Worker, i)'
    BY <1>2, <1>3, <1>7 DEF Threading, Placed, Threads
  <2>5. QED  BY <1>1, <1>2, <1>3, <2>1, <2>2, <2>3, <2>4 DEF Threading, Placed
<1>9. Older'
  <2>1. \A i \in async : i \in Int /\ i < calls + 1
    BY <1>1 DEF Threading, Types
  <2>2. \A i, j \in async' : In(j, async_queue_') /\ ~In(i, async_queue_') => i < j
    BY <1>2, <1>3, <2>1 DEF Threading, Older
  <2>3. \A i, j \in async' : Carries(Worker, j)' /\ processed[i] = 1 => i < j
    <3>1. SUFFICES ASSUME NEW i \in async', NEW j \in async', Carries(Worker, j)', processed[i] = 1
                   PROVE  i < j
      OBVIOUS
    <3>2. Carries(Worker, j)
      BY <1>7, <3>1 DEF Threads
    <3>3. j # calls + 1 /\ i # calls + 1
      BY <1>1, <3>1, <3>2 DEF Threads
    <3>4. QED  BY <1>2, <3>1, <3>2, <3>3 DEF Threading, Older
  <2>4. QED  BY <1>2, <2>2, <2>3 DEF Older
<1>10. QED  BY <1>5, <1>6, <1>8, <1>9 DEF Threading

\* The worker takes the oldest operation.
LEMMA WorkerTakePlaced ==
    ASSUME Threading, WorkerTake
    PROVE  Threading'
<1> DEFINE q == async_queue_  o == Head(q)
<1>1. /\ q \in Seq(Ops) /\ Ascending(q) /\ q # << >> /\ Worker \in Threads
      /\ th[Worker].pc = "lock" /\ async \subseteq Ids
      /\ async_queue_' = Tail(q) /\ UNCHANGED <<processed, async, async_running_, calls>>
  BY ConstantsAssumption DEF WorkerTake, WorkerTakes, At, data, Threads, Threading, Types, Placed, Ids
<1>2. /\ o \in Ops /\ Tail(q) \in Seq(Ops) /\ Ascending(Tail(q))
      /\ \A i : In(i, q) <=> i = o.id \/ In(i, Tail(q))
      /\ \A i : In(i, Tail(q)) => o.id < i
      /\ ~In(o.id, Tail(q))
  BY <1>1, TailIn
<1>3. o # None /\ o.id \in Ids /\ o.id \in Int
  BY <1>2, ConstantsAssumption DEF Ops, Ids
<1>4. th' = [th EXCEPT ![Worker] = [pc |-> "work", op |-> o]]
  BY DEF WorkerTake, WorkerTakes
<1> HIDE DEF o
<1>5. /\ th' \in [Threads -> ThreadType] /\ th'[Worker].op = o /\ th'[Worker].pc = "work"
      /\ \A u \in Threads \ {Worker} : th'[u] = th[u]
  BY <1>1, <1>2, <1>4 DEF Threading, Types, ThreadType, Places, Busy
<1>6. Types'
  BY <1>1, <1>2, <1>5 DEF Threading, Types
<1>7. BusyExactly'
  BY <1>3, <1>5 DEF Threading, BusyExactly, Busy
<1>8. /\ \A u \in Threads, i \in Ids : Carries(u, i)' <=> IF u = Worker THEN i = o.id ELSE Carries(u, i)
      /\ \A i \in Ids : ~Carries(Worker, i)
  BY <1>1, <1>3, <1>5 DEF Carries, Threading, BusyExactly, Busy
<1>9. /\ In(o.id, async_queue_) /\ \A i \in Ids : In(i, async_queue_') <=> In(i, async_queue_) /\ i # o.id
  BY <1>1, <1>2
<1>10. /\ o.id \in async /\ processed[o.id] = 0 /\ o.id <= calls /\ \A u \in Threads : ~Carries(u, o.id)
  <2>1. o.id \in async /\ processed[o.id] = 0 /\ \A u \in Threads : ~Carries(u, o.id)
    BY <1>3, <1>9 DEF Threading, Placed
  <2>2. \A i \in async : i <= calls
    BY DEF Threading, Types
  <2>3. QED  BY <2>1, <2>2
<1> HIDE DEF q
<1>11. Placed'
  <2>1. \A i \in Ids : In(i, async_queue_') =>
         /\ i \in async /\ processed[i] = 0
         /\ \A u \in Threads : ~Carries(u, i)'
    BY <1>8, <1>9 DEF Threading, Placed
  <2>2. \A u \in Threads, i \in Ids : Carries(u, i)' =>
         /\ i <= calls /\ processed[i] = 0 /\ (i \in async <=> u = Worker)
         /\ \A v \in Threads \ {u} : ~Carries(v, i)'
    BY <1>8, <1>10 DEF Threading, Placed
  <2>3. \A i \in async : processed[i] = 1 \/ In(i, async_queue_') \/ Carries(Worker, i)'
    BY <1>1, <1>8, <1>9 DEF Threading, Placed
  <2>4. QED  BY <1>1, <1>2, <2>1, <2>2, <2>3 DEF Threading, Placed
<1>12. Older'
  <2>1. \A i, j \in async : In(j, async_queue_') /\ ~In(i, async_queue_') => i < j
    <3>1. SUFFICES ASSUME NEW i \in async, NEW j \in async, In(j, async_queue_'), ~In(i, async_queue_')
                   PROVE  i < j
      OBVIOUS
    <3>2. CASE i = o.id
      BY <1>1, <1>2, <3>1, <3>2
    <3>3. CASE i # o.id
      BY <1>1, <1>9, <3>1, <3>3 DEF Threading, Older
    <3>4. QED  BY <3>2, <3>3
  <2>2. \A i, j \in async : Carries(Worker, j)' /\ processed[i] = 1 => i < j
    <3>1. SUFFICES ASSUME NEW i \in async, processed[i] = 1 PROVE i < o.id
      BY <1>1, <1>8
    <3>2. i \in Ids /\ ~In(i, async_queue_)
      BY <1>1, <3>1 DEF Threading, Placed
    <3>3. QED  BY <1>9, <1>10, <3>1, <3>2 DEF Threading, Older
  <2>3. QED  BY <1>1, <2>1, <2>2 DEF Older
<1>13. QED  BY <1>6, <1>7, <1>11, <1>12 DEF Threading

-----------------------------------------------------------------------------
(* The mutexes and the parameters.                                         *)

Nested == {"grad_stale", "drain_stale", "grad_apply", "drain_apply"}

\* A thread between its two mutexes, or with both, is alone.
LEMMA Exclusion ==
    ASSUME Mutexes
    PROVE  /\ global_mtx_ = None => \A t \in Threads : th[t].pc \notin Nested
           /\ \A t \in Threads : th[t].pc \in Nested =>
                 global_mtx_ = t /\ \A u \in Threads \ {t} : th[u].pc \notin Nested
BY ConstantsAssumption DEF Mutexes, Nested

\* Steps outside of the nested sections, that leave known parameters known
\* unless nobody has the mutex.
LEMMA MutexesQuiet ==
    ASSUME Mutexes, UNCHANGED <<global_mtx_, stale_mtx_>>,
           \A t \in Threads : th'[t].pc = th[t].pc \/ {th[t].pc, th'[t].pc} \cap Nested = {},
           \A t \in Threads : th[t].pc \in Nested => th'[t].op = th[t].op,
           global_mtx_ = None \/ params_' = params_
    PROVE  Mutexes'
<1>1. SUFFICES ASSUME NEW t \in Threads
               PROVE  /\ global_mtx_ = t <=> th'[t].pc \in Nested
                      /\ stale_mtx_ = t <=> th'[t].pc \in {"grad_apply", "drain_apply"}
                      /\ th'[t].pc \in {"grad_stale", "grad_apply"} =>
                           params_'[th'[t].op.name] # None
  BY DEF Mutexes, Nested, Op
<1>2. CASE th[t].pc \in Nested
  <2>1. global_mtx_ # None /\ th'[t].pc = th[t].pc /\ th'[t].op = th[t].op
    BY <1>2, Exclusion
  <2>2. QED  BY <2>1 DEF Mutexes, Nested, Op
<1>3. CASE th[t].pc \notin Nested
  <2>1. th'[t].pc \notin Nested
    BY <1>3
  <2>2. QED  BY <1>3, <2>1 DEF Mutexes, Nested
<1>4. QED  BY <1>2, <1>3

\* An operation without effect on parameters is processed.
LEMMA GradientsMore ==
    ASSUME Types, DataTypes, Gradients, NEW x \in Ids, processed[x] = 0,
           processed' = [processed EXCEPT ![x] = 1], UNCHANGED <<params_, stale_queue_>>
    PROVE  Gradients'
<1>1. \A i \in Ids : processed'[i] = IF i = x THEN 1 ELSE processed[i]
  BY DEF Types
<1>2. ASSUME NEW n \in Names, params_[n] # None, NEW i \in Ids
      PROVE  /\ params_[n].full[i] <= processed'[i] /\ params_[n].half[i] <= processed'[i]
             /\ In(i, stale_queue_) => params_[n].half[i] = 0
  <2>1. params_[n] \in Entries
    BY <1>2 DEF DataTypes
  <2>2. /\ params_[n].full[i] \in Nat /\ params_[n].half[i] \in Nat
        /\ params_[n].full[i] <= processed[i] /\ params_[n].half[i] <= processed[i]
    BY <1>2, <2>1 DEF Gradients, Entries
  <2>3. QED  BY <1>1, <1>2, <2>2 DEF Gradients
<1>3. QED  BY <1>1, <1>2 DEF Gradients

\* What GradApply sets aside.
LEMMA SetAside ==
    ASSUME NEW S, NEW s \in Seq(S), NEW o \in S, ~In(o.id, s),
           \A k, l \in 1 .. Len(s) : s[k].id = s[l].id => k = l
    PROVE  LET r == Append(s, o)
           IN  /\ r \in Seq(S) /\ Len(r) = Len(s) + 1
               /\ \A i : In(i, r) <=> In(i, s) \/ i = o.id
               /\ \A k, l \in 1 .. Len(r) : r[k].id = r[l].id => k = l
<1> DEFINE r == Append(s, o)  n == Len(s)
<1>1. n \in Nat /\ \A k : k \in 1 .. n + 1 <=> k \in 1 .. n \/ k = n + 1
  OBVIOUS
<1>2. r \in Seq(S) /\ Len(r) = n + 1 /\ r[n + 1] = o /\ \A k \in 1 .. n : r[k] = s[k]
  BY AppendProperties
<1> HIDE DEF r
<1>3. \A i : In(i, s) <=> \E k \in 1 .. n : s[k].id = i
  BY DEF In
<1>4. \A i : In(i, r) <=> \E k \in 1 .. n + 1 : r[k].id = i
  BY <1>2 DEF In
<1> HIDE DEF n
<1>5. \A i : In(i, r) <=> In(i, s) \/ i = o.id
  BY <1>1, <1>2, <1>3, <1>4
<1>6. \A k, l \in 1 .. n + 1 : r[k].id = r[l].id => k = l
  <2>1. \A k \in 1 .. n : r[k].id # o.id
    BY <1>2, <1>3
  <2>2. \A k, l \in 1 .. n : r[k].id = r[l].id => k = l
    BY <1>2 DEF n
  <2>3. QED  BY <1>1, <1>2, <2>1, <2>2
<1>7. QED  BY <1>2, <1>5, <1>6 DEF r, n

\* What DrainApply adds.
LEMMA FreshBound ==
    ASSUME DataTypes, Gradients, NEW n \in Names, NEW i \in Ids
    PROVE  Fresh(n, i) \in Nat /\ Fresh(n, i) <= 1 /\ (~In(i, stale_queue_) => Fresh(n, i) = 0)
<1> DEFINE s == stale_queue_
           T == {k \in 1 .. Len(s) : s[k].id = i}
           F == {k \in 1 .. Len(s) : /\ s[k].name = n /\ s[k].id = i
                                      /\ ~(s[k].version < params_[n].version - MaxLag)}
<1>1. s \in Seq(StaleEntries) /\ Len(s) \in Nat
  BY DEF DataTypes
<1>2. IsFiniteSet(T)
  <2>1. IsFiniteSet(1 .. Len(s))
    BY <1>1, FS_Interval
  <2>2. QED  BY <2>1, FS_Subset
<1>3. F \subseteq T
  OBVIOUS
<1>4. Fresh(n, i) = Cardinality(F) /\ Times(i, s) = Cardinality(T)
  BY DEF Fresh, Times
<1>5. Times(i, s) \in Nat /\ Times(i, s) <= 1 /\ (Times(i, s) > 0 <=> In(i, s))
  BY <1>1, TimesIn DEF Gradients
<1> HIDE DEF T, F, s
<1>6. IsFiniteSet(F) /\ Cardinality(F) <= Cardinality(T)
  BY <1>2, <1>3, FS_Subset
<1>7. Cardinality(F) \in Nat
  BY <1>6, FS_CardinalityType
<1>8. QED  BY <1>4, <1>5, <1>6, <1>7 DEF s

-----------------------------------------------------------------------------
(* The steps.                                                              *)

LEMMA InitInv == Init => Inv
<1>1. SUFFICES ASSUME Init PROVE Inv
  OBVIOUS
<1>2. \A t \in Threads :
        th[t].pc \in {"top", "idle"} /\ th[t].op = None
  BY <1>1 DEF Init
<1>3. Types
  BY <1>1, ConstantsAssumption DEF Init, Types, ThreadType, Places, Zero
<1>4. DataTypes
  BY <1>1, ConstantsAssumption DEF Init, DataTypes
<1>5. BusyExactly /\ Mutexes
  BY <1>1, <1>2, ConstantsAssumption DEF Init, BusyExactly, Mutexes, Busy
<1>6. Placed
  BY <1>1, <1>2, EmptyIn DEF Init, Placed, Zero, Carries
<1>7. Older
  BY <1>1 DEF Init, Older
<1>8. Gradients
  BY <1>1, EmptyIn DEF Init, Gradients
<1>9. QED  BY <1>3, <1>4, <1>5, <1>6, <1>7, <1>8 DEF Inv

\* The data and what is processed stay as they are.
LEMMA DataQuiet == ASSUME DataTypes, Gradients, UNCHANGED data PROVE DataTypes' /\ Gradients'
BY DEF data, DataTypes, Gradients

LEMMA CallInv == ASSUME Inv, NEW t \in Callers, Call(t) PROVE Inv'
<1>1. /\ Threading /\ DataTypes /\ Mutexes /\ Gradients /\ t \in Threads /\ t # Worker /\ Worker \in Threads
      /\ th \in [Threads -> ThreadType] /\ calls \in 0 .. MaxCalls /\ calls \in Nat
  BY ConstantsAssumption DEF Threads, Inv, Types, Threading
<1>2. ASSUME NEW kind \in Kinds, NEW n \in Names, CallSync(t, kind, n) PROVE Inv'
  <2>1. Threading'
    BY <1>1, <1>2, CallSyncPlaced
  <2>2. /\ th[t].pc = "idle" /\ th'[t].pc \in {"work", "idle"} /\ \A u \in Threads \ {t} : th'[u] = th[u]
        /\ UNCHANGED data /\ UNCHANGED <<global_mtx_, stale_mtx_>> /\ params_' = params_
    BY <1>1, <1>2 DEF CallSync, At, data
  <2>3. Mutexes'
    BY <1>1, <2>2, MutexesQuiet DEF Nested
  <2>4. QED  BY <1>1, <2>1, <2>2, <2>3, DataQuiet DEF Inv, Threading
<1>3. ASSUME NEW kind \in Kinds, NEW n \in Names, CallAsync(t, kind, n) PROVE Inv'
  <2>1. Threading'
    BY <1>1, <1>3, CallAsyncPlaced
  <2>2. /\ \A u \in Threads : /\ th'[u].op = th[u].op
                              /\ th'[u].pc = th[u].pc \/ (th[u].pc = "sleep" /\ th'[u].pc = "lock")
        /\ UNCHANGED data /\ UNCHANGED <<global_mtx_, stale_mtx_>> /\ params_' = params_
    BY <1>1, <1>3 DEF CallAsync, ThreadType, data
  <2>3. Mutexes'
    BY <1>1, <2>2, MutexesQuiet DEF Nested
  <2>4. QED  BY <1>1, <2>1, <2>2, <2>3, DataQuiet DEF Inv, Threading
<1>4. CASE Shutdown(t)
  <2>1. /\ async_running_' \in BOOLEAN /\ UNCHANGED <<async_queue_, async, calls, global_mtx_, stale_mtx_>>
        /\ UNCHANGED data /\ processed' = processed /\ params_' = params_
    BY <1>4 DEF Shutdown, data
  <2>2. /\ th' \in [Threads -> ThreadType]
        /\ \A u \in Threads :
             /\ th'[u].op = th[u].op
             /\ \/ th'[u].pc = th[u].pc
                \/ th[u].pc \in {"idle", "sleep"} /\ th'[u].pc \in {"join", "lock"}
    BY <1>1, <1>4, ZenonT(30) DEF Shutdown, At, ThreadType, Places
  <2>3. Threading'
    BY <1>1, <2>1, <2>2, Unmoved DEF Busy, Draining
  <2>4. Mutexes'
    BY <1>1, <2>1, <2>2, MutexesQuiet DEF Nested
  <2>5. QED  BY <1>1, <2>1, <2>3, <2>4, DataQuiet DEF Inv, Threading
<1>5. QED  BY <1>2, <1>3, <1>4 DEF Call

\* A step that only moves one thread, outside of the nested sections.
LEMMA GotoInv ==
    ASSUME Inv, NEW t \in Threads, NEW pc, Goto(t, pc),
           th[t].pc \notin Busy \cup Draining, pc \in Places \ (Busy \cup Draining),
           UNCHANGED <<data, queues, global_mtx_, stale_mtx_>>
    PROVE  Inv'
<1>1. /\ Threading /\ DataTypes /\ Mutexes /\ Gradients /\ th \in [Threads -> ThreadType]
      /\ calls \in 0 .. MaxCalls /\ calls \in Nat /\ async_running_ \in BOOLEAN
  BY ConstantsAssumption DEF Inv, Threading, Types
<1>2. /\ th' \in [Threads -> ThreadType]
      /\ \A u \in Threads :
           /\ th'[u].op = th[u].op
           /\ th'[u].pc = IF u = t THEN pc ELSE th[u].pc
  BY <1>1 DEF Goto, ThreadType
<1>3. /\ UNCHANGED <<async_queue_, async, processed, async_running_, calls, params_, global_mtx_, stale_mtx_>>
      /\ UNCHANGED data
  BY DEF data, queues
<1>4. Threading'
  BY <1>1, <1>2, <1>3, Unmoved
<1>5. Mutexes'
  BY <1>1, <1>2, <1>3, MutexesQuiet DEF Nested, Busy, Draining
<1>6. QED  BY <1>1, <1>3, <1>4, <1>5, DataQuiet DEF Inv, Threading

\* A mutex of a nested section is taken.
LEMMA EnterInv ==
    ASSUME Inv, NEW t \in Threads, NEW pc \in Nested, Goto(t, pc),
           pc \in Busy <=> th[t].pc \in Busy, pc \in Draining <=> th[t].pc \in Draining,
           UNCHANGED <<data, queues>>, Mutexes'
    PROVE  Inv'
<1>1. /\ Threading /\ DataTypes /\ Gradients /\ th \in [Threads -> ThreadType]
      /\ calls \in 0 .. MaxCalls /\ calls \in Nat /\ async_running_ \in BOOLEAN
  BY ConstantsAssumption DEF Inv, Threading, Types
<1>2. /\ th' \in [Threads -> ThreadType]
      /\ \A u \in Threads :
           /\ th'[u].op = th[u].op
           /\ th'[u].pc = IF u = t THEN pc ELSE th[u].pc
  BY <1>1 DEF Goto, ThreadType, Places, Busy, Draining, Nested
<1>3. /\ UNCHANGED <<async_queue_, async, processed, async_running_, calls>> /\ UNCHANGED data
  BY DEF data, queues
<1>4. Threading'
  BY <1>1, <1>2, <1>3, Unmoved
<1>5. QED  BY <1>1, <1>3, <1>4, DataQuiet DEF Inv, Threading

LEMMA ProcessPushInv == ASSUME Inv, NEW t \in Threads, ProcessPush(t) PROVE Inv'
<1>1. /\ Threading /\ DataTypes /\ Mutexes /\ Gradients /\ th \in [Threads -> ThreadType]
      /\ processed \in [Ids -> Nat]
  BY DEF Inv, Threading, Types
<1>2. /\ th[t].pc = "work" /\ th[t].pc \in Busy /\ global_mtx_ = None /\ Finish(t) /\ UNCHANGED queues
      /\ UNCHANGED <<global_mtx_, stale_mtx_, stale_queue_>>
  BY DEF ProcessPush, At, Busy
<1>3. /\ Threading' /\ processed[Op(t).id] = 0 /\ Op(t) \in Ops
      /\ th'[t].pc \in {"idle", "drain"} /\ \A u \in Threads \ {t} : th'[u] = th[u]
      /\ processed' = [processed EXCEPT ![Op(t).id] = 1]
  BY <1>1, <1>2, Finished
<1>4. Mutexes'
  BY <1>1, <1>2, <1>3, MutexesQuiet DEF Nested
<1> DEFINE n == Op(t).name
           e == [version |-> IF params_[n] = None THEN 1 ELSE params_[n].version + 1,
                 base |-> Op(t).id, full |-> Zero, half |-> Zero]
<1>5. n \in Names /\ Op(t).id \in Ids /\ params_' = [params_ EXCEPT ![n] = e]
  BY <1>3 DEF ProcessPush, Ops
<1>6. e \in Entries /\ e.full = Zero /\ e.half = Zero
  <2>1. params_[n] = None \/ params_[n].version \in Nat
    BY <1>1, <1>5 DEF DataTypes, Entries
  <2>2. QED  BY <1>5, <2>1 DEF Entries, Zero
<1> HIDE DEF e, n
<1>7. DataTypes'
  BY <1>1, <1>2, <1>5, <1>6 DEF DataTypes
<1>8. Gradients'
  <2>1. \A i \in Ids : /\ processed[i] \in Nat
                       /\ processed'[i] = IF i = Op(t).id THEN 1 ELSE processed[i]
    BY <1>1, <1>3
  <2>2. ASSUME NEW m \in Names, params_'[m] # None, NEW i \in Ids
        PROVE  /\ params_'[m].full[i] <= processed'[i] /\ params_'[m].half[i] <= processed'[i]
               /\ In(i, stale_queue_) => params_'[m].half[i] = 0
    <3>1. CASE m = n
      <4>1. params_'[m] = e
        BY <1>1, <1>5, <3>1 DEF DataTypes
      <4>2. QED  BY <1>6, <2>1, <4>1 DEF Zero
    <3>2. CASE m # n
      <4>1. params_'[m] = params_[m] /\ params_[m] \in Entries
        BY <1>1, <1>5, <2>2, <3>2 DEF DataTypes
      <4>2. params_[m].full[i] \in Nat /\ params_[m].half[i] \in Nat
        BY <4>1 DEF Entries
      <4>3. /\ params_[m].full[i] <= processed[i] /\ params_[m].half[i] <= processed[i]
            /\ In(i, stale_queue_) => params_[m].half[i] = 0
        BY <1>1, <2>2, <4>1 DEF Gradients
      <4>4. processed[i] <= processed'[i]
        BY <1>3, <2>1
      <4>5. QED  BY <2>1, <4>1, <4>2, <4>3, <4>4
    <3>3. QED  BY <3>1, <3>2
  <2>3. QED  BY <1>1, <1>2, <2>1, <2>2 DEF Gradients
<1>9. QED  BY <1>3, <1>4, <1>7, <1>8 DEF Inv, Threading

\* A pull, and a gradient of an unknown parameter.
LEMMA ProcessNothingInv ==
    ASSUME Inv, NEW t \in Threads, (t = Worker /\ ProcessPull) \/ GradUnknown(t) PROVE Inv'
<1>1. Threading /\ DataTypes /\ Mutexes /\ Gradients /\ Types /\ th \in [Threads -> ThreadType]
  BY DEF Inv, Threading, Types
<1>2. /\ th[t].pc = "work" /\ th[t].pc \in Busy /\ Finish(t) /\ UNCHANGED queues
      /\ UNCHANGED <<global_mtx_, stale_mtx_, stale_queue_, params_>>
  BY DEF ProcessPull, GradUnknown, At, Busy
<1>3. /\ Threading' /\ processed[Op(t).id] = 0 /\ Op(t) \in Ops
      /\ th'[t].pc \in {"idle", "drain"} /\ \A u \in Threads \ {t} : th'[u] = th[u]
      /\ processed' = [processed EXCEPT ![Op(t).id] = 1]
  BY <1>1, <1>2, Finished
<1>4. Mutexes'
  BY <1>1, <1>2, <1>3, MutexesQuiet DEF Nested
<1>5. DataTypes'
  BY <1>1, <1>2 DEF DataTypes
<1>6. Op(t).id \in Ids
  BY <1>3 DEF Ops
<1>7. Gradients'
  BY <1>1, <1>2, <1>3, <1>6, GradientsMore
<1>8. QED  BY <1>3, <1>4, <1>5, <1>7 DEF Inv, Threading

\* global_mtx_ and then stale_mtx_.
LEMMA LockInv ==
    ASSUME Inv, NEW t \in Threads, GradGlobal(t) \/ GradStale(t) \/ (t = Worker /\ DrainLock) PROVE Inv'
<1>1. Mutexes /\ th \in [Threads -> ThreadType] /\ None \notin Threads
  BY ConstantsAssumption DEF Inv, Types
<1>2. PICK pc \in Nested :
        /\ Goto(t, pc) /\ UNCHANGED <<data, queues>>
        /\ \/ /\ th[t].pc = "work" /\ pc = "grad_stale" /\ global_mtx_ = None /\ params_[Op(t).name] # None
              /\ global_mtx_' = t /\ stale_mtx_' = stale_mtx_
           \/ /\ th[t].pc = "drain" /\ pc = "drain_stale" /\ global_mtx_ = None
              /\ global_mtx_' = t /\ stale_mtx_' = stale_mtx_
           \/ /\ \/ th[t].pc = "grad_stale" /\ pc = "grad_apply"
                 \/ th[t].pc = "drain_stale" /\ pc = "drain_apply"
              /\ stale_mtx_ = None /\ stale_mtx_' = t /\ global_mtx_' = global_mtx_
  BY DEF GradGlobal, GradStale, DrainLock, At, Nested
<1>3. /\ params_' = params_
      /\ \A u \in Threads : /\ th'[u].op = th[u].op
                             /\ th'[u].pc = IF u = t THEN pc ELSE th[u].pc
  BY <1>1, <1>2 DEF Goto, ThreadType, data
<1>4. Mutexes'
  <2>1. SUFFICES ASSUME NEW u \in Threads
                 PROVE  /\ global_mtx_' = u <=> th'[u].pc \in Nested
                        /\ stale_mtx_' = u <=> th'[u].pc \in {"grad_apply", "drain_apply"}
                        /\ th'[u].pc \in {"grad_stale", "grad_apply"} =>
                             params_[th[u].op.name] # None
    BY <1>3 DEF Mutexes, Nested, Op
  <2>2. CASE u = t
    BY <1>1, <1>2, <1>3, <2>2 DEF Mutexes, Nested, Op
  <2>3. CASE u # t
    BY <1>1, <1>2, <1>3, <2>3 DEF Mutexes, Nested, Op
  <2>4. QED  BY <2>2, <2>3
<1>5. (pc \in Busy <=> th[t].pc \in Busy) /\ (pc \in Draining <=> th[t].pc \in Draining)
  BY <1>2 DEF Busy, Draining
<1>6. QED  BY <1>2, <1>4, <1>5, EnterInv

LEMMA GradApplyInv == ASSUME Inv, NEW t \in Threads, GradApply(t) PROVE Inv'
<1> DEFINE o == Op(t)  n == o.name  x == o.id  e == params_[n]
           a == [id |-> x, name |-> n, version |-> e.version]
<1>1. /\ Threading /\ DataTypes /\ Mutexes /\ Gradients /\ th \in [Threads -> ThreadType]
      /\ processed \in [Ids -> Nat] /\ None \notin Threads
  BY ConstantsAssumption DEF Inv, Threading, Types
<1>2. /\ th[t].pc = "grad_apply" /\ th[t].pc \in Busy /\ Finish(t) /\ UNCHANGED queues
      /\ global_mtx_' = None /\ stale_mtx_' = None
      /\ e # None /\ \A u \in Threads \ {t} : th[u].pc \notin Nested
  BY <1>1, Exclusion DEF GradApply, At, Busy, Mutexes, Nested
<1>3. /\ Threading' /\ processed[x] = 0 /\ o \in Ops
      /\ th'[t].pc \in {"idle", "drain"} /\ \A u \in Threads \ {t} : th'[u] = th[u]
      /\ processed' = [processed EXCEPT ![x] = 1]
  BY <1>1, <1>2, Finished
<1>4. Mutexes'
  <2>1. \A u \in Threads : th'[u].pc \notin Nested
    BY <1>1, <1>2, <1>3 DEF Nested
  <2>2. QED  BY <1>1, <1>2, <2>1 DEF Mutexes, Nested
<1>5. n \in Names /\ x \in Ids
  BY <1>3 DEF Ops
<1>6. /\ e \in Entries /\ e.version \in Nat /\ e.full \in [Ids -> Nat] /\ e.half \in [Ids -> Nat]
      /\ a \in StaleEntries /\ a.id = x
  <2>1. e \in Entries
    BY <1>1, <1>2, <1>5 DEF DataTypes
  <2>2. QED  BY <1>5, <2>1 DEF Entries, StaleEntries
<1>7. /\ stale_queue_' = IF e.version > 0 /\ Len(stale_queue_) < MaxStale THEN Append(stale_queue_, a)
                                                                         ELSE stale_queue_
      /\ params_' = [params_ EXCEPT ![n].full[x] = @ + 1, ![n].version = @ + 1]
  BY DEF GradApply
<1>8. /\ stale_queue_' \in Seq(StaleEntries) /\ Len(stale_queue_') <= MaxStale
      /\ \A i : In(i, stale_queue_') => In(i, stale_queue_) \/ i = x
      /\ \A k, l \in 1 .. Len(stale_queue_') : stale_queue_'[k].id = stale_queue_'[l].id => k = l
  <2> DEFINE r == Append(stale_queue_, a)
  <2> HIDE DEF a
  <2>1. stale_queue_ \in Seq(StaleEntries) /\ Len(stale_queue_) \in Nat /\ Len(stale_queue_) <= MaxStale
    BY <1>1 DEF DataTypes
  <2>2. ~In(a.id, stale_queue_)
    BY <1>1, <1>3, <1>5, <1>6 DEF Gradients
  <2>3. /\ r \in Seq(StaleEntries) /\ Len(r) = Len(stale_queue_) + 1
        /\ \A i : In(i, r) <=> In(i, stale_queue_) \/ i = a.id
        /\ \A k, l \in 1 .. Len(r) : r[k].id = r[l].id => k = l
    BY <1>1, <1>6, <2>1, <2>2, SetAside DEF Gradients
  <2> HIDE DEF r
  <2>4. CASE stale_queue_' = r /\ Len(stale_queue_) < MaxStale
    BY <1>6, <2>1, <2>3, <2>4, ConstantsAssumption
  <2>5. CASE stale_queue_' = stale_queue_
    BY <1>1, <2>1, <2>5 DEF Gradients
  <2>6. QED  BY <1>7, <2>4, <2>5 DEF r
<1> HIDE DEF a, e, n, x, o
<1>9. params_' \in [Names -> {None} \cup Entries] /\ \A m \in Names \ {n} : params_'[m] = params_[m]
  BY <1>1, <1>5, <1>6, <1>7, SMTT(20) DEF DataTypes, Entries, e
<1>10. params_'[n].half = e.half /\ params_'[n].full = [e.full EXCEPT ![x] = @ + 1]
  BY <1>1, <1>5, <1>6, <1>7 DEF DataTypes, Entries, e
<1>11. DataTypes'
  BY <1>8, <1>9 DEF DataTypes
<1>12. Gradients'
  <2>1. \A i \in Ids : /\ processed[i] \in Nat
                       /\ processed'[i] = IF i = x THEN 1 ELSE processed[i]
    BY <1>1, <1>3
  <2>2. ASSUME NEW i \in Ids, processed'[i] = 0 PROVE ~In(i, stale_queue_')
    BY <1>1, <1>8, <2>1, <2>2 DEF Gradients
  <2>3. ASSUME NEW m \in Names, params_'[m] # None, NEW i \in Ids
        PROVE  /\ params_'[m].full[i] <= processed'[i] /\ params_'[m].half[i] <= processed'[i]
               /\ In(i, stale_queue_') => params_'[m].half[i] = 0
    <3>1. /\ params_[m] # None /\ params_[m] \in Entries
          /\ params_'[m].half = params_[m].half
          /\ params_'[m].full = IF m = n THEN [e.full EXCEPT ![x] = @ + 1] ELSE params_[m].full
          /\ (m = n => params_[m] = e)
      BY <1>1, <1>2, <1>5, <1>6, <1>9, <1>10, <2>3 DEF DataTypes, e
    <3>2. /\ params_[m].full \in [Ids -> Nat] /\ params_[m].half \in [Ids -> Nat]
      BY <3>1 DEF Entries
    <3>3. /\ params_[m].full[i] <= processed[i] /\ params_[m].half[i] <= processed[i]
          /\ In(i, stale_queue_) => params_[m].half[i] = 0
      BY <1>1, <3>1 DEF Gradients
    <3>4. params_'[m].full[i] = params_[m].full[i] + (IF m = n /\ i = x THEN 1 ELSE 0)
      BY <1>5, <3>1, <3>2
    <3>5. params_[m].full[i] \in Nat /\ params_[m].half[i] \in Nat
      BY <3>2
    <3>6. CASE i = x
      <4>1. params_[m].full[i] = 0 /\ params_[m].half[i] = 0 /\ processed'[i] = 1
        BY <1>3, <2>1, <3>3, <3>5, <3>6
      <4>2. QED  BY <3>1, <3>4, <4>1
    <3>7. CASE i # x
      BY <1>8, <2>1, <3>1, <3>3, <3>4, <3>5, <3>7
    <3>8. QED  BY <3>6, <3>7
  <2>4. QED  BY <1>8, <2>2, <2>3 DEF Gradients
<1>13. QED  BY <1>3, <1>4, <1>11, <1>12 DEF Inv, Threading

LEMMA DrainApplyInv == ASSUME Inv, DrainApply PROVE Inv'
<1>1. /\ Threading /\ DataTypes /\ Mutexes /\ Gradients /\ th \in [Threads -> ThreadType]
      /\ processed \in [Ids -> Nat] /\ None \notin Threads /\ Worker \in Threads
      /\ calls \in 0 .. MaxCalls /\ calls \in Nat /\ async_running_ \in BOOLEAN
      /\ \A i \in Ids : processed[i] \in {0, 1}
  BY ConstantsAssumption DEF Inv, Threading, Types, Placed, Threads
<1>2. /\ th[Worker].pc = "drain_apply" /\ global_mtx_' = None /\ stale_mtx_' = None /\ stale_queue_' = << >>
      /\ UNCHANGED <<processed, async_queue_, async_running_, calls, async>>
      /\ Goto(Worker, "top")
      /\ \A u \in Threads \ {Worker} : th[u].pc \notin Nested
  BY <1>1, Exclusion DEF DrainApply, DrainTo, At, queues, Nested
<1>3. /\ th' \in [Threads -> ThreadType]
      /\ \A u \in Threads :
           /\ th'[u].op = th[u].op
           /\ IF u = Worker THEN th'[u].pc = "top" ELSE th'[u].pc = th[u].pc
  BY <1>1, <1>2 DEF Goto, ThreadType, Places
<1>4. Threading'
  BY <1>1, <1>2, <1>3, Unmoved DEF Busy, Draining
<1>5. Mutexes'
  <2>1. \A u \in Threads : th'[u].pc \notin Nested
    BY <1>2, <1>3 DEF Nested
  <2>2. QED  BY <1>1, <1>2, <2>1 DEF Mutexes, Nested
<1>6. ASSUME NEW n \in Names
      PROVE  /\ params_'[n] \in {None} \cup Entries
             /\ params_'[n] # None => /\ params_[n] # None /\ params_'[n].full = params_[n].full
                                      /\ params_'[n].half = [i \in Ids |-> params_[n].half[i] + Fresh(n, i)]
  <2>1. params_'[n] = IF params_[n] = None THEN None
                      ELSE [params_[n] EXCEPT !.half = [i \in Ids |-> @[i] + Fresh(n, i)]]
    BY DEF DrainApply, DrainTo
  <2>2. CASE params_[n] = None
    BY <2>1, <2>2
  <2>3. CASE params_[n] # None
    <3>1. params_[n] \in Entries
      BY <1>1, <2>3 DEF DataTypes
    <3>2. params_[n].half \in [Ids -> Nat]
      BY <3>1 DEF Entries
    <3>3. [i \in Ids |-> params_[n].half[i] + Fresh(n, i)] \in [Ids -> Nat]
      BY <1>1, <3>2, FreshBound
    <3>4. QED  BY <2>1, <2>3, <3>1, <3>3 DEF Entries
  <2>4. QED  BY <2>2, <2>3
<1>7. DataTypes'
  <2>1. params_' = [n \in Names |-> params_'[n]]
    BY DEF DrainApply, DrainTo
  <2>2. << >> \in Seq(StaleEntries) /\ Len(<< >>) <= MaxStale
    BY ConstantsAssumption
  <2>3. QED  BY <1>2, <1>6, <2>1, <2>2 DEF DataTypes
<1>8. Gradients'
  <2>1. ASSUME NEW n \in Names, params_'[n] # None, NEW i \in Ids
        PROVE  params_'[n].full[i] <= processed[i] /\ params_'[n].half[i] <= processed[i]
    <3>1. /\ params_[n] # None /\ params_[n] \in Entries /\ params_'[n].full[i] = params_[n].full[i]
          /\ params_'[n].half[i] = params_[n].half[i] + Fresh(n, i)
      BY <1>1, <1>6, <2>1 DEF DataTypes
    <3>2. params_[n].half[i] \in Nat
      BY <3>1 DEF Entries
    <3>3. /\ params_[n].full[i] <= processed[i] /\ params_[n].half[i] <= processed[i]
          /\ In(i, stale_queue_) => params_[n].half[i] = 0 /\ processed[i] = 1
      BY <1>1, <3>1 DEF Gradients
    <3>4. Fresh(n, i) \in Nat /\ Fresh(n, i) <= 1 /\ (~In(i, stale_queue_) => Fresh(n, i) = 0)
      BY <1>1, FreshBound
    <3>5. CASE In(i, stale_queue_)
      BY <3>1, <3>3, <3>4, <3>5
    <3>6. CASE ~In(i, stale_queue_)
      BY <3>1, <3>2, <3>3, <3>4, <3>6
    <3>7. QED  BY <3>5, <3>6
  <2>2. QED  BY <1>2, <2>1, EmptyIn DEF Gradients
<1>9. QED  BY <1>4, <1>5, <1>7, <1>8 DEF Inv, Threading

LEMMA ProcessInv == ASSUME Inv, NEW t \in Threads, Process(t) PROVE Inv'
BY ProcessPushInv, ProcessNothingInv, LockInv, GradApplyInv DEF Process

LEMMA JoinInv == ASSUME Inv, NEW t \in Callers, Join(t) PROVE Inv'
BY GotoInv DEF Join, At, Threads, Busy, Draining, Places

LEMMA WorkerInv == ASSUME Inv, WorkerStep PROVE Inv'
<1>1. Worker \in Threads
  BY DEF Threads
<1>2. CASE Process(Worker)
  BY <1>1, <1>2, ProcessInv
<1>3. CASE WorkerTop
  BY <1>1, <1>3, GotoInv DEF WorkerTop, At, Busy, Draining, Places
<1>4. CASE WorkerTake
  <2>1. Threading /\ DataTypes /\ Mutexes /\ Gradients /\ th \in [Threads -> ThreadType]
    BY DEF Inv, Threading, Types
  <2>2. Threading'
    BY <1>4, <2>1, WorkerTakePlaced
  <2>3. /\ th[Worker].pc = "lock" /\ th'[Worker].pc = "work" /\ \A u \in Threads \ {Worker} : th'[u] = th[u]
        /\ UNCHANGED data /\ UNCHANGED <<global_mtx_, stale_mtx_>> /\ params_' = params_
    BY <1>1, <1>4, <2>1 DEF WorkerTake, WorkerTakes, At, data, ThreadType
  <2>4. Mutexes'
    BY <2>1, <2>3, MutexesQuiet DEF Nested
  <2>5. QED  BY <2>1, <2>2, <2>3, <2>4, DataQuiet DEF Inv, Threading
<1>5. CASE WorkerWait
  BY <1>1, <1>5, GotoInv DEF WorkerWait, At, Busy, Draining, Places
<1>6. CASE WorkerBlock
  BY <1>1, <1>6, GotoInv DEF WorkerBlock, At, Busy, Draining, Places
<1>7. CASE ProcessPull
  BY <1>1, <1>7, ProcessNothingInv
<1>8. CASE DrainLock
  BY <1>1, <1>8, LockInv
<1>9. CASE DrainApply
  BY <1>9, DrainApplyInv
<1>10. QED  BY <1>2, <1>3, <1>4, <1>5, <1>6, <1>7, <1>8, <1>9 DEF WorkerStep

LEMMA StutterInv == ASSUME Inv, UNCHANGED vars PROVE Inv'
<1>1. UNCHANGED data
  BY DEF vars, data
<1>2. DataTypes' /\ Gradients'
  BY <1>1, DataQuiet DEF Inv
<1>3. Types' /\ BusyExactly' /\ Older'
  BY DEF vars, Inv, Types, BusyExactly, Older, Carries
<1>4. Mutexes' /\ Placed'
  BY DEF vars, Inv, Mutexes, Placed, Op, Carries
<1>5. QED  BY <1>2, <1>3, <1>4 DEF Inv

LEMMA Invariance == Spec => []Inv
<1>1. Inv /\ [Next]_vars => Inv'
  BY CallInv, ProcessInv, JoinInv, WorkerInv, StutterInv DEF Next, Threads
<1>2. QED  BY <1>1, InitInv, PTL DEF Spec

-----------------------------------------------------------------------------
(* Theorems.                                                               *)

\* push_async, pull_async, update_gradient_async and the worker: an accepted
\* operation waits, is in the worker's hands, or was processed, exactly one of
\* these and once.
THEOREM OnceEach == Spec => []ExactlyOnce
<1>1. ASSUME Inv PROVE ExactlyOnce
  <2>1. SUFFICES ASSUME NEW i \in async
                 PROVE  processed[i] + Times(i, async_queue_) + InHand(Worker, i) = 1
    BY DEF ExactlyOnce
  <2>2. i \in Ids /\ Worker \in Threads
    BY <1>1, ConstantsAssumption DEF Inv, Types, Ids, Threads
  <2>3. /\ Times(i, async_queue_) \in Nat /\ Times(i, async_queue_) <= 1
        /\ (Times(i, async_queue_) > 0 <=> In(i, async_queue_))
    BY <1>1, TimesIn, AscendingDistinct DEF Inv, Types, Placed
  <2>4. InHand(Worker, i) = IF Carries(Worker, i) THEN 1 ELSE 0
    BY DEF InHand, Carries
  <2>5. CASE processed[i] = 1
    <3>1. ~In(i, async_queue_) /\ ~Carries(Worker, i)
      BY <1>1, <2>2, <2>5 DEF Inv, Placed
    <3>2. QED  BY <2>3, <2>4, <2>5, <3>1
  <2>6. CASE In(i, async_queue_)
    <3>1. processed[i] = 0 /\ ~Carries(Worker, i)
      BY <1>1, <2>2, <2>6 DEF Inv, Placed
    <3>2. QED  BY <2>3, <2>4, <2>6, <3>1
  <2>7. CASE Carries(Worker, i)
    <3>1. processed[i] = 0 /\ ~In(i, async_queue_)
      BY <1>1, <2>2, <2>7 DEF Inv, Placed
    <3>2. QED  BY <2>3, <2>4, <2>7, <3>1
  <2>8. QED  BY <1>1, <2>5, <2>6, <2>7 DEF Inv, Placed
<1>2. QED  BY <1>1, Invariance, PTL

\* async_worker_loop: an operation is processed only when every operation that
\* was accepted before it is.
THEOREM AcceptedOrder == Spec => []InOrder
<1>1. ASSUME Inv PROVE InOrder
  <2>1. SUFFICES ASSUME NEW i \in async, NEW j \in async, i < j, processed[j] > 0 PROVE processed[i] > 0
    BY DEF InOrder
  <2>2. i \in Ids /\ j \in Ids /\ i \in Int /\ j \in Int /\ ~(j < i)
    BY <1>1, <2>1, ConstantsAssumption DEF Inv, Types, Ids
  <2>3. processed[j] = 1 /\ ~In(j, async_queue_)
    BY <1>1, <2>1, <2>2 DEF Inv, Placed
  <2>4. ~In(i, async_queue_) /\ ~Carries(Worker, i)
    BY <1>1, <2>2, <2>3 DEF Inv, Older
  <2>5. processed[i] = 1
    BY <1>1, <2>4 DEF Inv, Placed
  <2>6. QED  BY <2>5
<1>2. QED  BY <1>1, Invariance, PTL

\* process_gradient and apply_stale_gradients: a gradient is subtracted once, and
\* at most once more as a stale one.
THEOREM SubtractedOnce == Spec => []GradientOnce
<1>1. ASSUME Inv PROVE GradientOnce
  <2>1. SUFFICES ASSUME NEW n \in Names, NEW i \in Ids, params_[n] # None
                 PROVE  /\ params_[n].full[i] <= 1
                        /\ params_[n].half[i] + Times(i, stale_queue_) <= 1
    BY DEF GradientOnce
  <2>2. params_[n] \in Entries /\ stale_queue_ \in Seq(StaleEntries)
    BY <1>1, <2>1 DEF Inv, DataTypes
  <2>3. params_[n].full[i] \in Nat /\ params_[n].half[i] \in Nat
    BY <2>2 DEF Entries
  <2>4. /\ params_[n].full[i] <= processed[i] /\ params_[n].half[i] <= processed[i]
        /\ In(i, stale_queue_) => params_[n].half[i] = 0
    BY <1>1, <2>1 DEF Inv, Gradients
  <2>5. processed[i] \in {0, 1}
    BY <1>1 DEF Inv, Placed
  <2>6. /\ Times(i, stale_queue_) \in Nat /\ Times(i, stale_queue_) <= 1
        /\ Times(i, stale_queue_) > 0 <=> In(i, stale_queue_)
    BY <1>1, <2>2, TimesIn DEF Inv, Gradients
  <2>7. QED  BY <2>3, <2>4, <2>5, <2>6
<1>2. QED  BY <1>1, Invariance, PTL

\* global_mtx_ and stale_mtx_ belong to the thread whose place in the code holds
\* them, and the fields have their types.
THEOREM TypeCorrect == Spec => []TypeOK
<1>1. ASSUME Inv PROVE TypeOK
  <2>1. \A t \in Threads :
          /\ global_mtx_ = t <=> "global" \in Holds(t)
          /\ stale_mtx_ = t <=> "stale" \in Holds(t)
          /\ th[t].pc \in {"work", "grad_stale", "grad_apply"} <=> th[t].op # None
    BY <1>1 DEF Inv, Mutexes, Holds, BusyExactly, Busy
  <2>2. QED  BY <1>1, <2>1 DEF Inv, Types, DataTypes, Entries, TypeOK
<1>2. QED  BY <1>1, Invariance, PTL

=============================================================================
