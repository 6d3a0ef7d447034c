------------------------ MODULE RolloutBufferProofs ------------------------
(***************************************************************************)
(* AsyncRolloutBuffer implements the bounded FIFO queue of FifoQueue, for  *)
(* any number of producers, consumers and prompts and any capacity.        *)
(*                                                                         *)
(* The numbers in the map form an interval that starts at the number of    *)
(* trajectories handed out (BufferOK), so the map's first element is the   *)
(* oldest.  That a worker's trajectories stay in order needs Behind: what  *)
(* is accepted belongs to prompts its worker has left.                     *)
(***************************************************************************)
EXTENDS RolloutBuffer, FiniteSetTheorems, TLAPS

BufferOK ==
    /\ next_seq_ \in Nat /\ closed_ \in BOOLEAN
    /\ popped \in Seq(Trajectories)
    /\ queue_ \in [Len(popped) .. next_seq_ - 1 -> Trajectories]
    /\ next_seq_ - Len(popped) \in 0 .. Capacity

ThreadsOK ==
    /\ prompt \in [Producers -> 1 .. NPrompts + 1]
    /\ retry \in [Producers -> 0 .. MaxRetries - 1]
    /\ ppc \in [Producers -> {"push", "check"}]
    /\ cpc \in [Consumers -> {"call", "sleep", "woken", "done"}]

Behind == \A i \in 1 .. next_seq_ : Accepted[i][2] < prompt[Accepted[i][1]]

-----------------------------------------------------------------------------
(* The buffer.                                                             *)

\* size() and begin() of the map.
LEMMA Size ==
    ASSUME BufferOK
    PROVE  /\ Seqs = Len(popped) .. next_seq_ - 1
           /\ Cardinality(Seqs) = next_seq_ - Len(popped)
           /\ Seqs # {} => First = Len(popped) /\ First \in Seqs
<1>1. Seqs = Len(popped) .. next_seq_ - 1 /\ Len(popped) \in Nat
  BY DEF BufferOK, Seqs
<1>2. Cardinality(Seqs) = next_seq_ - Len(popped)
  <2>1. /\ Len(popped) \in Int /\ next_seq_ \in Int /\ next_seq_ - 1 \in Int
        /\ Len(popped) <= next_seq_
    BY <1>1, ConstantsAssumption DEF BufferOK
  <2>2. Cardinality(Len(popped) .. next_seq_ - 1)
          = IF Len(popped) > next_seq_ - 1 THEN 0 ELSE next_seq_ - 1 - Len(popped) + 1
    BY <2>1, FS_Interval
  <2>3. QED  BY <1>1, <2>1, <2>2
<1>3. ASSUME Seqs # {} PROVE First = Len(popped) /\ First \in Seqs
  <2>1. Len(popped) \in Seqs /\ \A r \in Seqs : Len(popped) <= r
    BY <1>1, <1>3 DEF BufferOK
  <2>2. First \in Seqs /\ \A r \in Seqs : First <= r
    BY <2>1 DEF First
  <2>3. QED  BY <1>1, <2>1, <2>2 DEF BufferOK
<1>4. QED  BY <1>1, <1>2, <1>3

\* What was accepted is a sequence of trajectories.
LEMMA AcceptedType ==
    ASSUME BufferOK
    PROVE  /\ Accepted \in Seq(Trajectories) /\ Len(Accepted) = next_seq_
           /\ \A i \in 1 .. next_seq_ : Accepted[i] \in Trajectories
<1>1. \A i \in 1 .. next_seq_ :
        (IF i <= Len(popped) THEN popped[i] ELSE queue_[i - 1]) \in Trajectories
  BY DEF BufferOK
<1>2. Accepted \in [1 .. next_seq_ -> Trajectories]
  BY <1>1 DEF Accepted
<1>3. QED  BY <1>2 DEF BufferOK

\* A push appends to what was accepted.
LEMMA InsertStep ==
    ASSUME BufferOK, ~Full, NEW x \in Trajectories,
           queue_' = [s \in Seqs \cup {next_seq_} |-> IF s = next_seq_ THEN x ELSE queue_[s]],
           next_seq_' = next_seq_ + 1, closed_' = closed_, popped' = popped
    PROVE  BufferOK' /\ Accepted' = Append(Accepted, x)
<1>1. /\ Seqs = Len(popped) .. next_seq_ - 1
      /\ next_seq_ - Len(popped) < Capacity /\ Len(popped) \in Nat
  BY Size, ConstantsAssumption DEF BufferOK, Full
<1>2. Seqs \cup {next_seq_} = Len(popped') .. next_seq_' - 1
  BY <1>1 DEF BufferOK
<1>3. queue_' \in [Len(popped') .. next_seq_' - 1 -> Trajectories]
  BY <1>1, <1>2 DEF BufferOK
<1>4. BufferOK'
  BY <1>1, <1>3, ConstantsAssumption DEF BufferOK
<1>5. ASSUME NEW i \in 1 .. next_seq_ + 1
      PROVE  Accepted'[i] = IF i <= next_seq_ THEN Accepted[i] ELSE x
  <2>1. Accepted'[i] = IF i <= Len(popped) THEN popped[i] ELSE queue_'[i - 1]
    BY DEF Accepted
  <2>2. CASE i <= Len(popped)
    BY <1>1, <2>1, <2>2 DEF Accepted, BufferOK
  <2>3. CASE i > Len(popped) /\ i <= next_seq_
    <3>1. queue_'[i - 1] = queue_[i - 1]
      BY <1>1, <1>2, <2>3 DEF BufferOK
    <3>2. QED  BY <1>1, <2>1, <2>3, <3>1 DEF Accepted, BufferOK
  <2>4. CASE i = next_seq_ + 1
    <3>1. i > Len(popped) /\ ~(i <= next_seq_) /\ i - 1 = next_seq_
      BY <1>1, <2>4 DEF BufferOK
    <3>2. queue_'[i - 1] = x
      BY <3>1
    <3>3. QED  BY <1>1, <2>1, <3>1, <3>2 DEF BufferOK
  <2>5. QED  BY <1>1, <2>2, <2>3, <2>4 DEF BufferOK
<1>6. Accepted' = [i \in 1 .. next_seq_ + 1 |-> IF i <= next_seq_ THEN Accepted[i] ELSE x]
  <2>1. Accepted' = [i \in 1 .. next_seq_ + 1 |-> Accepted'[i]]
    BY DEF Accepted
  <2>2. QED  BY <1>5, <2>1
<1>7. Append(Accepted, x) = [i \in 1 .. next_seq_ + 1 |-> IF i <= next_seq_ THEN Accepted[i] ELSE x]
  <2> DEFINE a == Accepted
  <2>1. a \in Seq(Trajectories) /\ Len(a) = next_seq_
    BY AcceptedType
  <2> HIDE DEF a
  <2>2. /\ Append(a, x) \in Seq(Trajectories) /\ Len(Append(a, x)) = next_seq_ + 1
        /\ \A i \in 1 .. next_seq_ : Append(a, x)[i] = a[i]
        /\ Append(a, x)[next_seq_ + 1] = x
    BY <2>1
  <2>3. Append(a, x) = [i \in 1 .. next_seq_ + 1 |-> Append(a, x)[i]]
    <3> DEFINE b == Append(a, x)
    <3>1. b \in Seq(Trajectories) /\ Len(b) = next_seq_ + 1
      BY <2>2
    <3> HIDE DEF b
    <3>2. b = [i \in 1 .. next_seq_ + 1 |-> b[i]]
      BY <3>1
    <3>3. QED  BY <3>2 DEF b
  <2>4. ASSUME NEW i \in 1 .. next_seq_ + 1
        PROVE  Append(a, x)[i] = IF i <= next_seq_ THEN a[i] ELSE x
    BY <2>2 DEF BufferOK
  <2>5. QED  BY <2>3, <2>4 DEF a
<1>8. QED  BY <1>4, <1>6, <1>7

\* pop() and try_pop() hand out the oldest element and change nothing else.
LEMMA TakeStep ==
    ASSUME BufferOK, Seqs # {}, Take(First)
    PROVE  /\ BufferOK' /\ Accepted' = Accepted
           /\ Len(popped) < Len(Accepted)
           /\ popped' = Append(popped, Accepted[Len(popped) + 1])
<1>1. /\ Seqs = Len(popped) .. next_seq_ - 1 /\ Len(popped) \in Nat
      /\ First = Len(popped) /\ First \in Seqs /\ Len(popped) < next_seq_
      /\ next_seq_' = next_seq_ /\ closed_' = closed_
  BY Size DEF BufferOK, Take
<1>2. queue_[First] \in Trajectories
  BY <1>1 DEF BufferOK
<1>3. /\ popped' = Append(popped, queue_[First]) /\ popped' \in Seq(Trajectories)
      /\ Len(popped') = Len(popped) + 1
      /\ \A i \in 1 .. Len(popped) : popped'[i] = popped[i]
      /\ popped'[Len(popped) + 1] = queue_[First]
  BY <1>1, <1>2 DEF Take, BufferOK
<1>4. Seqs \ {First} = Len(popped') .. next_seq_' - 1
  BY <1>1, <1>3 DEF BufferOK
<1>5. /\ queue_' \in [Len(popped') .. next_seq_' - 1 -> Trajectories]
      /\ \A s \in Len(popped') .. next_seq_' - 1 : queue_'[s] = queue_[s]
  BY <1>1, <1>4 DEF Take, BufferOK
<1>6. BufferOK'
  BY <1>1, <1>3, <1>5, ConstantsAssumption DEF BufferOK
<1>7. Accepted[Len(popped) + 1] = queue_[First]
  <2>1. Len(popped) + 1 \in 1 .. next_seq_ /\ Len(popped) + 1 - 1 = Len(popped)
    BY <1>1 DEF BufferOK
  <2>2. ~(Len(popped) + 1 <= Len(popped))
    BY <1>1
  <2>3. QED  BY <1>1, <2>1, <2>2 DEF Accepted
<1>8. ASSUME NEW i \in 1 .. next_seq_ PROVE Accepted'[i] = Accepted[i]
  <2>1. Accepted'[i] = IF i <= Len(popped') THEN popped'[i] ELSE queue_'[i - 1]
    BY <1>1 DEF Accepted
  <2>2. Accepted[i] = IF i <= Len(popped) THEN popped[i] ELSE queue_[i - 1]
    BY DEF Accepted
  <2>3. CASE i <= Len(popped)
    BY <1>1, <1>3, <2>1, <2>2, <2>3
  <2>4. CASE i = Len(popped) + 1
    <3>1. i <= Len(popped') /\ ~(i <= Len(popped)) /\ i - 1 = First
      BY <1>1, <1>3, <2>4
    <3>2. QED  BY <1>3, <2>1, <2>2, <2>4, <3>1
  <2>5. CASE i > Len(popped) + 1
    <3>1. i - 1 \in Len(popped') .. next_seq_' - 1
      BY <1>1, <1>3, <2>5 DEF BufferOK
    <3>2. QED  BY <1>1, <1>3, <1>5, <2>1, <2>2, <2>5, <3>1
  <2>6. QED  BY <1>1, <2>3, <2>4, <2>5
<1>9. Accepted' = Accepted
  <2>1. Accepted' = [i \in 1 .. next_seq_ |-> Accepted'[i]]
    BY <1>1 DEF Accepted
  <2>2. Accepted = [i \in 1 .. next_seq_ |-> Accepted[i]]
    BY DEF Accepted
  <2>3. QED  BY <1>8, <2>1, <2>2
<1>10. QED  BY <1>1, <1>3, <1>6, <1>7, <1>9, AcceptedType

-----------------------------------------------------------------------------
(* The invariant.                                                          *)

IInv == BufferOK /\ ThreadsOK /\ FalseMeansOver /\ Behind /\ ProducerOrder

LEMMA TypeSplit == TypeOK <=> BufferOK /\ ThreadsOK
  BY DEF TypeOK, BufferOK, ThreadsOK

LEMMA InitInv == Init => IInv
<1> SUFFICES ASSUME Init PROVE IInv
  OBVIOUS
<1>1. BufferOK
  <2>0. next_seq_ = 0 /\ popped = << >> /\ closed_ \in BOOLEAN
    BY DEF Init
  <2>1. Len(popped) = 0 /\ popped \in Seq(Trajectories)
    BY <2>0
  <2>2. Len(popped) .. next_seq_ - 1 = {}
    BY <2>0, <2>1
  <2>3. queue_ \in [Len(popped) .. next_seq_ - 1 -> Trajectories]
    BY <2>2 DEF Init
  <2>4. QED  BY <2>0, <2>1, <2>3, ConstantsAssumption DEF BufferOK
<1>2. ThreadsOK
  BY ConstantsAssumption DEF Init, ThreadsOK
<1>3. FalseMeansOver /\ Behind /\ ProducerOrder
  BY DEF Init, FalseMeansOver, Behind, ProducerOrder
<1>4. QED  BY <1>1, <1>2, <1>3 DEF IInv

\* A step that leaves the buffer alone keeps what was accepted.
LEMMA SameBuffer ==
    ASSUME BufferOK, closed_' \in BOOLEAN, UNCHANGED <<queue_, next_seq_, popped>>
    PROVE  BufferOK' /\ Accepted' = Accepted
  BY DEF BufferOK, Accepted

\* A step that accepts nothing and takes no prompt back keeps the order.
LEMMA OrderKept ==
    ASSUME BufferOK, ThreadsOK, Behind, ProducerOrder,
           Accepted' = Accepted, next_seq_' = next_seq_,
           \A p \in Producers : prompt'[p] >= prompt[p] /\ prompt'[p] \in Int
    PROVE  Behind' /\ ProducerOrder'
<1>1. ASSUME NEW i \in 1 .. next_seq_ PROVE Accepted[i][2] < prompt'[Accepted[i][1]]
  <2>1. Accepted[i] \in Trajectories
    BY AcceptedType
  <2>2. Accepted[i][1] \in Producers /\ Accepted[i][2] \in Int
    BY <2>1, ConstantsAssumption DEF Trajectories
  <2>3. Accepted[i][2] < prompt[Accepted[i][1]] /\ prompt[Accepted[i][1]] \in Int
    BY <2>2, ConstantsAssumption DEF Behind, ThreadsOK
  <2>4. QED  BY <2>2, <2>3
<1>2. QED  BY <1>1 DEF Behind, ProducerOrder

\* The order after a push.
LEMMA OrderPushed ==
    ASSUME BufferOK, ThreadsOK, Behind, ProducerOrder, NEW p \in Producers,
           Accepted' = Append(Accepted, <<p, prompt[p]>>), next_seq_' = next_seq_ + 1,
           prompt' = [prompt EXCEPT ![p] = @ + 1]
    PROVE  Behind' /\ ProducerOrder'
<1>1. PICK a, b, x : a = Accepted /\ b = Accepted' /\ x = <<p, prompt[p]>>
  OBVIOUS
<1>2. /\ a \in Seq(Trajectories) /\ Len(a) = next_seq_ /\ next_seq_ \in Nat
      /\ \A i \in 1 .. next_seq_ : a[i] \in Trajectories
      /\ b = Append(a, x)
  BY <1>1, AcceptedType DEF BufferOK
<1>3. \A i \in 1 .. next_seq_ : a[i][1] \in Producers /\ a[i][2] \in Int /\ b[i] = a[i]
  BY <1>2 DEF Trajectories
<1>4. b[next_seq_ + 1] = x
  BY <1>2
<1>5. x[1] = p /\ x[2] = prompt[p]
  BY <1>1
<1>6. \A q \in Producers :
        prompt[q] \in Int /\ prompt'[q] = IF q = p THEN prompt[q] + 1 ELSE prompt[q]
  BY ConstantsAssumption DEF ThreadsOK
<1>7. \A i \in 1 .. next_seq_ : a[i][2] < prompt[a[i][1]]
  BY <1>1 DEF Behind
<1>8. \A i, j \in 1 .. next_seq_ : i < j /\ a[i][1] = a[j][1] => a[i][2] < a[j][2]
  BY <1>1 DEF ProducerOrder
<1>9. PICK n, P, Q : n = next_seq_ /\ P = prompt /\ Q = prompt'
  OBVIOUS
<1>a. /\ n \in Nat
      /\ \A i \in 1 .. n : a[i][1] \in Producers /\ a[i][2] \in Int /\ b[i] = a[i]
      /\ b[n + 1] = x /\ x[1] = p /\ x[2] = P[p]
  BY <1>2, <1>3, <1>4, <1>5, <1>9
<1>b. \A q \in Producers : P[q] \in Int /\ Q[q] = IF q = p THEN P[q] + 1 ELSE P[q]
  BY <1>6, <1>9
<1>c. /\ \A i \in 1 .. n : a[i][2] < P[a[i][1]]
      /\ \A i, j \in 1 .. n : i < j /\ a[i][1] = a[j][1] => a[i][2] < a[j][2]
  BY <1>7, <1>8, <1>9
<1>d. /\ \A i \in 1 .. n + 1 : b[i][2] < Q[b[i][1]]
      /\ \A i, j \in 1 .. n + 1 : i < j /\ b[i][1] = b[j][1] => b[i][2] < b[j][2]
  <2>1. ASSUME NEW i \in 1 .. n + 1 PROVE b[i][2] < Q[b[i][1]]
    <3>1. CASE i \in 1 .. n
      <4>1. b[i] = a[i] /\ a[i][2] \in Int /\ P[a[i][1]] \in Int
        BY <3>1, <1>a, <1>b
      <4>2. a[i][2] < P[a[i][1]] /\ Q[a[i][1]] \in {P[a[i][1]], P[a[i][1]] + 1}
        BY <3>1, <1>a, <1>b, <1>c
      <4>3. QED  BY <4>1, <4>2
    <3>2. CASE i = n + 1
      BY <3>2, <1>a, <1>b
    <3>3. QED  BY <3>1, <3>2, <1>a
  <2>2. ASSUME NEW i \in 1 .. n + 1, NEW j \in 1 .. n + 1, i < j, b[i][1] = b[j][1]
        PROVE  b[i][2] < b[j][2]
    <3>1. i \in 1 .. n
      BY <2>2, <1>a
    <3>2. CASE j \in 1 .. n
      BY <2>2, <3>1, <3>2, <1>a, <1>c
    <3>3. CASE j = n + 1
      <4>1. b[j] = x /\ b[i] = a[i] /\ a[i][1] = p
        BY <2>2, <3>1, <3>3, <1>a
      <4>2. a[i][2] < P[a[i][1]]
        BY <3>1, <1>c
      <4>3. QED  BY <4>1, <4>2, <1>a
    <3>4. QED  BY <3>2, <3>3, <1>a
  <2>3. QED  BY <2>1, <2>2
<1>10. QED  BY <1>1, <1>9, <1>d DEF Behind, ProducerOrder

-----------------------------------------------------------------------------
(* Every step keeps the invariant and is a step of the abstract queue.     *)

QueueStep == [Fifo!Next]_<<Accepted, popped, closed_>>

LEMMA PushInv == ASSUME IInv, NEW p \in Producers, Push(p) PROVE IInv' /\ QueueStep
<1>1. <<p, prompt[p]>> \in Trajectories
  BY ConstantsAssumption DEF IInv, ThreadsOK, Push, Working, Trajectories
<1>2. BufferOK' /\ Accepted' = Append(Accepted, <<p, prompt[p]>>)
  <2>1. /\ queue_' = [s \in Seqs \cup {next_seq_} |->
                        IF s = next_seq_ THEN <<p, prompt[p]>> ELSE queue_[s]]
        /\ next_seq_' = next_seq_ + 1 /\ closed_' = closed_ /\ popped' = popped /\ ~Full
    BY DEF Push, Insert
  <2>2. QED  BY <1>1, <2>1, InsertStep DEF IInv
<1>3. \A c \in Consumers : cpc'[c] \in {"call", "sleep", "woken", "done"}
                            /\ (cpc'[c] = "done" => cpc[c] = "done")
  BY DEF Push, Insert, NotifyOne, IInv, ThreadsOK
<1>4. ThreadsOK'
  <2>1. cpc' \in [Consumers -> {"call", "sleep", "woken", "done"}]
    BY DEF Push, Insert, NotifyOne, IInv, ThreadsOK
  <2>2. QED  BY <2>1, ConstantsAssumption DEF Push, Working, NextPrompt, IInv, ThreadsOK
<1>5. FalseMeansOver'
  BY <1>3 DEF Push, IInv, FalseMeansOver
<1>6. Behind' /\ ProducerOrder'
  <2>1. prompt' = [prompt EXCEPT ![p] = @ + 1] /\ next_seq_' = next_seq_ + 1
    BY DEF Push, NextPrompt, Insert
  <2>2. QED  BY <1>2, <2>1, OrderPushed DEF IInv
<1>7. QueueStep
  <2>1. Len(Accepted) = next_seq_ /\ next_seq_ - Len(popped) < Capacity
    BY AcceptedType, Size, ConstantsAssumption DEF Push, Full, IInv, BufferOK
  <2>2. Fifo!Accept(<<p, prompt[p]>>)
    BY <1>2, <2>1 DEF Fifo!Accept, Push
  <2>3. QED  BY <1>1, <2>2 DEF QueueStep, Fifo!Next
<1>8. QED  BY <1>2, <1>4, <1>5, <1>6, <1>7 DEF IInv

\* The steps of a producer that add nothing.
LEMMA ProducerInv ==
    ASSUME IInv, NEW p \in Producers,
           PushRefused(p) \/ CheckClosed(p) \/ Retry(p) \/ GiveUp(p)
    PROVE  IInv' /\ QueueStep
<1>1. UNCHANGED <<queue_, next_seq_, popped, closed_, cpc>>
  BY DEF PushRefused, CheckClosed, Retry, GiveUp
<1>2. BufferOK' /\ Accepted' = Accepted
  <2>1. closed_' \in BOOLEAN
    BY <1>1 DEF IInv, BufferOK
  <2>2. QED  BY <1>1, <2>1, SameBuffer DEF IInv
<1>3. ThreadsOK' /\ \A q \in Producers : prompt'[q] >= prompt[q] /\ prompt'[q] \in Int
  <2>1. CASE PushRefused(p)
    BY <2>1, ConstantsAssumption DEF PushRefused, IInv, ThreadsOK
  <2>2. CASE CheckClosed(p)
    BY <2>2, ConstantsAssumption DEF CheckClosed, Working, IInv, ThreadsOK
  <2>3. CASE Retry(p)
    BY <2>3, ConstantsAssumption DEF Retry, Working, IInv, ThreadsOK
  <2>4. CASE GiveUp(p)
    BY <2>4, ConstantsAssumption DEF GiveUp, NextPrompt, Working, IInv, ThreadsOK
  <2>5. QED  BY <2>1, <2>2, <2>3, <2>4
<1>4. FalseMeansOver'
  BY <1>1 DEF IInv, FalseMeansOver, Seqs
<1>5. Behind' /\ ProducerOrder'
  BY <1>1, <1>2, <1>3, OrderKept DEF IInv
<1>6. QED  BY <1>1, <1>2, <1>3, <1>4, <1>5 DEF IInv, QueueStep

\* pop() or try_pop() with something in the buffer.
LEMMA TakeInv ==
    ASSUME IInv, Seqs # {}, Take(First),
           cpc' = cpc \/ (\E c \in Consumers : cpc' = [cpc EXCEPT ![c] = "call"])
    PROVE  IInv' /\ QueueStep
<1>1. /\ BufferOK' /\ Accepted' = Accepted /\ Len(popped) < Len(Accepted)
      /\ popped' = Append(popped, Accepted[Len(popped) + 1])
  BY TakeStep DEF IInv
<1>2. ThreadsOK'
  BY DEF IInv, ThreadsOK, Take, producers
<1>3. FalseMeansOver'
  <2>1. \A c \in Consumers : cpc[c] # "done"
    BY DEF IInv, FalseMeansOver
  <2>2. \A c \in Consumers : cpc'[c] # "done"
    BY <2>1 DEF IInv, ThreadsOK
  <2>3. QED  BY <2>2 DEF FalseMeansOver
<1>4. Behind' /\ ProducerOrder'
  <2>1. next_seq_' = next_seq_ /\ \A q \in Producers : prompt'[q] >= prompt[q] /\ prompt'[q] \in Int
    BY ConstantsAssumption DEF Take, producers, IInv, ThreadsOK
  <2>2. QED  BY <1>1, <2>1, OrderKept DEF IInv
<1>5. QueueStep
  <2>1. Fifo!Deliver
    BY <1>1 DEF Fifo!Deliver, Take
  <2>2. QED  BY <2>1 DEF QueueStep, Fifo!Next
<1>6. QED  BY <1>1, <1>2, <1>3, <1>4, <1>5 DEF IInv

\* The other steps of a consumer, close() and stuttering.
LEMMA IdleInv ==
    ASSUME IInv, (\E c \in Consumers : PopEnd(c) \/ PopSleep(c) \/ Spurious(c)) \/ Close \/ UNCHANGED vars
    PROVE  IInv' /\ QueueStep
<1>1. UNCHANGED <<queue_, next_seq_, popped, prompt, retry, ppc>> /\ closed_' \in {closed_, TRUE}
  BY DEF PopEnd, PopSleep, Spurious, Close, producers, vars
<1>2. BufferOK' /\ Accepted' = Accepted
  <2>1. closed_' \in BOOLEAN
    BY <1>1 DEF IInv, BufferOK
  <2>2. QED  BY <1>1, <2>1, SameBuffer DEF IInv
<1>3. ThreadsOK'
  <2>1. cpc' \in [Consumers -> {"call", "sleep", "woken", "done"}]
    BY DEF IInv, ThreadsOK, PopEnd, PopSleep, Spurious, Close, vars
  <2>2. QED  BY <1>1, <2>1 DEF IInv, ThreadsOK
<1>4. FalseMeansOver'
  <2>1. Seqs' = Seqs
    BY <1>1 DEF Seqs
  <2>2. CASE \E c \in Consumers : PopEnd(c)
    BY <2>1, <2>2 DEF PopEnd, FalseMeansOver
  <2>3. CASE \E c \in Consumers : PopSleep(c) \/ Spurious(c)
    BY <2>1, <2>3 DEF PopSleep, Spurious, FalseMeansOver, IInv, ThreadsOK
  <2>4. CASE Close
    BY <2>1, <2>4 DEF Close, FalseMeansOver, IInv, ThreadsOK
  <2>5. CASE UNCHANGED vars
    BY <2>1, <2>5 DEF vars, FalseMeansOver, IInv
  <2>6. QED  BY <2>2, <2>3, <2>4, <2>5
<1>5. Behind' /\ ProducerOrder'
  <2>1. \A q \in Producers : prompt'[q] >= prompt[q] /\ prompt'[q] \in Int
    BY <1>1, ConstantsAssumption DEF IInv, ThreadsOK
  <2>2. QED  BY <1>1, <1>2, <2>1, OrderKept DEF IInv
<1>6. QueueStep
  <2>1. CASE closed_' = closed_
    BY <1>1, <1>2, <2>1 DEF QueueStep
  <2>2. CASE closed_' = TRUE
    BY <1>1, <1>2, <2>2 DEF QueueStep, Fifo!Next, Fifo!Close
  <2>3. QED  BY <1>1, <2>1, <2>2
<1>7. QED  BY <1>2, <1>3, <1>4, <1>5, <1>6 DEF IInv

LEMMA NextInv == IInv /\ [Next]_vars => IInv' /\ QueueStep
<1> SUFFICES ASSUME IInv, [Next]_vars PROVE IInv' /\ QueueStep
  OBVIOUS
<1>1. CASE \E p \in Producers : Push(p)
  BY <1>1, PushInv
<1>2. CASE \E p \in Producers : PushRefused(p) \/ CheckClosed(p) \/ Retry(p) \/ GiveUp(p)
  BY <1>2, ProducerInv
<1>3. CASE TryPop \/ \E c \in Consumers : PopTake(c)
  BY <1>3, TakeInv DEF TryPop, PopTake
<1>4. CASE (\E c \in Consumers : PopEnd(c) \/ PopSleep(c) \/ Spurious(c)) \/ Close \/ UNCHANGED vars
  BY <1>4, IdleInv
<1>5. QED  BY <1>1, <1>2, <1>3, <1>4 DEF Next, Produce, Pop

-----------------------------------------------------------------------------
(* The theorems.                                                           *)

LEMMA Invariance == Spec => []IInv
  BY InitInv, NextInv, PTL DEF Spec

\* AsyncRolloutBuffer: the numbers in queue_ are exactly those handed out and
\* not yet taken, and never more than capacity_ of them.
THEOREM TypeCorrect == Spec => []TypeOK
<1>1. IInv => TypeOK
  BY TypeSplit DEF IInv
<1>2. QED  BY <1>1, Invariance, PTL

\* push(), pop() and try_pop() by any number of threads implement a bounded
\* FIFO queue.
THEOREM BufferIsFifo == Spec => IsFifo
<1>1. Init => Fifo!Init
  <2> SUFFICES ASSUME Init PROVE Fifo!Init
    OBVIOUS
  <2>1. next_seq_ = 0 /\ popped = << >> /\ closed_ = FALSE
    BY DEF Init
  <2>2. Len(Accepted) = 0 /\ Accepted \in Seq(Trajectories)
    BY <2>1, InitInv, AcceptedType DEF IInv
  <2>3. Accepted = << >>
    BY <2>2
  <2>4. QED  BY <2>1, <2>3 DEF Fifo!Init
<1>2. IInv /\ [Next]_vars => [Fifo!Next]_<<Accepted, popped, closed_>>
  BY NextInv DEF QueueStep
<1>3. QED  BY <1>1, <1>2, Invariance, PTL DEF Spec, IsFifo, Fifo!Spec

\* pop() returns false only when the buffer is closed and stays empty.
THEOREM FalseIsFinal == Spec => []FalseMeansOver
<1>1. IInv => FalseMeansOver
  BY DEF IInv
<1>2. QED  BY <1>1, Invariance, PTL

\* produce_to(): a worker's trajectories are accepted in order, none twice.
THEOREM WorkersInOrder == Spec => []ProducerOrder
<1>1. IInv => ProducerOrder
  BY DEF IInv
<1>2. QED  BY <1>1, Invariance, PTL

=============================================================================
