------------------------ MODULE MCDistributedContext ------------------------
(* Small instances of DistributedContext for TLC.                          *)
EXTENDS DistributedContext

AllReduceCall(len) == [op |-> "all_reduce", n |-> len, src |-> 0]
BarrierOnly == [op |-> "barrier", n |-> 0, src |-> 0]
BroadcastFrom(rank) == [op |-> "broadcast", n |-> 1, src |-> rank]
AllGatherCall == [op |-> "all_gather", n |-> 1, src |-> 0]

\* The supported use: gradient all_reduces of different lengths and barriers.
ReducePrograms == [Calls -> {AllReduceCall(1), AllReduceCall(2), BarrierOnly}]

\* Every collective, in every order that asks for no sum after a broadcast or an
\* all_gather has left its array in the buffer: nothing clears it, and such a
\* sum is wrong.
Leftover(c) == c.op \in {"broadcast", "all_gather"}
MixedPrograms ==
    {p \in [Calls -> {AllReduceCall(1), BroadcastFrom(0), BroadcastFrom(1), AllGatherCall,
                      BarrierOnly}] :
        \A j, k \in Calls : j < k /\ Leftover(p[j]) => p[k].op # "all_reduce"}

SharedPrograms == ReducePrograms \cup MixedPrograms

\* What a trainer does that broadcasts its parameters before the first step.
BroadcastThenReduce == {<<BroadcastFrom(0), AllReduceCall(1)>>}

=============================================================================
