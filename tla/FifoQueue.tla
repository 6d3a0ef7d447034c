----------------------------- MODULE FifoQueue -----------------------------
(***************************************************************************)
(* What a bounded queue between threads promises: items leave in the order *)
(* in which they were accepted, each once; never more than Capacity are    *)
(* inside; after it is closed nothing is accepted any more.                *)
(***************************************************************************)
EXTENDS Integers, Sequences

CONSTANTS Items, Capacity

VARIABLES
    accepted,   \* every item ever accepted, in order
    delivered,  \* every item ever handed out, in order
    shut        \* the queue is closed

Init == accepted = << >> /\ delivered = << >> /\ shut = FALSE

Accept(x) ==
    /\ ~shut
    /\ Len(accepted) - Len(delivered) < Capacity
    /\ accepted' = Append(accepted, x)
    /\ UNCHANGED <<delivered, shut>>

Deliver ==
    /\ Len(delivered) < Len(accepted)
    /\ delivered' = Append(delivered, accepted[Len(delivered) + 1])
    /\ UNCHANGED <<accepted, shut>>

Close == shut' = TRUE /\ UNCHANGED <<accepted, delivered>>

Next == (\E x \in Items : Accept(x)) \/ Deliver \/ Close

Spec == Init /\ [][Next]_<<accepted, delivered, shut>>

=============================================================================
