--------------------------- MODULE MCModelServer ---------------------------
(* A small instance of ModelServer for TLC.                                *)
EXTENDS ModelServer

CONSTANTS r1, r2, r3

\* Two urgent requests, one of them of several tokens, and one that can wait.
Priorities == [r \in Requests |-> IF r = r3 THEN 1 ELSE 0]
=============================================================================
