------------------------- MODULE MCExpertPrefetcher -------------------------
(* A small instance of ExpertPrefetcher for TLC.                           *)
EXTENDS ExpertPrefetcher

CONSTANTS p1, p2, p3

\* What two calls schedule overlaps, as the experts of two batches do.
PageLists == {<<p1, p2>>, <<p3, p1>>}
=============================================================================
