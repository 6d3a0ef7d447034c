-------------------------- MODULE MCRolloutBuffer --------------------------
(* A small instance of RolloutBuffer for TLC.                              *)
EXTENDS RolloutBuffer
=============================================================================
