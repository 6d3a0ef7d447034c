------------------------- MODULE MCParameterServer -------------------------
(* Small instances of ParameterServer for TLC.                             *)
EXTENDS ParameterServer
=============================================================================
