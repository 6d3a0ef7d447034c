--------------------------- MODULE MCPagedKVCache ---------------------------
(* Small instances of PagedKVCache for TLC.                                *)
EXTENDS PagedKVCache
=============================================================================
