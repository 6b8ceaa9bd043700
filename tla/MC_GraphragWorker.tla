------------------------- MODULE MC_GraphragWorker -------------------------
(* Small instances of GraphragWorker for TLC. *)
EXTENDS GraphragWorker, TLC
=============================================================================
