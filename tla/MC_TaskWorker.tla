------------------------- MODULE MC_TaskWorker -------------------------
(* Small instances of TaskWorker for TLC. *)
EXTENDS TaskWorker, TLC
=============================================================================
