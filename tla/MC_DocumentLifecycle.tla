----------------------- MODULE MC_DocumentLifecycle -----------------------
(* A small instance of DocumentLifecycle for TLC. *)
EXTENDS DocumentLifecycle, TLC
=============================================================================
