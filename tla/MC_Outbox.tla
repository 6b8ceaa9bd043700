---------------------------- MODULE MC_Outbox ----------------------------
(* Small instances of Outbox for TLC.  Replicas are interchangeable, which *)
(* the runs that check no liveness property exploit.                       *)
EXTENDS Outbox, TLC

RelaySymmetry == Permutations(Relays)
=============================================================================
