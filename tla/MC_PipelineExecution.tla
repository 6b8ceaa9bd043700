------------------------- MODULE MC_PipelineExecution -------------------------
(***************************************************************************)
(* PipelineExecution for TLC: two executions, of two stages and of one.    *)
(***************************************************************************)
EXTENDS PipelineExecution, TLC

CONSTANTS p, q

MCStagesOf == (p :> 2) @@ (q :> 1)
=============================================================================
