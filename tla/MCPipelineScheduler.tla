------------------------- MODULE MCPipelineScheduler -------------------------
(* PipelineScheduler over the ids of a small builder. *)
EXTENDS PipelineScheduler, TLC

Symmetry == Permutations(Ids)
=============================================================================
