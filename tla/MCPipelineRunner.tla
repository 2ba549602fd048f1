-------------------------- MODULE MCPipelineRunner --------------------------
(* PipelineRunner with a few processors and controllers. *)
EXTENDS PipelineRunner
=============================================================================
