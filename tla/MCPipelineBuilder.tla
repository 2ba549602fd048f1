-------------------------- MODULE MCPipelineBuilder --------------------------
(* PipelineBuilder with four ids and one processor whose role can differ. *)
EXTENDS PipelineBuilder, TLC

CONSTANTS mic, llm, tts, speaker

MCIds == {mic, llm, tts, speaker}
MCRolesOf == mic :> {"transport_input"} @@ llm :> {"other", "transport_input"}
             @@ tts :> {"other"} @@ speaker :> {"transport_output"}
=============================================================================
