-------------------------- MODULE MCPipelineRefines --------------------------
(***************************************************************************)
(* The pipeline of MCPipeline checked against its abstract specification   *)
(* and its inductive invariant.                                            *)
(***************************************************************************)
EXTENDS PipelineProofs

MCPipelineAsps == StageAsps
=============================================================================
