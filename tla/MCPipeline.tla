----------------------------- MODULE MCPipeline -----------------------------
(***************************************************************************)
(* The pipeline with all five ASPs registered; both values of              *)
(* scen->partner_cert and scen->workdir are initial states.                *)
(***************************************************************************)
EXTENDS Pipeline

MCPipelineAsps == StageAsps
=============================================================================
