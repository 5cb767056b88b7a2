CONSTANTS
    PipelineAsps <- MCPipelineAsps

SPECIFICATION Spec
INVARIANT SpawnFailureDistinct
CHECK_DEADLOCK FALSE
