CONSTANTS
    PipelineAsps <- MCPipelineAsps

SPECIFICATION Spec
INVARIANT EncryptedWhenPartnerCert
CHECK_DEADLOCK FALSE
