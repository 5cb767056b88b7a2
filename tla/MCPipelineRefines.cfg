\* Are the children reaped, is success only reported for a whole contract,
\* does the pipeline return, is PInv an invariant of every interleaving,
\* and does the fork chain implement the abstract pipeline?
CONSTANTS
    PipelineAsps <- MCPipelineAsps

SPECIFICATION FairSpec
INVARIANT TypeOK
INVARIANT ChildrenReaped
INVARIANT SuccessMeansSent
INVARIANT PInv
PROPERTY Terminates
PROPERTY OutcomeFinal
PROPERTY AbsFairSpec
CHECK_DEADLOCK FALSE
