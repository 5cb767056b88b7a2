CONSTANTS
    v1 = v1
    v2 = v2
    v3 = v3
    v4 = v4
    Kern = Kern
    Blob = Blob
    Plain = Plain
    P0 = P0
    PT = PT
    Other = Other
    NoAsp = NoAsp
    NoContract = NoContract
    NoBlob = NoBlob
    OrigContract = OrigContract
    OrigSize = 7
    MaxCalls = 3
    Vars <- MCVars
    Types <- MCTypes
    KernelType <- Kern
    BlobType <- Blob
    Attesters <- MCAttesters
    DomZero = "@_0"
    DomTarget = "@_t"
    Resources <- MCResources
    OtherAddr <- Other
    VarAddr <- MCVarAddr
    Places <- MCPlaces
    PlaceInfo <- MCPlaceInfo
    Registry <- MCRegistry
    Capable <- MCCapable
    Requests <- MCRequests

SPECIFICATION Spec
INVARIANT TypeOK
INVARIANT ScenarioRestored
INVARIANT EvidenceFromAddressedAttester
PROPERTY NoRemeasure
CHECK_DEADLOCK FALSE
