CONSTANTS
    idA = idA
    idB = idB
    idBad = idBad
    PA = PA
    PB = PB
    NoPlace = NoPlace
    MaxArgs = 3
    Keys <- MCKeys
    Ids <- MCIds
    Places <- MCPlaces
    Directory <- MCDirectory

SPECIFICATION Spec
INVARIANT FailedRunNotSuccess
CHECK_DEADLOCK FALSE
