CONSTANTS
    idA = idA
    idB = idB
    idBad = idBad
    PA = PA
    PB = PB
    NoPlace = NoPlace
    MaxArgs = 3
    Keys <- MCKeys
    Ids <- MCIds
    Places <- MCPlaces
    Directory <- MCDirectory

SPECIFICATION Spec
INVARIANT TypeOK
INVARIANT AllReleased
INVARIANT FirstPlaceWins
CHECK_DEADLOCK FALSE
