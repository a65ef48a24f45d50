SPECIFICATION Spec
CONSTANTS
    Documents <- MCDocuments
    Handles = {1, 2, 3, 4, 5}
    Sources = {"live", "sidecar"}
    None = None
    MaxLine = 1
    MaxDamage = 1
CHECK_DEADLOCK FALSE
INVARIANTS
    HandlesAreOwned
    AgreesWithCold
    PictureIsCurrent
PROPERTY
    EditAddsNoFailure
