SPECIFICATION Spec
CONSTANTS
    Instances = {1, 2, 3}
    Segments = {1, 2, 3}
    Keep = 1
    Attempts = 2
    Errors = TRUE
CHECK_DEADLOCK FALSE
INVARIANT
    RunningIsWhole
PROPERTY
    NewestAreKept
