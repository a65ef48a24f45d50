SPECIFICATION Spec
CONSTANTS
    v1 = v1
    v2 = v2
    Versions = {v1, v2}
    None = None
    Torn = Torn
    MaxOrder = 3
    MaxSequence = 3
    MaxFaults = 2
    MaxEnds = 0
    PowerCuts = FALSE
SYMMETRY Symmetry
CHECK_DEADLOCK FALSE
INVARIANT
    UnchangedMeansHeld
