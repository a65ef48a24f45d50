SPECIFICATION Spec
CONSTANTS
    s1 = s1
    s2 = s2
    i1 = i1
    i2 = i2
    Savers = {s1, s2}
    Inodes = {i1, i2}
    Nothing = Nothing
    Other = Other
    LocksSupported = TRUE
    MaxTries = 2
    MaxFaults = 1
    MaxMeddles = 0
    Alien = Alien
    MaxVersion = 2
    MaxEdits = 2
    WindowEdits = FALSE
SYMMETRY Symmetry
INVARIANT
    LeavesNothingBehind
PROPERTIES
    NoLostUpdate
    NeverDetachesLinks
    AnswerTellsTheTruth
    ImplementsRegister
