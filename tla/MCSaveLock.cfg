SPECIFICATION FairLockSpec
CONSTANTS
    s1 = s1
    s2 = s2
    i1 = i1
    i2 = i2
    Savers = {s1, s2}
    Inodes = {i1, i2}
    Nothing = Nothing
    Other = Other
    LocksSupported = TRUE
    MaxTries = 4
    MaxFaults = 1
    MaxMeddles = 1
INVARIANT
    MutualExclusion
PROPERTIES
    RemovesOnlyItsOwn
    EveryAttemptEnds
