SPECIFICATION Spec
CONSTANTS
    m1 = m1
    m2 = m2
    p1 = p1
    Models = {m1, m2}
    Paths = {p1}
    None = None
    Foreign = Foreign
    Sizes = {1, 3}
    MaxVersions = 3
    MaxBytes = 5
    MaxFile = 3
    MaxGeneration = 4
    MaxJobs = 2
    MaxSaves = 1
    MaxEdits = 1
SYMMETRY Symmetry
CHECK_DEADLOCK FALSE
INVARIANTS
    FilesAreOwned
    CleanMeansSaved
    WithinLimits
PROPERTY
    ImplementsLine
