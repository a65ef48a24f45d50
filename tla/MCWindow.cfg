SPECIFICATION Spec
CONSTANTS
    t1 = t1
    t2 = t2
    p1 = p1
    p2 = p2
    TabIds = {t1, t2}
    Paths = {p1, p2}
    None = None
    MaxTabs = 2
    MaxVersion = 2
    MaxLine = 2
    MaxWorkers = 2
SYMMETRY Symmetry
CHECK_DEADLOCK FALSE
INVARIANTS
    ShownIsCurrent
    OneWriter
    FormsAreKept
    ReopenAccountsForAll
PROPERTY
    NothingLostUnasked
