SPECIFICATION Spec
CONSTANTS
    a1 = a1
    a2 = a2
    r1 = r1
    r2 = r2
    r3 = r3
    Agents = {a1, a2}
    Records = {r1, r2, r3}
    None = None
    Limit = 1
    Attempts = 2
    Errors = TRUE
SYMMETRY Symmetry
VIEW View
INVARIANTS
    OwnedIsWhole
    WithinRoom
PROPERTIES
    RecoverableStays
    ReadIsStill
