SPECIFICATION EditSpec
CONSTANTS
    p1 = p1
    p2 = p2
    p3 = p3
    a = a
    b = b
    c = c
    f1 = f1
    f2 = f2
    f3 = f3
    b1 = b1
    b2 = b2
    ParameterIds = {p1, p2, p3}
    FeatureIds = {f1, f2, f3}
    BodyIds = {b1, b2}
    Names = {a, b, c}
    Unnamed = Unnamed
    Cap = 3
    Formulas <- MCFormulas
    Documents <- MCDocuments
    MaxChanges = 2
CHECK_DEADLOCK FALSE
INVARIANTS
    GraphIsSound
    HistoryIsALine
    StalenessNeverSpreads
PROPERTY
    RenameKeepsMeaning
