SPECIFICATION FairSpec
CONSTANTS
    l1 = l1
    l2 = l2
    k1 = k1
    k2 = k2
    r1 = r1
    r2 = r2
    v1 = v1
    Lanes = {l1, l2}
    Keys = {k1, k2}
    Records = {r1, r2}
    Versions = {v1}
    None = None
    Absent = Absent
    MaxRecords = 1
    MaxOrders = 2
    MaxFaults = 0
CHECK_DEADLOCK FALSE
PROPERTIES
    EverythingSettles
    WorkerEnds
