SPECIFICATION FairSpec
CONSTANTS
    Projects = {p, q}
    Names = {m, n}
    p = p
    q = q
    m = m
    n = n
    Written <- ThreePages
    Free = Free
    Sync = Sync
    Rec = Rec
    NoNotify = NoNotify
    MaxEngineOps = 4
    MaxFaults = 1
INVARIANT TypeOK
PROPERTIES KeepsKnownProjects OrphansGo
CHECK_DEADLOCK FALSE
