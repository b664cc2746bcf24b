SPECIFICATION FairSpec
CONSTANTS
    Requests = {r1, r2}
    Foreign = {f}
    Pages = {p}
    Projects = {}
    Parts = {page}
    Texts = {Old, New}
    Old = Old
    Contents <- Versions
    Truncated <- Short
    Absent = Absent
    Probes = {}
    Free = Free
    PushLoop = PushLoop
    MaxCrashes = 0
    MaxOutages = 1
    MaxFails = 1
PROPERTY SelfHeals
CHECK_DEADLOCK FALSE
