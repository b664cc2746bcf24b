SPECIFICATION Spec
CONSTANTS
    Requests = {r1}
    Foreign = {f}
    Pages = {p}
    Projects = {}
    Parts = {page}
    Texts = {Old, New}
    Old = Old
    Contents <- Versions
    Truncated <- Short
    Absent = Absent
    Probes = {}
    Free = Free
    PushLoop = PushLoop
    MaxCrashes = 1
    MaxOutages = 0
    MaxFails = 1
PROPERTY RestartKeepsCommits
CHECK_DEADLOCK FALSE
