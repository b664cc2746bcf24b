SPECIFICATION Spec
CONSTANTS
    Requests = {r1, r2}
    Foreign = {f}
    Pages = {p, q}
    Projects <- WholeWiki
    Parts = {front, body}
    Texts = {Old, New}
    Old = Old
    Contents <- Versions
    Truncated <- Short
    Absent = Absent
    Probes = {h}
    Free = Free
    PushLoop = PushLoop
    MaxCrashes = 1
    MaxOutages = 0
    MaxFails = 1
SYMMETRY Symmetry
INVARIANTS TypeOK LockDiscipline OwedIsScheduled OwedIsCommitted PublishedOnce FailuresAreLive
PROPERTIES AckMeansCommitted PublishesOnlyNotifies KeepsBackupLog
CHECK_DEADLOCK FALSE
