SPECIFICATION FairSpec
CONSTANTS
    Pages = {here, there}
    here = here
    there = there
    Edits <- Bodies
    Selections <- Whole
    MaxChanges = 3
    MaxFaults = 1
INVARIANTS TypeOK
PROPERTIES HistorySurvives RevertsWhatItMissed BackfillIsIdempotent RebaseMerges WedgedByConflict BackupConverges
CHECK_DEADLOCK FALSE
