SPECIFICATION FairSpec
CONSTANTS
    Files = {f1, f2}
    MaxEdits = 1
    MaxFaults = 2
    MaxCancels = 2
INVARIANTS
    AllOrNothing
    BackupOutlives
    
PROPERTIES
    NothingLeftBehind
CHECK_DEADLOCK FALSE
