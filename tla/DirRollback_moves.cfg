SPECIFICATION FairSpec
CONSTANTS
    MaxRuns = 2
    MaxFaults = 3
    CalmRestore = TRUE
INVARIANTS
    
    ReportTruthful
PROPERTIES
    
    TargetComesBack
CHECK_DEADLOCK FALSE
