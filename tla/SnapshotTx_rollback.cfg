SPECIFICATION Spec
CONSTANTS
    Sessions = {s1}
    Nobody = Nobody
    agent = agent
    AgentOf <- SharedAgent
    TTL = 1
    MaxRetries = 2
    MaxNow = 3
    MaxBack = 0
    MaxForced = 0
    MaxCrashes = 0
    MayClose = FALSE
    Files = {f1, f2}
    MayForce = {s1}
    MayCancelRestore = TRUE
    Pace = "free"
SYMMETRY FileSymmetry
INVARIANTS
    RollbackReportTruthful
PROPERTIES
    RestoreBeforeRelease
CHECK_DEADLOCK FALSE
