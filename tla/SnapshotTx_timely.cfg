SPECIFICATION Spec
CONSTANTS
    Sessions = {s1, s2}
    Nobody = Nobody
    agent = agent
    AgentOf <- SharedAgent
    TTL = 1
    MaxRetries = 1
    MaxNow = 3
    MaxBack = 0
    MaxForced = 0
    MaxCrashes = 0
    MayClose = FALSE
    Files = {f1}
    MayForce = {}
    MayCancelRestore = FALSE
    Pace = "timely"
SYMMETRY SessionSymmetry
INVARIANTS
    SafeZoneHeld

    
CHECK_DEADLOCK FALSE
