SPECIFICATION LeaseSpec
CONSTANTS
    Sessions = {s1, s2}
    Nobody = Nobody
    agent = agent
    AgentOf <- SharedAgent
    TTL = 1
    MaxRetries = 1
    MaxNow = 3
    MaxBack = 1
    MaxForced = 1
    MaxCrashes = 0
    MayClose = TRUE
SYMMETRY SessionSymmetry

    
PROPERTIES
    ForeignLeaseUntouched
CHECK_DEADLOCK FALSE
