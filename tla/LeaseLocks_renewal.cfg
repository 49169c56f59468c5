SPECIFICATION LeaseSpec
CONSTANTS
    Sessions = {s1, s2}
    Nobody = Nobody
    agent = agent
    AgentOf <- SharedAgent
    TTL = 2
    MaxRetries = 1
    MaxNow = 5
    MaxBack = 0
    MaxForced = 0
    MaxCrashes = 1
    MayClose = FALSE
SYMMETRY SessionSymmetry
INVARIANTS
    HolderHolds
PROPERTIES
    KeepsPromise
CHECK_DEADLOCK FALSE
