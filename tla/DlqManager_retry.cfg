SPECIFICATION FairSpec
CONSTANTS
    Rows = {r1}
    Workers = {w1, w2}
    NoRow = NoRow
    MaxAttempts = 2
    Base = 2
    Stale = 2
    RetryWait = 1
    MaxMissing = 1
    MaxFaults = 4
    Prompt = TRUE
    LateStart = TRUE
INVARIANTS
    RowEndEarned
    RepeatsAccounted
PROPERTIES
    RowSettles
CHECK_DEADLOCK FALSE
