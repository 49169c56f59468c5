SPECIFICATION FairSpec
CONSTANTS
    Calls = {c1, c2}
    Keys = {k1}
    KeyOf <- SameKey
    MaxEntries = 1
    TTL = 1
    NoCall = NoCall
    c1 = c1
    c2 = c2
CONSTRAINT
    C1First
INVARIANTS
    NoUnapprovedRun
    FirstAnswerCounts
    PromptSettled
    KeyFollowsCall
PROPERTIES
    GateReturns
CHECK_DEADLOCK FALSE
