SPECIFICATION FairSpec
CONSTANTS
    Tasks = {t1, t2}
    Paths = {p1, p2}
    Ops <- DrainOps
    MaxConns = 2
    NoTask = NoTask
INVARIANTS
    ClosedMeansClosed
PROPERTIES
    EntryLeavesClosed
    ShutdownEnds
