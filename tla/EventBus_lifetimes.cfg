SPECIFICATION FairSpec
CONSTANTS
    Publishers = {p1, p2}
    Handlers <- TwoHandlers
    MaxEvents = 2
    QueueMax = 1
    MaxPending = 2
    MaxDlq = 1
    HasDlq = TRUE
    MaxStarts = 2
INVARIANTS
    EventsAccounted
    StoppedMeansQuiet
PROPERTIES
    StopReachesStopped
    PublishEnds
CHECK_DEADLOCK FALSE
