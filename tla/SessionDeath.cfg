SPECIFICATION FairSpec
CONSTANTS
    Callers = {c1}
    Ops <- AllOps
    Endings <- AllEndings
    Continuous = FALSE
    EventCapacity = 4
    WireCapacity = 2
    Sizes <- TwoExtents
    InitialSize = 1
    MaxCalls = 1
    MaxChanges = 1
    MaxNotices = 1
INVARIANTS DeathAnnouncedOnce DeathReachesEveryWaiter
PROPERTIES RefreshEnds TasksEnd KeepsPromise
CHECK_DEADLOCK FALSE
