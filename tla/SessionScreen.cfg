SPECIFICATION FairSpec
CONSTANTS
    Callers = {c1}
    Ops <- AllOps
    Endings <- NoEnding
    Continuous = TRUE
    EventCapacity = 2
    WireCapacity = 2
    Sizes <- TwoExtents
    InitialSize = 1
    MaxCalls = 1
    MaxChanges = 1
    MaxNotices = 0
INVARIANTS NeverStalls BlackIsAskedFor RefreshIsFresh
PROPERTIES ScreenCatchesUp
CHECK_DEADLOCK FALSE
