SPECIFICATION Spec
CONSTANTS
    Callers = {c1}
    Ops <- RefreshOnly
    Endings <- NoEnding
    Continuous = TRUE
    EventCapacity = 4
    WireCapacity = 2
    Sizes <- TwoExtents
    InitialSize = 1
    MaxCalls = 1
    MaxChanges = 1
    MaxNotices = 0
INVARIANTS PaintedHasPixels
CHECK_DEADLOCK FALSE
