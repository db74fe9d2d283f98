SPECIFICATION FairSpec
CONSTANTS
    Chunks = 2
    PipeCap = 1
    MaxTicks = 4
    MaxEvents = 2
    MaxStops = 1
INVARIANTS WholeFrames EndsWithDesktop
PROPERTIES Finalised
CHECK_DEADLOCK FALSE
