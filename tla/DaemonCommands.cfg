SPECIFICATION FairSpec
CONSTANTS
    Connects = {p1, p2}
    Others = {s1}
    None = None
    Unread = Unread
    Timeouts <- AllTimeouts
    Mishaps <- AllMishaps
INVARIANTS Findable OneDaemon ReportsItsOwn NoOrphan
PROPERTIES AskedEnds
CHECK_DEADLOCK FALSE
