SPECIFICATION Spec
CONSTANTS
    Updaters = {u1, u2}
    Releases <- TwoReleases
    Parts = 2
    MaxRuns = 1
INVARIANT AlwaysWhole
CHECK_DEADLOCK FALSE
