SPECIFICATION Spec
CONSTANTS
    Updaters = {u1}
    Releases <- ManyReleases
    Parts = 2
    MaxRuns = 3
INVARIANTS AlwaysWhole SaysWhatItDid
PROPERTIES NeverOlder
CHECK_DEADLOCK FALSE
