SPECIFICATION FairSpec
CONSTANTS
    Sizes <- RowAndSquare
    MaxPushes = 2
    MaxClients = 2
    Cap = 1
    Wrap = 3
    BusCap = 1
INVARIANTS PixelsAgree InputIsFound
PROPERTIES ShutdownEnds
CHECK_DEADLOCK FALSE
