SPECIFICATION FairSpec
CONSTANTS
    KnownKeys <- MCKeys
    Characters <- MCCharacters
    r1 = r1
    r2 = r2
    Requests <- MCRequests
    Bodies <- MCBodies
    Pacing <- MCPacing
    Sizes <- MCSizes
    InitialSize <- MCInitialSize
    InputSettle = 1
    IncrementalWait = 1
    AfterInputWait = 4
    FrameTimeout = 3
    Redraw = 0
    UpdatePeriod = 2
    Mishaps <- MCMishaps
    MaxResizes = 1
INVARIANTS NeverBraided CursorIsTrue PressesInPlace NothingHeld ScreenshotShowsInput BlackOnlyAfterResize InputRemembered
PROPERTIES RequestsEnd
