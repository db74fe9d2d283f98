SPECIFICATION ConvSpec
CONSTANTS
    Formats <- ManyFormats
    Colours <- ManyColours
    Screens <- ManyScreens
    Drags <- ManyDrags
    KnownKeys = {}
    Characters = {}
INVARIANTS ColourSurvives FrameFits WayLeadsToTheEnd
CHECK_DEADLOCK FALSE
