SPECIFICATION FairSpec
CONSTANTS
    Desktops <- AllDesktops
    Configs <- AllConfigs
INVARIANTS InStep NeverGuesses TruthfulEnd
PROPERTIES HandshakeEnds
CHECK_DEADLOCK FALSE
