SPECIFICATION FairSpec
CONSTANTS
    Files <- MCFiles
    Externals <- MCExternals
    Values <- MCValues
    Depth <- MCDepth
    Numerals = {"7"}
INVARIANTS
    OwnSection
    NoOrphan
PROPERTY
    SignalEnds
CHECK_DEADLOCK FALSE
