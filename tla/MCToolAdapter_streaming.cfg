\* Tools that write before they have read everything.
SPECIFICATION FairSpec
CONSTANTS
    NCalls = 1
    Unknown = {}
    Handled = {}
    MaxOthers = 0
    MaxArgs = 2
    MaxOutput = 2
    Capacity = 1
    Streaming = TRUE
PROPERTY StreamEnds
CHECK_DEADLOCK FALSE
