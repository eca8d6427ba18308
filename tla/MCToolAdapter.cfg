\* A known tool, an unknown one, and a third call that comes handled or not,
\* with a message or another event anywhere between them.
SPECIFICATION FairSpec
CONSTANTS
    NCalls = 3
    Unknown = {2}
    Handled = {3}
    MaxOthers = 1
    MaxArgs = 2
    MaxOutput = 2
    Capacity = 1
    Streaming = FALSE
INVARIANTS
    YieldedBeforeRun
    WorksOnAllArgs
    OneResultPerCall
    NeverBothWait
PROPERTIES
    Implements
    StreamEnds
CHECK_DEADLOCK FALSE
