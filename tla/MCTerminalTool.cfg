\* More lines than the pipe, the reader and the channel hold together.
SPECIFICATION FairSpec
CONSTANTS
    MaxLines = 4
    PipeSize = 1
    Capacity = 2
INVARIANTS
    OutputWhole
PROPERTIES
    CallEnds
    ChildEnds
CHECK_DEADLOCK FALSE
