\* What is running when stop returns.
SPECIFICATION Spec
CONSTANTS
    Channels = {c1}
    Events = {e1, e2}
    Answers = {a1}
    BatchLimit = 2
    SliceAt = 3
    SliceFrom = 1
    MaxTurns = 2
INVARIANT StopWaits
CHECK_DEADLOCK FALSE
