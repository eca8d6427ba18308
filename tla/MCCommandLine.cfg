\* Two channels a turn, the second unknown if it is a call; three turns.
SPECIFICATION Spec
CONSTANTS
    NChannels = 2
    Unknown = {2}
    MaxChunks = 1
    MaxLines = 2
    MaxTurns = 3
    SliceAt = 4
    SliceFrom = 2
INVARIANTS
    TypeOK
    TurnRecorded
    Paired
CHECK_DEADLOCK FALSE
