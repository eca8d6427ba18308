\* Two channels, three messages, a reply; a branch of three loses one.
SPECIFICATION FairSpec
CONSTANTS
    Channels = {c1, c2}
    Events = {e1, e2, e3}
    Answers = {a1}
    BatchLimit = 2
    SliceAt = 3
    SliceFrom = 1
    MaxTurns = 2
INVARIANTS
    Accounted
    StoredInOrder
PROPERTIES
    NoLostUpdate
    EventsSettle
    StopSeals
CHECK_DEADLOCK FALSE
