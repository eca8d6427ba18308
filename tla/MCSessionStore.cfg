\* Two sessions, five messages; a branch of three or more loses its oldest.
SPECIFICATION FairSpec
CONSTANTS
    Sessions = {s1, s2}
    Messages = {m1, m2, m3, m4, m5}
    NullId = NullId
    SliceAt = 3
    SliceFrom = 1
INVARIANTS
    StoredRepresented
    EarlyStopSound
PROPERTIES
    LoadReturnsLastPut
    LoadTerminates
CHECK_DEADLOCK FALSE
