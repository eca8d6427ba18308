\* Half of a long branch goes, as in the program; with by_branch_id.
SPECIFICATION ApiSpec
CONSTANTS
    Sessions = {s1}
    Messages = {m1, m2, m3, m4, m5}
    NullId = NullId
    SliceAt = 4
    SliceFrom = 2
INVARIANT HistoryLinked
CHECK_DEADLOCK FALSE
