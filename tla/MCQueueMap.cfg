\* Two threads, two keys, three values, as many channels.
SPECIFICATION FairSpec
CONSTANTS
    Keys = {k1, k2}
    Producers = {p1, p2}
    Values = {v1, v2, v3}
    Chans = {c1, c2, c3}
    NoChan = NoChan
    NoKey = NoKey
    RecvLimit = 2
INVARIANTS
    SingleReceiver
    LiveReceiverMapped
    NoEntryLeaks
    FinishedEmpty
    Accounted
PROPERTIES
    Implements
    EnqueueReturns
CHECK_DEADLOCK FALSE
