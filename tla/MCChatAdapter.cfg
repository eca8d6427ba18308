SPECIFICATION Spec
CONSTANTS
    Deltas <- MCDeltas
    Indexes = {0, 1}
    MaxDeltas = 4
    MaxBranch = 4
INVARIANTS
    TypeOK
    RequestFaithful
    ArgumentsFaithful
    TextFaithful
    RepliesWhole
PROPERTIES
    ProviderImplements
    ChatImplements
CHECK_DEADLOCK FALSE
