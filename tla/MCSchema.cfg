SPECIFICATION Spec
CONSTANTS
    Unions <- MCUnions
    Instances <- MCInstances
    Matches <- MCMatches
INVARIANTS
    Sound
    Exact
CHECK_DEADLOCK FALSE
