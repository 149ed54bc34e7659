\* All operations in turn, five attempts with two faults and one change by others.
SPECIFICATION FairSpec
CONSTANTS
    MaximumResponseBody = 2
    Missing = Missing
    MaxAttempts = 5
    MaxFaults = 2
    MaxMoves = 1
INVARIANTS
    AppliedOnce
    DocumentIsProof
    ServiceIsUnderstood
PROPERTIES
    StaleIsFinal
    GetsThrough
CHECK_DEADLOCK FALSE
