\* Two events in two encodings, one key that two requests and outcomes race for.
SPECIFICATION FairInboxSpec
CONSTANTS
    MaxEvents = 2
    Encodings = {b1, b2}
    Operations = {op}
    Keys = {k}
    RequestBytes = {d1, d2}
    Outcomes = {x1, x2}
    None = None
INVARIANTS
    NoGapOnRecord
    AcknowledgedIsRecorded
    FirstOutcomeWins
PROPERTIES
    IsOrderedDelivery
