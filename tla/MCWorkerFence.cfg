\* Three leases, two recovery epochs in any order, an expiry at time two.
SPECIFICATION FairSpec
CONSTANTS
    attempt = attempt
    other = other
    RecoveryEpochs = {1, 2}
    AttemptIDs = {attempt, other}
    LeaseEpochs = {1, 2}
    Digests = {d1}
    InitialFence <- MCInitialFence
    MaxGeneration = 3
    MaxTime = 2
INVARIANTS
    FenceIsNeverReissued
    OneCommitPerLease
    WithheldIsNeverReadable
PROPERTIES
    CancelIsForGood
    ResultGetsThrough
