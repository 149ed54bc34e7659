\* Leases of a worker that one program passes on.
SPECIFICATION RelaySpec
CONSTANTS
    Refused = Refused
    MaximumFindings = 3
    MaxHops = 1
    Documents <- Leases
INVARIANT NothingIsNormalized
CHECK_DEADLOCK FALSE
