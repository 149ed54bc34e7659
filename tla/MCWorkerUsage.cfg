\* Eight keys and eleven observations; MaxInt stands for math.MaxInt64.
SPECIFICATION UsageSpec
CONSTANTS
    a1 = a1   a2 = a2
    p1 = p1   p2 = p2
    o1 = o1   o2 = o2   o3 = o3
    Attempts = {a1, a2}
    Providers = {p1, p2}
    Observations = {o1, o2, o3}
    Usages <- MCUsages
    MaxInt = 7
    Missing = Missing
INVARIANTS
    UsageTypeOK
    TotalIsExact
    ProviderRequestBilledOnce
CHECK_DEADLOCK FALSE
