\* The instance of MCWorkerUsage.cfg, against the undercount the tests rule out.
SPECIFICATION UsageSpec
CONSTANTS
    a1 = a1   a2 = a2
    p1 = p1   p2 = p2
    o1 = o1   o2 = o2   o3 = o3
    Attempts = {a1, a2}
    Providers = {p1, p2}
    Observations = {o1, o2, o3}
    Usages <- MCUsages
    MaxInt = 7
    Missing = Missing
INVARIANTS
    NoUndercount
CHECK_DEADLOCK FALSE
