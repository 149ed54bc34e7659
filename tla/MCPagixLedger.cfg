\* Two reservations offered eight times, four usage ids, costs up to five, and
\* amounts of four bits.
SPECIFICATION Spec
CONSTANTS
    w1 = w1   w2 = w2
    k1 = k1   k2 = k2
    d1 = d1   d2 = d2
    r1 = r1   r2 = r2
    u1 = u1   u2 = u2   u3 = u3   u4 = u4
    Workspaces = {w1, w2}
    Keys = {k1, k2}
    Digests = {d1, d2}
    ReservationIDs = {r1, r2}
    Generations = {1, 2}
    UsageIDs = {u1, u2, u3, u4}
    Offers <- MCOffers
    Reports <- MCReports
    MaxMicros = 7
    FinalCosts <- MCFinalCosts
    None = None
INVARIANTS
    BudgetHeld
    UsageCountedOnce
    KeysOwnReservations
PROPERTIES
    SettledCostIsFrozen
CHECK_DEADLOCK FALSE
