\* Two gates, the first of which needs the database, two verifications and a bundle.
SPECIFICATION Spec
CONSTANTS
    NumGates = 2
    PostgresGates = {1}
    Paths = {"default", "bundle"}
    MaxRuns = 2
    MaxBundles = 1
    Checks <- MCChecks
    Truncated = Truncated
    None = None
INVARIANT GateReportPassed
CHECK_DEADLOCK FALSE
