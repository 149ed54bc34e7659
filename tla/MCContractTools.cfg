\* Every document type and the three suites: four component cases, three root
\* cases and five vectors; a validator that reports three findings at most.
SPECIFICATION Spec
CONSTANTS
    Refused = Refused
    MaximumFindings = 3
    MaximumSchemas = 2
    MaxHops = 3
    Documents <- MCDocuments
    Repositories <- MCRepositories
    Pinned = TRUE
    Iterations = 2
    ComponentCount = 4
    RootCount = 3
    VectorCount = 5
    MaxEdits = 3
INVARIANTS
    WrittenIsStable
    ValidatedIsBound
    IdentitySurvives
    LaunderedIsKnown
    RootIsAdmitted
    OutputIsTrue
    DigestsSeparate
CHECK_DEADLOCK FALSE
