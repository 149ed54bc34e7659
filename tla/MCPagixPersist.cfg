\* Two workspaces, seven commands, three authorizations.
SPECIFICATION Spec
CONSTANTS
    w1 = w1   w2 = w2
    k1 = k1   k2 = k2   k3 = k3
    d1 = d1   d2 = d2
    o1 = o1   o2 = o2
    a1 = a1   a2 = a2   a3 = a3
    b1 = b1   b2 = b2   b3 = b3
    Workspaces = {w1, w2}
    Keys = {k1, k2, k3}
    Digests = {d1, d2}
    OperationIDs = {o1, o2}
    AuthorizationIDs = {a1, a2, a3}
    AuthorizationBytes = {b1, b2, b3}
    Commands <- MCCommands
    SeedRevisions = {0, 1}
    None = None
INVARIANTS
    NoDoubleSpend
    NoLostUpdate
    OutboxExplainsRevision
    AtomicCommit
    AnswersAgree
PROPERTIES
    ImplementsAuthorizedCommits
