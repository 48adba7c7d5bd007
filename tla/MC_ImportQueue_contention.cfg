SPECIFICATION Spec
CONSTANTS
    Jobs = {1}
    w1 = w1
    w2 = w2
    c1 = c1
    c2 = c2
    Workers = {w1, w2}
    Clients = {c1, c2}
    ClientOps = {"cancel", "retry", "restart", "execute"}
    MaxAttempts = 3
    BaseDelay = 1
    CapDelay = 1
    RetryAfters = {2}
    MaxRequests = 3
    MaxCrashes = 1
    MaxReseeds = 1
SYMMETRY Symmetric
INVARIANTS TypeOK RunningWorkerOwnsRow AttemptBudget
PROPERTIES ImplementsBoard CancelBeforeClaimWins
CHECK_DEADLOCK FALSE
