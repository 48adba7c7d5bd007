SPECIFICATION FairSpec
CONSTANTS
    Jobs = {1, 2}
    w1 = w1
    w2 = w2
    c1 = c1
    Workers = {w1, w2}
    Clients = {c1}
    ClientOps = {"cancel", "retry", "restart", "execute"}
    MaxAttempts = 2
    BaseDelay = 1
    CapDelay = 1
    RetryAfters = {2}
    MaxRequests = 1
    MaxCrashes = 1
    MaxReseeds = 1
PROPERTIES JobsSettle
CHECK_DEADLOCK FALSE
