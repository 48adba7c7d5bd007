SPECIFICATION Spec
CONSTANTS
    Jobs = {1}
    w1 = w1
    w2 = w2
    c1 = c1
    Workers = {w1, w2}
    Clients = {c1}
    ClientOps = {"cancel", "retry"}
    MaxAttempts = 2
    BaseDelay = 1
    CapDelay = 1
    RetryAfters = {2}
    MaxRequests = 1
    MaxCrashes = 0
    MaxReseeds = 0
PROPERTIES SucceededIsFinal
CHECK_DEADLOCK FALSE
