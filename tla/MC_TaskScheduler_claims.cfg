SPECIFICATION FairSpec
CONSTANTS
    Definitions = {d1, d2}
    Failing = {d1}
    Schedulers = {s1}
    Workers = {w1, w2}
    Clients = {c1}
    Nothing = Nothing
    ScanLimit = 2
    MaxAttempts = 2
    BaseDelay = 1
    CapDelay = 1
    MaxSlots = 1
    MaxCrashes = 1
    MaxResolutions = 1
PROPERTIES ClaimsAreAccountedFor
CHECK_DEADLOCK FALSE
