SPECIFICATION FairSpec
CONSTANTS
    Definitions = {d1}
    Failing = {}
    Schedulers = {s1, s2}
    Workers = {w1, w2}
    Clients = {c1, c2}
    Nothing = Nothing
    ScanLimit = 1
    MaxAttempts = 2
    BaseDelay = 1
    CapDelay = 1
    MaxSlots = 3
    MaxCrashes = 2
    MaxResolutions = 2
INVARIANTS TypeOK NoSlotLostOrEarly EffectOnce AttemptBudget
PROPERTIES ImplementsLedger FinishedIsFinal SlotsSettle
CHECK_DEADLOCK FALSE
