SPECIFICATION Spec
CONSTANTS
    f1 = f1
    j1 = j1
    j2 = j2
    s1 = s1
    c1 = c1
    o1 = o1
    o2 = o2
    s2 = s2
    Requests = {r1, r2}
    Users = {u1, u2}
    Workspaces = {w1}
    Forecasts = {f1}
    ForecastValues = {v1, v2}
    Windows <- SomeWindows
    MaxTime = 2
    MaxVersions = 2
    FeatureDefinitions = {f1}
    CompanyIds = {1, 2}
    Inputs = {i1, i2}
    Numbers = {1}
    Universe <- TwoVersions
    Capacity <- OneLevel
    MaxDefinitions = 2
    MaxRows = 2
    MaxScreenings = 1
    ImportJobs = {j1, j2}
    Config <- FullAndIncremental
    Answers <- HardAnswers
    MaxAttempt = 2
    Stocks = {1, 2}
    Histories <- SixDays
    Tactics <- EveryStrategy
    InitialCash = 100
    Commission = 1
    Friction = 4
    Delay = 1
    PositionLimit = 59
    ExposureLimit = 89
    Schedules = {s1}
    Workers = {k1, k2}
    Callers = {r1}
    DayLength = 1
    LastInstant = 1
    IdentifierValues = {v1}
    Entities = {e1, e2}
    Companies = {c1}
    Others = {o1, o2}
    EntityFacts <- SomeEntities
    RelationshipFacts <- SomeRelationships
    RecomputeKeys = {v1}
    Depth = 2
    Now = 1
    MaxRelationships = 2
    MaxProfiles = 1
    Processes = {"p", "q"}
    Attempts = {"a", "b", "c"}
    Keys <- TwoToOneAccount
    Home <- TwoProcesses
    Limits <- SmallLimits
    Concurrency = 2
    RateWindow = 2
    Patience = 1
    LastMoment = 2
    Archetypes <- ThreeArchetypes
    Unpromising = {"agriculture"}
    Folds = 3
INVARIANTS
    TypeOK
    CalibrationHasNoHindsight
    ScreeningsReplay
    CursorTellsWhatIsStored
    NewestSignalRules
    ResolutionsAgree
    AdmissionsAreBounded
    SlotsAreKept
    VerdictsAgree
    SchemaFollowsVersions
    CommandsComplete
PROPERTIES
    LastOwnerLeavesOnStaleReadsOnly
    DueTimesRunOnce
    
CHECK_DEADLOCK FALSE
