SPECIFICATION Spec
CONSTANTS
    a1 = a1
    a2 = a2
    s1 = s1
    r1 = r1
    r2 = r2
    i1 = i1
    i2 = i2
    i3 = i3
    Assets <- MCAssets
    Sector <- MCSector
    Bars <- MCBars
    Days = {1, 2}
    ClientOrderIds = {i1, i2, i3}
    OrderRequests <- MCTickets
    Sends <- MCSends
    CreationDay = 1
    ReasonsFit = 4
    Requests = {r1, r2}
    RuleSets <- MCRuleSets
    StartingCash = 40
    Commission = 2
    FrictionBps = 800
SYMMETRY Symmetric
INVARIANT FillsUpdateCash
CHECK_DEADLOCK FALSE
