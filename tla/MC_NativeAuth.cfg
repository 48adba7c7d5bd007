SPECIFICATION Spec
CONSTANTS
    u1 = u1
    u2 = u2
    i1 = i1
    p1 = p1
    p2 = p2
    r1 = r1
    r2 = r2
    o1 = o1
    o2 = o2
    Nobody = Nobody
    Users = {u1, u2}
    Identifiers = {i1}
    Passwords = {p1, p2}
    Requests = {r1, r2}
    Operators = {o1, o2}
    SessionLimit = 1
    IdleTicks = 2
    AbsoluteTicks = 4
    TouchTicks = 1
    MaxTime = 4
    MaxIssued = 2
    MaxEnrollments = 2
SYMMETRY Symmetric
INVARIANTS TypeOK SessionsBounded UnrevokedSessionsAreCurrent NoLostPasswordChange
PROPERTIES RevocationIsFinal UseNeverShortensSession IssuedToHolder
CHECK_DEADLOCK FALSE
