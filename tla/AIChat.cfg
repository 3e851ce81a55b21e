SPECIFICATION Spec
CONSTANTS
    Requests = {r1, r2}
    Sessions = {s1, s2}
    Messages = {m1, m2}
    Tokens = {t1}
    MaxAnswers = 3
    ActiveLimit = 1
    RateLimit = 1
    MaxFaults = 1
    None = None
SYMMETRY Symmetry
INVARIANTS
    Inv
    ActiveWithinLimit
PROPERTIES
    ClosedIsFinal
CHECK_DEADLOCK FALSE
