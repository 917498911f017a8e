CONSTANTS
    None = None
    q1 = q1
    q2 = q2
    k1 = k1
    k2 = k2
    w1 = w1
    w2 = w2
    t1 = t1
    t2 = t2
    Queries = {q1, q2}
    Keys = {k1, k2}
    Workers = {w1, w2}
    TaskIds = {t1, t2}
    MaxClock = 1
    MaxAges <- MCMaxAges
    CleanupAge = 0
    CleanupCount = 1
    MaxReports = 3
SPECIFICATION Spec
SYMMETRY Symmetry
INVARIANTS
    TypeOK
    LatestExists
    LatestOfOwnKey
    SerialCountsExact
    NotifiedFailuresHappened
