\* Two scheduled executions of one query
CONSTANTS
    None = None
    q1 = q1
    k1 = k1
    w1 = w1
    w2 = w2
    t1 = t1
    t2 = t2
    Queries = {q1}
    Keys = {k1}
    Workers = {w1, w2}
    TaskIds = {t1, t2}
    MaxClock = 1
    MaxAges <- MCMaxAges
    CleanupAge = 7
    CleanupCount = 1
    MaxReports = 3
SPECIFICATION Spec
INVARIANT EveryFailureCounted
