SPECIFICATION MCSpec
CONSTANTS
    d1 = d1
    d2 = d2
    g1 = g1
    g2 = g2
    Dir = {d1, d2}
    Game = {g1, g2}
    Canonical <- MCCanonical
    Test = {t1, t2}
    MaxEdits = 3
    Caller = {c1, c2}
    Worker = {w1, w2}
    MaxCalls = 4
    Program = {m1, m2}
    Plan = {p1, p2}
    Unusable = Unusable
    Improvised = Improvised
    Readings = 2
    CandidateCount = 2
    MaxRequests = 6
    MaxActions = 2
CHECK_DEADLOCK FALSE
INVARIANTS
    StartDecided OwnAnswer OneWorker RunTraced
PROPERTIES
    CallsReturn
