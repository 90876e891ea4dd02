SPECIFICATION CodexSpec
CONSTANTS
    Preparers = {p1, p2, p3, p4}
    Nobody = Nobody
    Versions = {v1}
    MaxTogether = 2
    MaxFailures = 1
    c1 = c1
    c2 = c2
    Callers = {c1, c2}
    Loads <- Calls
SYMMETRY Interchangeable
INVARIANTS CacheIsSound Recovers ProvenBeforeRun EndsClean
CHECK_DEADLOCK FALSE
