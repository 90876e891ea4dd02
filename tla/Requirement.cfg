SPECIFICATION Spec
CONSTANTS
    Diffs = {d1, d2}
    Clean = Clean
    None = None
    Needs = {device}
    Defer = {TRUE, FALSE}
    MaxAttempts = 2
    MaxRecords = 1
    NoCrashAt = {"reset", "withdraw"}
    NoEditAt = {"testing", "tested"}
SYMMETRY Interchangeable
INVARIANTS PackageWasTested PackageWasReviewed FeedbackHeard ChecksAccounted
CHECK_DEADLOCK FALSE
