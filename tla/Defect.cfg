SPECIFICATION Spec
CONSTANTS
    Tests = {t1}
    NoTest = NoTest
    Edits = {e1}
    Base = Base
    Marked = Marked
    None = None
    Kinds = {"single", "group"}
    Actions = {"analyze"}
    Defer = {TRUE}
    MaxAttempts = 2
    MaxRefreshes = 1
    MaxAnalyses = 2
    OverlapAt = {"reproducing"}
    NoCrashAt <- OnlyAtWork
    NoFailAt <- OnlyAgents
    NoEditAt <- OnlyIdle
INVARIANTS PackageWasTested FrozenWasFailing DecisionIsKept
CHECK_DEADLOCK FALSE
