SPECIFICATION Spec
CONSTANTS
    Plans = {p1}
    Defects = {d1, d2}
    NoDefect = NoDefect
    Actions = {analyze}
    MaxCandidates = 2
    PauseAfter = 2
    MaxRounds = 2
    MaxVersion = 2
    Outside = {"start", "delete"}
SYMMETRY Interchangeable
INVARIANTS StartedOnce LedgerExplainsClaims StopsAfterChange
