SPECIFICATION AgentSpec
CONSTANTS
    None = none
    Contents = {clean, edited}
    MaxSessions = 2
INVARIANTS LeavesNoTrace
PROPERTY EveryCallEnds
CHECK_DEADLOCK FALSE
