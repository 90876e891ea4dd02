CONSTANTS
    tui = tui
    cli = cli
    Draft = FALSE
    Procs = {tui, cli}
    NoProc = NoProc
    Outside = {"base", "branch", "merge", "close", "ready"}
    MaxPRs = 3
SPECIFICATION FairSpec
PROPERTIES Implements CommentIsRetried
CHECK_DEADLOCK FALSE
