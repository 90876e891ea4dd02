CONSTANTS
    app = app
    lib = lib
    tui = tui
    cli = cli
    Repos = {app, lib}
    Changed = {app, lib}
    Rank <- MCRank
    Draft = TRUE
    Procs = {tui, cli}
    NoProc = NoProc
    Outside = {"base", "branch", "merge", "close", "ready"}
    MaxPRs = 2
SPECIFICATION FairSpec
INVARIANTS FactsAreTrue
PROPERTIES NoEffectWhenStale Implements Publishes
CHECK_DEADLOCK FALSE
