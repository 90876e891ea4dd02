SPECIFICATION Spec
CONSTANTS
    None = none
    Defects = {d1, d2}
    Rounds = {timer, person}
    fix = fix
    feat = feat
    main = main
    release = release
    Requests = {fix, feat}
    Bases = {main, release}
    BaseOf <- MCBaseOf
    CodeBase = main
    Runs = {n1, n2}
    MaxEvents = 4
SYMMETRY Alike
INVARIANTS
    ApprovalIsAsked
    NothingForgotten
    RecordsTellTruth
CHECK_DEADLOCK FALSE
