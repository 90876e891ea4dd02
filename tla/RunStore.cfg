SPECIFICATION Spec
CONSTANTS
    Procs = {cli, tui, worker}
    NoProc = NoProc
    Updates = {u1, u2, u3}
    NoUpdate = NoUpdate
PROPERTIES Implements
\* Once the run is deleted and every caller has noticed, nothing is left to do.
CHECK_DEADLOCK FALSE
