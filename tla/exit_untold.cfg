SPECIFICATION Spec
CONSTANTS
    Procs = {1, 2}
    Runners = {"r1", "r2"}
    Scenarios <- MCSwept
    MaxTimeouts = 1
    MaxFaults = 1
    MaxTurns = 2
CHECK_DEADLOCK FALSE
INVARIANT ExitNoticed
