SPECIFICATION FairSpec
CONSTANTS
    Procs = {1, 2}
    Callers = {"c1", "c2"}
    Scenarios <- MCScenarios
    MaxLosses = 1
CHECK_DEADLOCK FALSE
INVARIANTS LoginKept NoneAfterShutdown FinishSeen ModelsFresh
PROPERTIES CallsReturn LoginEnds
