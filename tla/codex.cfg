SPECIFICATION FairSpec
CONSTANTS
    Procs = {1, 2}
    Runners = {"r1", "r2"}
    Scenarios <- MCScenarios
    MaxTimeouts = 1
    MaxFaults = 1
    MaxTurns = 2
CHECK_DEADLOCK FALSE
INVARIANTS ExitToldUnlessSwept CallsReturnUnlessSwept EndComes
PROPERTIES NoOrphans AsksDeclined
