SPECIFICATION Spec
CONSTANTS
    Programs = {"a", "b"}
    MaxCrashes = 1
    Program = "a"
    Users = {"u1", "u2"}
    Scenarios <- MCScenarios
    MaxCalls = 3
    MaxEvents = 2
    MaxStops = 1
CHECK_DEADLOCK FALSE
INVARIANT InOrder
