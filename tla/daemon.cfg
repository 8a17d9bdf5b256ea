SPECIFICATION FairSpec
CONSTANTS
    Conns = {"c1", "c2"}
    Plans <- MCPlans
    Limit = 2
    MaxRequests = 2
    MaxEvents = 1
    MaxFaults = 1
CHECK_DEADLOCK FALSE
INVARIANTS OneConductor LogKept NoGap ReapedAlone NoneLeft ExitsClean
PROPERTIES Answered EndIsTold PutDown
