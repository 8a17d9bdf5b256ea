SPECIFICATION ReopenSpec
CONSTANTS
    Providers = {"claude", "agy"}
    Resolve <- MCResolve
    Delivery <- MCDelivery
    Compacts = {}
    Words = {"a"}
    ErrorKinds = {}
    RefusalKinds = {}
    Nature = {"exit"}
    MaxSends = 2
    MaxEpochs = 3
    MaxDowns = 1
    MaxChanges = 1
    MaxInbox = 2
    Spent <- MCMixes
CHECK_DEADLOCK FALSE
INVARIANTS TypeOK NoMessageLost OpenedOnce QueueMatchesDisk EndsMatchOpenings NoFalseIdle
PROPERTIES KeepsPromise AcceptedOpens BusyEnds
