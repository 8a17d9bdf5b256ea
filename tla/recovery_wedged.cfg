SPECIFICATION ReopenSpec
CONSTANTS
    Providers = {"claude", "codex"}
    Resolve <- MCResolve
    Delivery <- MCDelivery
    Compacts = {"codex"}
    Words = {"a"}
    ErrorKinds = {"context"}
    RefusalKinds = {}
    Nature = {}
    MaxSends = 1
    MaxEpochs = 6
    MaxDowns = 1
    MaxChanges = 1
    MaxInbox = 2
    Spent <- MCNothing
CHECK_DEADLOCK FALSE
PROPERTY BusyEnds
