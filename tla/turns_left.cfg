SPECIFICATION ReopenSpec
CONSTANTS
    Providers = {"codex"}
    Resolve <- MCResolve
    Delivery <- MCDelivery
    Compacts = {"codex"}
    Words = {"a"}
    ErrorKinds = {"context"}
    RefusalKinds = {}
    Nature = {}
    MaxSends = 2
    MaxEpochs = 6
    MaxDowns = 0
    MaxChanges = 0
    MaxInbox = 2
    Spent <- MCNothing
CHECK_DEADLOCK FALSE
PROPERTY BusyEnds
