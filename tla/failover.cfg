SPECIFICATION Spec
CONSTANTS
    Providers = {"codex", "agy"}
    Resolve <- MCResolve
    Delivery <- MCDelivery
    Compacts = {}
    Words = {"a"}
    ErrorKinds = {"auth", "limit"}
    RefusalKinds = {"limit", "context"}
    Nature = {"no start", "talk"}
    MaxSends = 2
    MaxEpochs = 3
    MaxDowns = 0
    MaxChanges = 1
    MaxInbox = 2
    Spent <- MCNothing
CHECK_DEADLOCK FALSE
INVARIANT NotOnBench
PROPERTIES KeepsPromise UnfinishedFirst
