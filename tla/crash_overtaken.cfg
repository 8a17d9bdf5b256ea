SPECIFICATION Spec
CONSTANTS
    Providers = {"claude", "agy"}
    Resolve <- MCResolve
    Delivery <- MCDelivery
    Compacts = {}
    Words = {"a"}
    ErrorKinds = {}
    RefusalKinds = {}
    Nature = {"exit", "race"}
    MaxSends = 2
    MaxEpochs = 3
    MaxDowns = 0
    MaxChanges = 0
    MaxInbox = 2
    Spent <- MCNothing
CHECK_DEADLOCK FALSE
PROPERTY UnfinishedFirst
