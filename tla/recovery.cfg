SPECIFICATION ReopenSpec
CONSTANTS
    Providers = {"claude", "codex"}
    Resolve <- MCResolve
    Delivery <- MCDelivery
    Compacts = {"codex"}
    Words = {"a"}
    ErrorKinds = {"context", "limit"}
    RefusalKinds = {}
    Nature = {}
    MaxSends = 1
    MaxEpochs = 6
    MaxDowns = 2
    MaxChanges = 0
    MaxInbox = 2
    Spent <- MCNothing
CHECK_DEADLOCK FALSE
INVARIANTS RecoveryCarried HandoffsBounded
PROPERTY RecoveryEnds
