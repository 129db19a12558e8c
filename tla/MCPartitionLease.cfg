CONSTANTS
    w1 = w1
    w2 = w2
    None = None
    Workers <- MCWorkers
    Workspaces <- TwoSpaces
    Window <- FullWindow
    Batch = 2
    LeaseFor = 2
    Concurrency = 1
    Skew <- FirstIsAhead
    MaxClock = 5
    MaxStops = 1

SPECIFICATION Spec

INVARIANT TypeOK
INVARIANT DefinitiveOwnership
INVARIANT OwnershipIsRecorded
PROPERTY ScannedAreServed
