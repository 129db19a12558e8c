CONSTANTS
    w1 = w1
    w2 = w2
    None = None
    Workers <- MCWorkers
    Workspaces <- ThreeSpaces
    Window <- FullWindow
    Batch = 2
    LeaseFor = 2
    Concurrency = 1
    Skew <- NoSkew
    MaxClock = 3
    MaxStops = 0

SPECIFICATION Spec

PROPERTY EveryWorkspaceIsServed
