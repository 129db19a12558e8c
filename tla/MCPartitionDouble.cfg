CONSTANTS
    w1 = w1
    w2 = w2
    None = None
    Workers <- MCWorkers
    Workspaces <- TwoSpaces
    Window <- FullWindow
    Batch = 2
    LeaseFor = 1
    Concurrency = 1
    Skew <- NoSkew
    MaxClock = 2
    MaxStops = 0

SPECIFICATION Spec

INVARIANT NeverDoubleProcessed
