CONSTANTS
    w1 = w1
    w2 = w2
    None = None
    Messages <- MCMessages
    Workers <- MCWorkers
    Instants <- MCInstants
    Backoffs <- MCBackoffs
    LeaseFor = 1
    BatchSize = 1
    MaxAttempts = 2
    MaxLeases = 4

SPECIFICATION StoreSpec
SYMMETRY WorkerSymmetry

INVARIANT TypeOK
INVARIANT LeaseColumns
INVARIANT OneOutcomePerLease
INVARIANT SettledForGood
INVARIANT AttemptsCountFailures
INVARIANT BudgetLeft
PROPERTY NewestLeaseSettles
PROPERTY KeepsPromise
