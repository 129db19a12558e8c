CONSTANTS
    w1 = w1
    w2 = w2
    None = None
    Messages <- MCMessages
    Workers <- MCWorkers
    Instants <- MCInstants
    Backoffs <- MCBackoffs
    Skew <- Synchronised
    Answers <- BatchAnswers
    LeaseFor = 1
    BatchSize = 2
    MaxAttempts = 2
    MaxLeases = 3
    MaxClock = 2
    MaxDispatches = 2
    MaxCrashes = 1
    DeliveredRetention = 1
    DeadLetterRetention = 2

SPECIFICATION Spec
SYMMETRY WorkerSymmetry
CHECK_DEADLOCK FALSE

INVARIANT WorkerTypeOK
INVARIANT AttemptsWereMade
INVARIANT OneHolder
INVARIANT DeliveredWasTaken
