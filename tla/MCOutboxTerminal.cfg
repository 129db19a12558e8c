CONSTANTS
    w1 = w1
    w2 = w2
    None = None
    Messages <- OneMessage
    Workers <- OneWorker
    Instants <- MCInstants
    Backoffs <- MCBackoffs
    Skew <- OneClock
    Answers <- AllAnswers
    LeaseFor = 2
    BatchSize = 1
    MaxAttempts = 2
    MaxLeases = 3
    MaxClock = 4
    MaxDispatches = 3
    MaxCrashes = 0
    DeliveredRetention = 1
    DeadLetterRetention = 2

SPECIFICATION Spec
CHECK_DEADLOCK FALSE

PROPERTY TerminalDeadLetters
