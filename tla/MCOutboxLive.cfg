CONSTANTS
    w1 = w1
    w2 = w2
    None = None
    Messages <- OneMessage
    Workers <- MCWorkers
    Instants <- MCInstants
    Backoffs <- MCBackoffs
    Skew <- Synchronised
    Answers <- FitAnswers
    LeaseFor = 2
    BatchSize = 1
    MaxAttempts = 2
    MaxLeases = 9
    MaxClock = 20
    MaxDispatches = 9
    MaxCrashes = 2
    DeliveredRetention = 1
    DeadLetterRetention = 2

SPECIFICATION PromptSpec

PROPERTY EventuallySettled
