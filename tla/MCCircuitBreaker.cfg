CONSTANTS
    c1 = c1
    c2 = c2
    c3 = c3
    Calls <- ThreeCalls
    Threshold = 2
    Cooldown = 2
    MaxClock = 4
    MaxFailures = 3

SPECIFICATION Spec

INVARIANT TypeOK
INVARIANT OutageIsJustified
PROPERTY NoSendWhileOpen
PROPERTY BreakerHeals
