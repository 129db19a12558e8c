CONSTANTS
    None = None
    Editions <- MCEditions
    Tokens <- MCTokens
    Allowed <- MCAllowed
    Interval = 2
    Timeout = 2
    MaxBackoff = 5

SPECIFICATION Spec

INVARIANT TypeOK
INVARIANT CaughtUp
INVARIANT WithdrawnKeysAreRefused
INVARIANT RotationIsSeamless
