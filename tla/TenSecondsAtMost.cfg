SPECIFICATION Spec
CONSTANTS
    Attempts = 3
    Polls = 4
    MaxTerminals = 2
    MaxChannels = 2
    MaxBurst = 3
    MaxStall = 2
INVARIANT TenSecondsAtMost
CHECK_DEADLOCK FALSE
