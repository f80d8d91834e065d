\* Two channels, two terminals, three packets in a poll.
SPECIFICATION FairSpec
CONSTANTS
    Attempts = 3
    Polls = 4
    MaxTerminals = 2
    MaxChannels = 2
    MaxBurst = 3
    MaxStall = 2
INVARIANTS TypeOK ExitStatusTrue ChildFits
PROPERTIES ChildKept  SessionEnds
CHECK_DEADLOCK FALSE
