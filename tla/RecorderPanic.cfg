SPECIFICATION RecSpec
CONSTANTS
    Cap = 2
    MaxFrames = 2
    MaxTail = 1
INVARIANT
    NoPanic
CHECK_DEADLOCK FALSE
