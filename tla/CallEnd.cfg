SPECIFICATION FairSpec
CONSTANTS
    Cap = 2
    MaxFrames = 6
    MaxTail = 3
    a = a
    b = b
    Ends <- Both
    ClockRange = 8
    Offset <- Clocks
    Jitters = {1}
    LastTime = 2
    MaxReports = 1
INVARIANTS
    FramesAccounted
    Drained
    SnapshotCoversPlayed
    AnswerIsWhole
PROPERTIES
    RecorderSettles
    RTCPEnds
\* Calls end.
CHECK_DEADLOCK FALSE
