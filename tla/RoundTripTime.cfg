SPECIFICATION RtcpSpec
CONSTANTS
    a = a
    b = b
    Ends <- Both
    ClockRange = 8
    Offset <- Clocks
    Jitters = {0, 1}
    LastTime = 2
    MaxReports = 1
INVARIANT
    RTTAsDocumented
\* Calls end.
CHECK_DEADLOCK FALSE
