\* The comment of WaitDone: it returns when a BYE is received.
SPECIFICATION FairSpec
CONSTANTS
    c1 = c1
    c2 = c2
    timer = timer
    Callers <- OneCaller
    Holders <- NoCaller
    Timer <- timer
    HasDuration = FALSE
    Workers <- EchoWorkers
    Finite <- NoneFinite
    AnswersLost = FALSE
    MaxVer = 0
PROPERTY RemoteByeEnds
\* An untimed call really stops when every script thread waits for its end.
CHECK_DEADLOCK FALSE
