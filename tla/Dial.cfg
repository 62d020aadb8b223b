SPECIFICATION FairSpec
CONSTANTS
    Calls = {c1, c2}
    TopPort = 2
    Tries = 2
    Options <- Mixed
INVARIANTS
    LiveHandleIsWhole
    NoCrossTalk
    FailedDialIsQuiet
PROPERTY
    DialSettles
CHECK_DEADLOCK FALSE
