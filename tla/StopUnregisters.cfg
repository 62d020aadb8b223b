SPECIFICATION UASSpec
CONSTANTS
    i1 = i1
    i2 = i2
    c1 = c1
    c2 = c2
    Invites <- TwoInvites
    CallIDs <- TwoIDs
    None = None
    Configs <- All
INVARIANT
    StopUnregisters
\* A process that has been stopped stops.
CHECK_DEADLOCK FALSE
