SPECIFICATION AgentsFairSpec
CONSTANTS
    i1 = i1
    i2 = i2
    c1 = c1
    c2 = c2
    Invites <- TwoInvites
    CallIDs <- TwoIDs
    None = None
    Configs <- All
    NumVUs = 1
    Rows = 1
    Expires = 3
    Timeout = 2
    MaxFailures = 3
INVARIANTS
    BindingLasts
    ClientsExact
    SlotsExact
    EntryIsLive
PROPERTIES
    ServicesSettle
    ByeEndsCall
    UASSettles
\* A process that has been stopped stops.
CHECK_DEADLOCK FALSE
