SPECIFICATION ReceiveFairSpec
CONSTANTS
    Wrap = 16
    Half = 8
    Slack = 4
    Kinds <- PlainOrSecure
    Digit <- Keys
    Expected <- TwoFives
    Starts <- LowAndWrapping
    Echoed <- Echo
    Encrypted <- Secure
    Conceal = TRUE
    Copies = 2
    Horizon = 1
    MaxPlayed = 4
INVARIANTS
    ReceiveTypeOK
    InStreamOrder
    OnTimeIsRecorded
    StatsExact
    DigitsExact
PROPERTY
    BufferLeaves
CHECK_DEADLOCK FALSE
