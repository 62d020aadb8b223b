SPECIFICATION ReceiveSpec
CONSTANTS
    Wrap = 16
    Half = 8
    Slack = 4
    Kinds <- Plain
    Digit <- Keys
    Expected <- TwoFives
    Starts <- LowAndWrapping
    Echoed = {}
    Encrypted = {}
    Conceal = TRUE
    Copies = 2
    Horizon = 1
    MaxPlayed = 4
INVARIANT RecordingInOrder
CHECK_DEADLOCK FALSE
