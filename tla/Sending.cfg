SPECIFICATION FairSpec
CONSTANTS
    p1 = p1
    p2 = p2
    NShards = 2
    Players <- Pair
    Frames <- OneFrame
    KeyPackets = 1
    Digits <- TwoDigits
    SeqRange = 4
    TsRange = 3
    Wrap = 8
    Half = 4
    Burst = 2
    Window = 4
    LastEra = 2
INVARIANTS
    CarriedOnce
    
    SenderExact
    IndexAgrees
PROPERTIES
    StreamsEnd
\* Streams end.
CHECK_DEADLOCK FALSE
