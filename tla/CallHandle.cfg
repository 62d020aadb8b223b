\* Two script threads that hold, resume and hang up, and the timer, on a
\* streaming call; answers get lost.
SPECIFICATION FairSpec
CONSTANTS
    c1 = c1
    c2 = c2
    timer = timer
    Callers <- TwoCallers
    Holders <- TwoCallers
    Timer <- timer
    HasDuration = TRUE
    Workers <- StreamWorkers
    Finite <- StreamFinite
    AnswersLost = TRUE
    MaxVer = 3
INVARIANTS QuietWhenFinalizing OneOwner UpIsUsable HoldAgrees
PROPERTIES ImplementsLifecycle CallEnds
