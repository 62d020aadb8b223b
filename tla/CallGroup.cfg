SPECIFICATION FairSpec
CONSTANTS
    l1 = l1
    l2 = l2
    l3 = l3
    s1 = s1
    s2 = s2
    A = l1
    B = l2
    Legs <- ThreeLegs
    Scripts <- TwoScripts
    Configs <- All
INVARIANTS
    CallCoversCopy
    FailedGroupIsOver
PROPERTIES
    NoLegForgotten
    GroupSettles
\* Groups end.
CHECK_DEADLOCK FALSE
