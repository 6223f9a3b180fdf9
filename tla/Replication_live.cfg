SPECIFICATION FairSpec
CONSTANTS
    n1 = n1
    n2 = n2
    n3 = n3
    Node = {n1, n2, n3}
    Placement <- ThreeNodes
    Op = {a, b}
    Batch <- SingleOps
    CompactionThreshold = 2
    FrameCapacity = 6
    Resend = FALSE
    Dialed <- OneBack
    FlakyLink = {}
    LateFrames = FALSE
    Crashable = {}
    Wipeable = {}
    MaxFaults = 0
CHECK_DEADLOCK FALSE
INVARIANTS AcceptedOnMajority
PROPERTIES WithheldIsReleased FollowersConverge
