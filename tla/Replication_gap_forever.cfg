SPECIFICATION FairSpec
CONSTANTS
    n1 = n1
    n2 = n2
    n3 = n3
    Node = {n1, n2}
    Placement <- TwoNodes
    Op = {a, b}
    Batch <- SingleOps
    CompactionThreshold = 0
    FrameCapacity = 6
    Resend = FALSE
    Dialed <- BothWays
    FlakyLink <- PrimaryOut
    LateFrames = FALSE
    Crashable = {}
    Wipeable = {}
    MaxFaults = 2
CHECK_DEADLOCK FALSE
PROPERTIES FollowersConverge
