SPECIFICATION Spec
CONSTANTS
    n1 = n1
    n2 = n2
    n3 = n3
    Node = {n1, n2}
    Placement <- TwoNodes
    Op = {a, b, c}
    Batch <- SingleOps
    CompactionThreshold = 0
    FrameCapacity = 2
    Resend = FALSE
    Dialed <- BothWays
    FlakyLink = {}
    LateFrames = FALSE
    Crashable = {}
    Wipeable = {}
    MaxFaults = 0
CHECK_DEADLOCK FALSE
INVARIANTS AcceptedOnMajority
