SPECIFICATION Spec
CONSTANTS
    n1 = n1
    n2 = n2
    n3 = n3
    Node = {n1, n2}
    Placement <- TwoNodes
    Op = {a, b, c}
    Batch <- SingleOps
    CompactionThreshold = 2
    FrameCapacity = 4
    Resend = FALSE
    Dialed <- BothWays
    FlakyLink <- PrimaryOut
    LateFrames = FALSE
    Crashable = {n2}
    Wipeable = {}
    MaxFaults = 2
CHECK_DEADLOCK FALSE
SYMMETRY OpSymmetry
INVARIANTS FullWatermarkIsIdentical
PROPERTIES NoOpForgotten
