SPECIFICATION Spec
CONSTANTS
    n1 = n1
    n2 = n2
    n3 = n3
    Node = {n1, n2}
    Placement <- TwoNodes
    Op = {a}
    Batch <- SingleOps
    CompactionThreshold = 1
    FrameCapacity = 2
    Resend = TRUE
    Dialed <- BothWays
    FlakyLink <- SecondToFirst
    LateFrames = TRUE
    Crashable = {n1}
    Wipeable = {n2}
    MaxFaults = 2
CHECK_DEADLOCK FALSE
INVARIANTS TypeOK HeadCountsOps EpochDurable
PROPERTIES EpochRefinement
