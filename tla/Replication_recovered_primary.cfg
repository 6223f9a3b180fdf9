SPECIFICATION Spec
CONSTANTS
    n1 = n1
    n2 = n2
    n3 = n3
    Node = {n1, n2, n3}
    Placement <- ThreeNodes
    Op = {a}
    Batch <- SingleOps
    CompactionThreshold = 0
    FrameCapacity = 3
    Resend = FALSE
    Dialed <- SecondLeads
    FlakyLink <- SecondToFirst
    LateFrames = FALSE
    Crashable = {}
    Wipeable = {}
    MaxFaults = 0
CHECK_DEADLOCK FALSE
INVARIANTS SettledLeaderHoldsAccepted
