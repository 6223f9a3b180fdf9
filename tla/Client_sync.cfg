SPECIFICATION FairSpec
CONSTANTS
    c1 = c1
    c2 = c2
    Client = {c1, c2}
    MaxEdits = 2
    MaxDrops = 1
    MaxCompactions = 1
    CompactionThreshold = 0
    SnapshotOverOutbox = FALSE
    Op <- Ops
    Refusable <- OnlySecond
INVARIANT NoEditLost
INVARIANT CursorNeverSkips
INVARIANT Converged
PROPERTY OutboxDrains
CHECK_DEADLOCK FALSE
