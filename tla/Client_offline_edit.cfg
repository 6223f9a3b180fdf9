SPECIFICATION Spec
CONSTANTS
    c1 = c1
    c2 = c2
    Client = {c1, c2}
    MaxEdits = 1
    MaxDrops = 2
    MaxCompactions = 1
    CompactionThreshold = 0
    SnapshotOverOutbox = TRUE
    Op <- Ops
    Refusable <- Nobody
CHECK_DEADLOCK FALSE
INVARIANT Converged
