SPECIFICATION Spec
CONSTANTS
    Client = {1, 2}
    MaxOps = 4
    MaxItems = 4
    MaxRun = 2
    MaxTombstoneRun = 1
CHECK_DEADLOCK FALSE
INVARIANTS Convergence ShowsItsOps MergeIsUnion NoInterleaving
