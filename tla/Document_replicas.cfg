SPECIFICATION Spec
CONSTANTS
    Client = {1, 2}
    Key = {"k"}
    ZoneKey = {"k"}
    MaxTally = 2
    MaxDepth = 1
    Budgets <- Everything
CHECK_DEADLOCK FALSE
INVARIANTS ShowsItsOps SnapshotFaithful AllOrNothing MintsUnique UndoRestores
