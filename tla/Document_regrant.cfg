SPECIFICATION Spec
CONSTANTS
    Client = {1, 2}
    Key = {"k"}
    ZoneKey = {"k"}
    MaxTally = 2
    MaxDepth = 1
    Budgets <- RevokedTwice
CHECK_DEADLOCK FALSE
INVARIANT UndoRestores
