SPECIFICATION Spec
CONSTANTS
    Client = {1, 2}
    Budgets <- Revivals
CHECK_DEADLOCK FALSE
INVARIANT UndoReachesRevived
