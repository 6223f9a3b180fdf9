SPECIFICATION Spec
CONSTANTS
    Client = {1, 2}
    Budgets <- Everything
CHECK_DEADLOCK FALSE
INVARIANTS Converged Rooted ShownOnce UndoRestores
