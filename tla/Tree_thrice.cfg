SPECIFICATION Spec
CONSTANTS
    Client = {1}
    Budgets <- Thrice
CHECK_DEADLOCK FALSE
INVARIANT LinksFollowLog
