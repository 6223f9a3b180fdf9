SPECIFICATION Spec
CONSTANTS
    Client = {1, 2, 3, 4}
    ZoneKey = {"z"}
    MaxTally = 3
    Edges <- MCEdges
    RootType = "Doc"
    ChildType <- MCChildType
    Identity <- MCIdentity
    Tiers <- MCTiers
    ZoneVerdict <- MCZoneVerdict
    Selector <- MCSelector
    Version <- MCVersion
    Budgets <- MCBudgets
CHECK_DEADLOCK FALSE
INVARIANTS JoinsAgree LiveMatchesFresh NoWriteSwallowed
