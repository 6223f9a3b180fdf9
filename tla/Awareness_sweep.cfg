SPECIFICATION Spec
CONSTANTS
    Client = {1, 2, 3}
    Key = {"cursor", "name", "colour"}
    Value = {1, 2}
    ActorOf <- MCActorOf
    AppOf <- MCAppOf
    VersionOf <- MCVersionOf
    Ttl <- MCTtl
    Throttle <- MCThrottle
    Grace = 1
    MaxKeys = 2
    Forever = 2
    Budgets <- MCBudgets
CHECK_DEADLOCK FALSE
INVARIANT PresenceAgrees
PROPERTIES GhostsGo DroppedForCause
