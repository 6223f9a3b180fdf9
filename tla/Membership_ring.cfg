SPECIFICATION Spec
CONSTANTS
    n1 = n1
    n2 = n2
    n3 = n3
    Node = {n1, n2, n3}
    Seeds <- Full
    Acquainted <- AllButOne
    Unit <- OwnHosts
    Identified = {n1, n2, n3}
    Weight <- Ranking
    ReplicationFactor = 2
    SuspectAfter = 1
    DeadAfter = 2
    ReapAfter = 1
    Verifiers = 2
    IndirectProbes = 1
    Prompt = TRUE
    Mortal = {n1}
    MaxRounds = 1
    MaxFaults = 1
INVARIANT AdoptedFirstHand
PROPERTY OneLeader
