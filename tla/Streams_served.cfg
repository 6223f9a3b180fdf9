SPECIFICATION Spec
CONSTANTS
    Op = {a, b, x}
    a = a
    b = b
    x = x
    draft = draft
    Main = Main
    Branch = {draft, live}
    CompactionThreshold = 2
    MaxBatch = 1
    Name = {v}
    Tick = {1, 2}
    Keep = 1
    Reuse = FALSE
    Tears = FALSE
    MaxFaults = 1
    MaxOrdinal = 2
    Author <- Authors
    ForkFrom <- MainOnly
    ReadFrom = {draft}
    CrashIn <- Crashes
    FailIn <- CleanFailures
INVARIANT ServesHistory
INVARIANT RestartInvisible
INVARIANT VersionsFaithful
SYMMETRY Symmetry
