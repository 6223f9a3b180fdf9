SPECIFICATION Spec
CONSTANTS
    Op = {a, b, x}
    a = a
    b = b
    x = x
    draft = draft
    Main = Main
    Branch = {draft, live}
    CompactionThreshold = 2
    MaxBatch = 2
    Name = {v}
    Tick = {1}
    Keep = 1
    Reuse = TRUE
    Tears = FALSE
    MaxFaults = 2
    MaxOrdinal = 2
    Author <- Authors
    ForkFrom <- MainOnly
    ReadFrom = {draft, live}
    CrashIn <- ForkVersionKind
    FailIn <- NoKinds
INVARIANT ServesHistory
SYMMETRY Symmetry
