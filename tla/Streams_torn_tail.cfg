SPECIFICATION Spec
CONSTANTS
    Op = {a, b, x}
    a = a
    b = b
    x = x
    draft = draft
    Main = Main
    Branch = {draft, live}
    CompactionThreshold = 2
    MaxBatch = 2
    Name = {v}
    Tick = {1}
    Keep = 1
    Reuse = FALSE
    Tears = TRUE
    MaxFaults = 1
    MaxOrdinal = 2
    Author <- Authors
    ForkFrom <- MainOnly
    ReadFrom = {draft, live}
    CrashIn <- AppendKinds
    FailIn <- NoKinds
INVARIANT AppendsDurable
SYMMETRY Symmetry
