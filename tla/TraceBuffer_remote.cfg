SPECIFICATION Spec
CONSTANTS
    Spans = {s1, s2}
    Nil = Nil
    TraceMaxSize = 3
    Remote = TRUE
    DropP0s = FALSE
    ManualPriorities <- Manual
    SamplerPriorities <- Auto
SYMMETRY Symmetry
CHECK_DEADLOCK FALSE
INVARIANTS
    ChunkDecided
PROPERTY LockedPriorityStable
