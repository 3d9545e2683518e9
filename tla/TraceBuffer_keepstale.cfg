SPECIFICATION Spec
CONSTANTS
    Spans = {s1, s2, s3}
    Nil = Nil
    TraceMaxSize = 3
    Remote = FALSE
    DropP0s = TRUE
    ManualPriorities <- KeepOnly
    SamplerPriorities <- Auto
SYMMETRY Symmetry
CHECK_DEADLOCK FALSE
INVARIANT ManualKeepHolds
