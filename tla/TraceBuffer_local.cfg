SPECIFICATION Spec
CONSTANTS
    Spans = {s1, s2, s3}
    Nil = Nil
    TraceMaxSize = 2
    Remote = FALSE
    DropP0s = TRUE
    ManualPriorities <- DropOnly
    SamplerPriorities <- AutoKeep
SYMMETRY Symmetry
CHECK_DEADLOCK FALSE
INVARIANTS
    Accounted ErrorChunkDecided LockedByRoot ChunkDecisionMaker DecisionMakerPositive
