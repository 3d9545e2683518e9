SPECIFICATION Spec
CONSTANTS
    Callers = {c1, c2}
    MaxTokens = 3
    NsPerToken = 3
    TickPeriod = 2
    None = None
    MaxTime = 12
SYMMETRY Symmetry
CHECK_DEADLOCK FALSE
INVARIANTS
    TokensExact RateBounded
