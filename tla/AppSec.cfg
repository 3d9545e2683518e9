SPECIFICATION Spec
CONSTANTS
    Callers = {c1, c2}
    HTTPOps = {h}
    GRPCOps = {g}
    Receivers = {r1}
    None = None
    MaxEvents = 1
    MaxMessages = 2
    MaxRequests = 1
    MaxStarts = 2
SYMMETRY Symmetry
INVARIANTS
    NoUseAfterRelease
    NoOrphans
    EventsBounded
    NobodyStuck
CHECK_DEADLOCK FALSE
