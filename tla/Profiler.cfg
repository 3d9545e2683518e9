SPECIFICATION FairSpec
CONSTANTS
    Types = {"cpu", "heap"}
    OutSize = 2
    MaxRetries = 2
    MaxStarts = 2
    MaxBatches <- ThreeThenOne
CHECK_DEADLOCK FALSE
INVARIANTS
    OneProfiler BatchesOrdered
PROPERTIES CPULast CallReturns
