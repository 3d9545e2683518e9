SPECIFICATION FairSpec
CONSTANTS
    Keys = {"a", "b"}
    Values = {1}
    Nil = Nil
    MaxStarts = 2
    MaxUpdates = 2
    MaxBeats = 1
CHECK_DEADLOCK FALSE
INVARIANTS
    RunsBracketed MetricsReported
PROPERTY MetricsFlushed
