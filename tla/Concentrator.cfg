SPECIFICATION FairSpec
CONSTANTS
    Spans = {s1, s2}
    Nil = Nil
    InSize = 1
    BucketSize = 2
    MaxTime = 5
    EndTimes <- TwoEnds
CHECK_DEADLOCK FALSE
INVARIANTS
    CountedOnce StopExports OnTimeTogether
PROPERTY StopReturns
