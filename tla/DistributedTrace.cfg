SPECIFICATION Spec
CONSTANTS
    NaN = NaN
    Absent = Absent
    NoContext = NoContext
    Space = 4
    KnuthFactor = 7
    Names = {"a", "b"}
    TagLen <- TagLengths
    BadTags = {"bad"}
    PropagationExtractMaxSize = 13
    Hops = 3
    Styles <- StyleSet
    Samplings <- SamplingSet
    Entries <- EntrySet
    Answers <- AnswerSet
    Rates = {2, 4}
    Modes = {"disabled", "service", "full", "other"}
    SpanRules <- SpanRuleSet
    MaxTraces = 4
    MaxClock = 5
    MaxAnswers = 1
    MaxDelay = 2
INVARIANTS
    
    TagsArrive
    LimiterCounts
CHECK_DEADLOCK FALSE
