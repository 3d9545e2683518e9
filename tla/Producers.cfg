SPECIFICATION ProducerSpec
CONSTANTS
    Messages = {m1, m2, m3}
    InCap = 1
    OutCap = 1
    NoMessage = NoMessage
INVARIANT Matched
PROPERTY Settles
