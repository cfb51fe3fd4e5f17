SPECIFICATION ServerFairSpec
CHECK_DEADLOCK FALSE
CONSTANTS
    a = a
    b = b
    c = c
    Self = Self
    NoKey = NoKey
    Peers = {a, b, c}
    Remotes = {a, b}
    bucketSize = 2
    enableValues = TRUE
    enableProviders = TRUE
    MaxEvents = 2
    MaxRequests = 1
    MaxNamed = 1
INVARIANTS
    NotServedAsClient
    OnlyOriginators
    AnswersFit
PROPERTIES
    ModeFollows
    StreamsEnd
