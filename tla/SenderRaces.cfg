SPECIFICATION FairSpec
CONSTANTS
    c1 = c1
    c2 = c2
    s1 = s1
    s2 = s2
    NoSender = NoSender
    Free = Free
    Callers <- MCCallers
    Senders <- MCSenders
    MaxCalls = 1
    streamReuseTries = 0
    ContextsEnd = TRUE
INVARIANTS
    AnswerIsOwn
    MappedIsUsable
PROPERTY CallEnds
