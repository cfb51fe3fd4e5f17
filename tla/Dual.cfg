SPECIFICATION DualFairSpec
CONSTANTS
    a = a
    b = b
    c = c
    Provs = {a, b, c}
    NoProv = NoProv
    Counts = {0, 1, 2}
    ContextsEnd = TRUE
    Dhts = {"wan", "lan"}
    Targets = {a, b}
INVARIANTS
    NothingHeldBack
    AnswerNotLost
    AnnouncedToAll
PROPERTIES
    MergeKeepsPromise
    DualEnds
