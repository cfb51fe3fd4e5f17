SPECIFICATION MCSpec
CONSTANTS
    p1 = p1
    p2 = p2
    p3 = p3
    a = a
    b = b
    Peers = {p1, p2, p3}
    Self = self
    Provs = {a, b}
    NoProv = NoProv
    alpha = 2
    beta = 1
    bucketSize = 2
    Counts = {0, 1, 2}
    ContextsEnd = TRUE
INVARIANT AllOfResultFound
PROPERTIES
    KeepsPromise
    ProviderSearchEnds
