SPECIFICATION MCSpec
CONSTANTS
    p1 = p1
    p2 = p2
    p3 = p3
    Peers = {p1, p2, p3}
    Self = self
    MaxVal = 1
    alpha = 2
    beta = 1
    bucketSize = 2
    Quorums = {0, 1}
    ContextsEnd = TRUE
INVARIANTS
    NoSendAfterClose
    BestOfResult
    CorrectedHadWorse
PROPERTIES
    SearchEnds
