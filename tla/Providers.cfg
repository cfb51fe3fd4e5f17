SPECIFICATION FairSpec
CONSTANTS
    k1 = k1
    k2 = k2
    p1 = p1
    p2 = p2
    Keys = {k1, k2}
    Provs = {p1, p2}
    Provides <- MCProvides
    NoTime = NoTime
    ProvideValidity = 0
    lruCacheSize = 1
    Failures = {"put", "delete", "query"}
    MaxTime = 2
INVARIANTS
    CacheCovers
PROPERTIES
    OnlyExpiredGo
    ExpiredCollected
