SPECIFICATION Spec
CONSTANTS
    p1 = p1
    p2 = p2
    p3 = p3
    p4 = p4
    p5 = p5
    NoPeer = NoPeer
    Peers <- MCPeers
    ID <- MCID
    Local <- MCLocal
    Width = 4
    PrefixBits = 3
    LastKey = 15
    KeyHash <- MCKeyHash
    BucketSize = 2
    MaxLatency = 5
    Group <- MCGroup
    MaxPerCpl = 2
    MaxForTable = 2
    Adder = "addPeer"
    KMaps <- FallingK
    RTTs = {0}
    LatencyMaps <- Latencies
    UseFilter = TRUE
    Connected = {TRUE, FALSE}
    Whitelist = {p1}
INVARIANTS
    DiversityQuota
    NearestComplete
    RefreshHitsBucket
PROPERTY ImplementsOutline
