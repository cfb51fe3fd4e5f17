SPECIFICATION Spec
CONSTANTS
    p1 = p1
    p2 = p2
    p3 = p3
    p4 = p4
    p5 = p5
    NoPeer = NoPeer
    Peers <- FewPeers
    ID <- MCID
    Local <- MCLocal
    Width = 4
    PrefixBits = 3
    LastKey = 15
    KeyHash <- MCKeyHash
    BucketSize = 2
    MaxLatency = 5
    Group <- SplitGroup
    MaxPerCpl = 1
    MaxForTable = 1
    Adder = "addPeerKadRTT"
    KMaps <- EvenK
    RTTs = {1, 2}
    LatencyMaps <- Near
    UseFilter = TRUE
    Connected = {TRUE}
    Whitelist = {}
INVARIANT DiversityQuota
