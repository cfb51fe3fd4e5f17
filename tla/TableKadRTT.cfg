SPECIFICATION Spec
VIEW NoAnswers
CONSTANTS
    p1 = p1
    p2 = p2
    p3 = p3
    p4 = p4
    p5 = p5
    NoPeer = NoPeer
    Peers <- FewPeers
    ID <- MCID
    Local <- MCLocal
    Width = 4
    PrefixBits = 3
    LastKey = 15
    KeyHash <- MCKeyHash
    BucketSize = 2
    MaxLatency = 5
    Group <- MCGroup
    MaxPerCpl = 2
    MaxForTable = 2
    Adder = "addPeerKadRTT"
    KMaps <- ChangingK
    RTTs = {1, 2}
    LatencyMaps <- Near
    UseFilter = FALSE
    Connected = {TRUE}
    Whitelist = {}
INVARIANTS
    TagsCoverTable
    CapacityBound
    FirstIsNear
