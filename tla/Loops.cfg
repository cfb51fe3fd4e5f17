SPECIFICATION FairSpec
CONSTANTS
    p1 = p1
    u1 = u1
    Peers = {p1}
    Cpl <- MCCpl
    Users = {u1}
    maxCplForRefresh = 15
    minRTRefreshThreshold = 0
    autoRefresh = TRUE
    Modes = {TRUE, FALSE}
    Finds <- MCFinds
    MaxAdds = 1
    IsClosed = TRUE
    NoPeer = NoPeer
INVARIANT FrozenMeansIrreplaceable
PROPERTIES
    RefreshAnswered
    BootstrapEnds
    CloseEnds
