CONSTANTS
  p1 = p1
  p2 = p2
  p3 = p3
  Self = self
  Peers <- MCPeers
  Dist <- MCDist
  Replies <- MCReplies
  Alpha = 1
  Beta = 1
  BucketSize = 3
  IsKadRTT = TRUE
  BucketAlphas = {1, 2}
  MaxAlpha = 2
  BucketBetas = {1, 2}
  CanStop = TRUE
SPECIFICATION FairSpec
INVARIANTS
  NoWorkerBlocks
  RefreshedMeansConverged
PROPERTIES
  KeepsOutline
  LookupReturns
