\* Every operation, with full and partial reports of two nodes and queries of a third, on
\* two workers; answers of one peer.
CONSTANTS
  Job = {j1}
  n1 = n1
  n2 = n2
  n3 = n3
  c1 = c1
  c2 = c2
  Node = {n1, n2, n3}
  Chunk <- MCChunk
  Worker = {w1, w2}
  Reports <- MCReports
  NumShards = 2
  JobShard <- MCJobShard
  NodeShard <- MCNodeShard
  TopN = 1
  Policy = "RarityFirst"
  Rack <- MCRack
  Bandwidth <- MCBandwidth
  None = None
SPECIFICATION FairSpec
INVARIANTS TypeOK PeerQueryRegular NeverComplete OnlyCompletionBlocks
PROPERTIES CancelSticks WedgeFreezesShard RequestsAdvance Drains ImplementsRegistry
CHECK_DEADLOCK FALSE
