\* Heartbeats with full bitmaps: the completion check against its own lock.
CONSTANTS
  Job = {j1}
  n1 = n1
  n2 = n2
  n3 = n3
  c1 = c1
  c2 = c2
  Node = {n1, n2}
  Chunk <- MCChunk
  Worker = {w1, w2}
  Reports <- MCReports
  NumShards = 2
  JobShard <- MCJobShard
  NodeShard <- MCNodeShard
  TopN = 1
  Policy = "RarityFirst"
  Rack <- MCRack
  Bandwidth <- MCBandwidth
  None = None
SPECIFICATION FairSpec
PROPERTIES CompletesWhenAllReport
CHECK_DEADLOCK FALSE
