\* Two nodes, one of them restarted once and with a disk, a port and a network that fail,
\* a full seed, lists of one.
CONSTANTS
  m1 = m1
  m2 = m2
  s = s
  Machine = {m1, m2}
  Seed = {s}
  Chunk = {0, 1}
  SeedHas <- MCSeedHas
  Found <- MCFound
  MaxLives <- MCMaxLives
  Shard <- MCShard
  TopN = 1
  Policy = "TopologyAware"
  Rack <- MCRack
  Bandwidth <- MCBandwidth
  MayFailWrite = {m1}
  MayBeDeaf = {m1}
  MayBeSilent <- MCMayBeSilent
SPECIFICATION FairSpec
INVARIANTS TypeOK OnlyOldIdsMislead
PROPERTIES ImplementsDistribution OnlyCarriersLose ImplementsNodes ActsAsRegistry Spreads
CHECK_DEADLOCK FALSE
