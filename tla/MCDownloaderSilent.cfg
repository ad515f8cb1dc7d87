\* The first candidate for every chunk is silent, the second would serve it.
CONSTANTS
  k1 = k1
  k2 = k2
  p1 = p1
  p2 = p2
  Chunk = {1, 2}
  Permit = {k1}
  Peer = {p1, p2}
  Answers <- SilentAnswers
  Serves <- SilentServes
  MaxAttempts = 3
  MaxLives = 1
  MaxNet = 1
  DiskMayFail = FALSE
SPECIFICATION FairSpec
PROPERTIES SilentPeerIsLeft
CHECK_DEADLOCK FALSE
