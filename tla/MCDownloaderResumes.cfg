\* One crash and a restart.
CONSTANTS
  k1 = k1
  k2 = k2
  p1 = p1
  p2 = p2
  Chunk = {1, 2}
  Permit = {k1}
  Peer = {p1, p2}
  Answers <- GoodAnswers
  Serves <- SteadyServes
  MaxAttempts = 3
  MaxLives = 2
  MaxNet = 1
  DiskMayFail = FALSE
SPECIFICATION FairSpec
PROPERTIES Resumes
CHECK_DEADLOCK FALSE
