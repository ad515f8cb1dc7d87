\* One task and a window of two, nobody holds chunk 1, the first candidate for the others never serves.
CONSTANTS
  k1 = k1
  k2 = k2
  p1 = p1
  p2 = p2
  Chunk = {1, 2, 3}
  Permit = {k1}
  Peer = {p1, p2}
  Answers <- SteadyAnswers
  Serves <- SteadyServes
  MaxAttempts = 3
  MaxLives = 1
  MaxNet = 2
  DiskMayFail = FALSE
SPECIFICATION FairSpec
PROPERTIES FetchesAvailable ReportedWhileRunning RoundsGain
CHECK_DEADLOCK FALSE
