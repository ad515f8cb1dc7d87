\* Two tasks over two chunks, a crash and a restart, disk errors, any answer or none.
CONSTANTS
  k1 = k1
  k2 = k2
  p1 = p1
  p2 = p2
  Chunk = {1, 2}
  Permit = {k1, k2}
  Peer = {p1, p2}
  Answers <- AnyAnswers
  Serves <- AnyServes
  MaxAttempts = 2
  MaxLives = 2
  MaxNet = 2
  DiskMayFail = TRUE
SYMMETRY Symmetry
SPECIFICATION Spec
INVARIANTS TypeOK Integrity OneTaskPerChunk ReportedIsServable
PROPERTIES ImplementsNodes SilenceIsFinal
CHECK_DEADLOCK FALSE
