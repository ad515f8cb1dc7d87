\* Half seconds, two processes; a heartbeat may hang until its process is evicted.
CONSTANTS
  Id = {1, 2}
  Res = 2
  Beat = 1
  Tick = 2
  Timeout = 2
  MaxDelay = 6
  Behind = 1
  Prompt = 1
  MaxLost = 1
SPECIFICATION Spec
INVARIANTS TypeOK DeadLeaves
PROPERTIES LiveStays
