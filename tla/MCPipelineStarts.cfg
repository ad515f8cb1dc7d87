\* One small file.
CONSTANTS
  U32 = 8
  U64 = 32
  ByteBits = 2
  DataShards = 3
  ParityShards = 2
  MiB = 2
  Envelope = 3
  HashBytes = 1
  MaxFrame = 6
  None = None
  Files <- MCFiles
  Lengths = {5}
  SizesMb = {1}
SPECIFICATION Spec
INVARIANTS NodeGetsManifest
CHECK_DEADLOCK FALSE
