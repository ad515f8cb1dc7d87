\* Files from empty to more chunks than 32 bits count, sizes from 0 to a sum that wraps.
CONSTANTS
  U32 = 8
  U64 = 32
  ByteBits = 2
  DataShards = 3
  ParityShards = 2
  MiB = 2
  Envelope = 3
  HashBytes = 1
  MaxFrame = 6
  None = None
  Files <- MCFiles
  Lengths = {0, 1, 3, 5, 6, 8, 10, 15, 18}
  SizesMb = {0, 1, 2, 12, 15, 16}
SPECIFICATION Spec
INVARIANTS TypeOK ManifestCoversFile SubmittedWholeOrNot BitmapSurvives RebuildsEveryChunk SplitMergesBack
CHECK_DEADLOCK FALSE
