\* Frames of up to three bytes, sizes up to four times as large.
SPECIFICATION FuzzSpec
CONSTANTS
  Byte = {0, 1, 2, 3}
  Run = 2
  MAX_FRAME_SIZE = 3
  MaxStream = 40
  Retry = FALSE
  MAX_FUZZ_SIZE = 12
  MAX_TOTAL_SIZE = 20
  FuzzSizes <- MCFuzzSizes
  ChunkSizes <- MCChunkSizes
INVARIANTS
  AssertsHold
PROPERTIES
  Terminates
CHECK_DEADLOCK FALSE
