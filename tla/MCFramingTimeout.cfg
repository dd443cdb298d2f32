\* The caller goes on after a read timed out while a frame was being discarded.
SPECIFICATION Spec
CONSTANTS
  Byte = {0, 1}
  MAX_FRAME_SIZE = 2
  MaxStream = 5
  Retry = TRUE
INVARIANTS
  ReturnedIsFrame
CHECK_DEADLOCK FALSE
