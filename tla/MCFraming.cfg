\* Frames up to two bytes in a buffer of three slots, streams up to nine bytes
\* over two payload bytes, cut into reads in every way; the caller goes on after
\* a read failed.
SPECIFICATION Spec
CONSTANTS
  Byte = {0, 1, 2}
  MAX_FRAME_SIZE = 2
  MaxStream = 9
  Retry = TRUE
INVARIANTS
  TypeOK
  RoomToRead
  FramesAreWhole
  NothingLeftBehind
  DiscardIsExact
  FramingInv
CHECK_DEADLOCK FALSE
