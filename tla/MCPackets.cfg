\* Blocks of two bytes, frames of up to three, three writes or so.
SPECIFICATION PacketFairSpec
CONSTANTS
  Byte = {0, 1, 2, 3}
  Run = 2
  MAX_FRAME_SIZE = 3
  MaxStream = 40
  Retry = FALSE
  Payload <- MCPayload
  Encode <- CobsEncode
  Decodable <- CobsDecodable
  Decode <- CobsDecode
  Bound <- EncodeBuffer
  MaxWrites = 4
INVARIANTS
  PacketsIntact
  PacketsInv
PROPERTIES
  ImplementsLink
  ImplementsStream
  FramesTaken
CHECK_DEADLOCK FALSE
