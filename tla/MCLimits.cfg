\* A frame of 17 bytes, sealing of 4 and runs of 3: messages up to 8 bytes.
SPECIFICATION Spec
CONSTANTS
  MAX_FRAME_SIZE = 17
  SEAL_OVERHEAD = 4
  EncodeBuffer <- CobsBound
  MaxSeals = 3
INVARIANTS
  LimitExact
  NoneRefusedSealed
  NoGap
  LimitInv
