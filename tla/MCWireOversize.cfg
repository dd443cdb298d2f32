\* Noise before a message makes the two a frame too long: the loss of the
\* message does not end the session.
SPECIFICATION Spec
CONSTANTS
  Capacity = 8
  MAX_STALE_FRAMES = 1
  MaxAttempts = 1
  MaxMessages = 1
  MaxReplies = 1
  Verdicts = {TRUE}
  Disturbances = {"noise", "oversize"}
  MaxFaults = 1
INVARIANTS
  InSync
CHECK_DEADLOCK FALSE
