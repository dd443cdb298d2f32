\* The host skips what the Ark left in the stream: one restart of either end.
SPECIFICATION Spec
CONSTANTS
  Capacity = 10
  MAX_STALE_FRAMES = 4
  MaxAttempts = 2
  MaxMessages = 1
  MaxReplies = 1
  Verdicts = {TRUE}
  Disturbances = {"restart"}
  MaxFaults = 1
INVARIANTS
  StaleFramesSkipped
CHECK_DEADLOCK FALSE
