\* The unit tests, pipelines, reconnects and overruns over sockets of four frames.
SPECIFICATION Spec
CONSTANTS
  Capacity = 8
  MAX_STALE_FRAMES = 4
  MaxAttempts = 4
  MaxMessages = 7
  MaxReplies = 35
  Verdicts = {TRUE, FALSE}
  Scripts <- MCScripts
INVARIANTS
  AssertsHold
  WedgedOnlyBeyondBuffers
PROPERTIES
  Completes
CHECK_DEADLOCK FALSE
