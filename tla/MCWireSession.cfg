\* The messages: two each way per session, three disturbances, noise among them.
SPECIFICATION Spec
CONSTANTS
  Capacity = 12
  MAX_STALE_FRAMES = 4
  MaxAttempts = 3
  MaxMessages = 2
  MaxReplies = 2
  Verdicts = {TRUE}
  Disturbances = {"timeout", "torn", "restart", "reconnect", "noise"}
  MaxFaults = 3
INVARIANTS
  InSync
  SyncInv
  QueueInv
PROPERTIES
  ImplementsSecureLink
CHECK_DEADLOCK FALSE
