\* Recovery at the smallest limit on stale frames that allows it: three
\* disturbances of any kind, at most three handshakes each.  RecoveryInv is
\* the inductive invariant RecoveryBound is proved from.
SPECIFICATION FairSpec
CONSTANTS
  Capacity = 16
  MAX_STALE_FRAMES = 1
  MaxAttempts = 11
  MaxMessages = 1
  MaxReplies = 1
  Verdicts = {TRUE}
  Disturbances = {"timeout", "torn", "restart", "reconnect", "noise", "oversize"}
  MaxFaults = 3
INVARIANTS
  RecoveryBound
  RecoveryInv
PROPERTIES
  Recovery
CHECK_DEADLOCK FALSE
