\* The handshake: three attempts, three disturbances of any kind but noise, two
\* messages each way per session.
SPECIFICATION Spec
CONSTANTS
  Capacity = 12
  MAX_STALE_FRAMES = 1
  MaxAttempts = 3
  MaxMessages = 2
  MaxReplies = 2
  Verdicts = {TRUE, FALSE}
  Disturbances = {"timeout", "torn", "restart", "reconnect", "oversize"}
  MaxFaults = 3
INVARIANTS
  TypeOK
  Agreement
  OldSessionsEnd
  WireInv
  InSync
  HellosAfterReset
PROPERTIES
  HelloHeard
  ImplementsSecureLink
CHECK_DEADLOCK FALSE
