\* Two attempts, two answers, two Arks and four CWTs, one of which is no attestation.
SPECIFICATION Spec
CONSTANTS
  k1 = k1
  k2 = k2
  hw = hw
  em = em
  Keys = {k1, k2}
  Hardware = {hw}
  Emulator = {em}
  Roots = Roots
  Cwts <- SomeCwts
  Times <- SomeTimes
  MaxAttempts = 2
  MaxAnswers = 2
INVARIANTS
  Authentic
  Vouched
  FreshAttestation
  TrustInv
CHECK_DEADLOCK FALSE
