SPECIFICATION Spec
CONSTANTS
  CredIds = {c1, c2}
  GuardianIds = {g1, g2}
  Keys = {k1, k2}
  NoKey = NoKey
  Thresholds = {1, 2}
  MaxBundle = 2
  MaxRecoveries = 2
  MaxHeld = 1
SYMMETRY Symmetry
INVARIANTS EvictedStayOut SignersCounted GuardiansCounted RecoveryAtMostOnce
PROPERTY RecoveryNeedsQuorum
CHECK_DEADLOCK FALSE
