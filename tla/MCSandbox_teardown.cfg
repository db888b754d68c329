SPECIFICATION Spec
CONSTANTS
  Devices = {d1}
  AlwaysOn = {d1}
  Scheduled = {}
  Workers = {w1, w2}
  Sweeper = sweeper
  None = None
  Managed = TRUE
  MaxCrashes = 0
INVARIANTS RevokedBlocksRespawn
