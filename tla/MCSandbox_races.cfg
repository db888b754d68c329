SPECIFICATION Spec
CONSTANTS
  Devices = {d1}
  AlwaysOn = {}
  Scheduled = {d1}
  Workers = {w1, w2}
  Sweeper = sweeper
  None = None
  Managed = TRUE
  MaxCrashes = 1
SYMMETRY Symmetry
INVARIANTS SandboxInv
PROPERTIES TeardownLeavesNothing GoneStaysGone
