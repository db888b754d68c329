SPECIFICATION CheckpointFairSpec
CONSTANTS
  MaxWork = 2
  MaxTime = 2
  MaxBytes = 1
  MaxFaults = 1
  MaxLives = 2
INVARIANTS
  CheckpointInv
PROPERTIES
  StoredIsNeverDropped
  RestoresSettle
  HomeBecomesDurable
\* A daemon without a credential stops.
CHECK_DEADLOCK FALSE
