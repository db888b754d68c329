SPECIFICATION Spec
CONSTANTS
  Devices = {d1}
  Operators = {o1, o2}
  Requests = {r1, r2}
  None = None
  TTL = 1
  RetrieveWindow = 0
  Retention = 0
  MaxTime = 2
  MaxInflight = 2
SYMMETRY Symmetry
INVARIANTS OneMintPerRequest LegacyNeverMints OneOpenRequestPerDevice
PROPERTIES ClaimIsFinal NoRetrievalAfterDecline
CHECK_DEADLOCK FALSE
