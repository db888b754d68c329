SPECIFICATION Spec
CONSTANTS
  Operators = {o1}
  Devices = {d1, d2, d3}
  Actors = {a1}
  Accounts = {w1}
  NoAccount = NoAccount
  NoOperator = NoOperator
  NoActor = NoActor
  RoleSets <- RecoveryOnly
  CountingKeys = {}
  Allowances = {0, 1}
  Overrides = {2}
  MaxNonce = 3
  MaxSigned = 2
  MaxSignCount = 0
SYMMETRY Symmetry
INVARIANTS SlotsMatchDelegates ListsMatchRows QuorumSatisfiable AcceptedAtMostOnce
PROPERTIES NeverStranded RevokedStaysRevoked
CHECK_DEADLOCK FALSE
