SPECIFICATION Spec
CONSTANTS
  Links = {l1}
  States = {s1}
  Siwe = {n1}
  Passkeys = {k1}
  Workers = {w1, w2}
  None = None
  TTL = 0
  MaxTime = 1
  MaxCrashes = 1
SYMMETRY Symmetry
INVARIANTS TypeOK
PROPERTIES OneShotCredentials OutcomeIsFinal
CHECK_DEADLOCK FALSE
