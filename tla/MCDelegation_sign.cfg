SPECIFICATION Spec
CONSTANTS
  Devices = {d1, d2}
  Sandboxes = {b1, b2}
  Requests = {r1, r2, r3}
  Signers = {s1, s2}
  ReqTtl = 1
  MaxTtl = 1
  MaxTime = 2
SYMMETRY Symmetry
INVARIANTS DelegationInv
PROPERTIES SignedIsFinal
CHECK_DEADLOCK FALSE
