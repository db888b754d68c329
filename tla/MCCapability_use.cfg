SPECIFICATION Spec
CONSTANTS
  Owner = o
  Delegates = {d1}
  Services = {s1}
  Ops = {"cred_store", "cred_fetch", "canonical", "teardown"}
  Minters = {m1}
  Users = {u1}
  MinTtl = 1
  Ttl = 1
  PopAge = 1
  MaxTime = 2
  MaxEpoch = 2
  MaxMasters = 2
  MaxCaps = 1
SYMMETRY Symmetry
INVARIANTS CapabilityInv AuthorityDuringOperation
CHECK_DEADLOCK FALSE
