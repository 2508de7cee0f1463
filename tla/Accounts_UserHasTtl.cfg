CONSTANTS
  Reqs = {r1, r2, r3, r4}
  Sids = {s1, s2, s3}
  Ttl = 2
  MaxTicks = 2
  MaxConcurrent = 1
  MaxCrashes = 0
SYMMETRY Symm
SPECIFICATION Spec
INVARIANTS
  UserHasTtl
CHECK_DEADLOCK FALSE
