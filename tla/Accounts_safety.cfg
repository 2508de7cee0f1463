CONSTANTS
  Reqs = {r1, r2, r3, r4}
  Sids = {s1, s2, s3}
  Ttl = 1
  MaxTicks = 1
  MaxConcurrent = 2
  MaxCrashes = 1
SYMMETRY Symm
SPECIFICATION Spec
INVARIANTS
  TypeOK
  OneDevice
  Tracked
  OneMember
  OneSocketDevice
  EvictionIsFinal
  UserTtlAccounted
  SignupUnique
CHECK_DEADLOCK FALSE
