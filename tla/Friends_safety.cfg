CONSTANTS
  Names = {a, b}
  Slots = {s1, s2}
  Ttl = 2
  MaxOps = 5
  MaxTicks = 1
  MaxCrashes = 1
SYMMETRY Symm
SPECIFICATION Spec
INVARIANTS
  TypeOK
  Symmetric
  NothingOutlives
  KeptWhileAlive
  OneAnswer
CHECK_DEADLOCK FALSE
