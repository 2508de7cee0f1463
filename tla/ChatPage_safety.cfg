SPECIFICATION Spec
CONSTANTS
  Msgs = {m1, m2}
  Sends = {s1}
  Effects = 2
  MaxRetries = 1
  MaxSent = 2
  MaxVisits = 2
  MaxDrops = 1
SYMMETRY Symm
INVARIANTS TypeOK ShownOnce NothingVanishes SendsAreHonest
CHECK_DEADLOCK FALSE
