CONSTANTS
  MsgCount = 2
  Conns = {c1, c2}
  Drains = {d1, d2}
  AckStatuses <- OnlyOk
  MaxCrashes = 0
SPECIFICATION Spec
INVARIANT AckedNeverLost
CHECK_DEADLOCK FALSE
