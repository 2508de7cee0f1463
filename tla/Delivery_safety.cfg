CONSTANTS
  MsgCount = 2
  Conns = {c1, c2}
  Drains = {d1, d2}
  AckStatuses <- OnlyOk
  MaxCrashes = 1
SYMMETRY Symm
SPECIFICATION Spec
INVARIANTS
  TypeOK
  AckedIsKept
  DirectXorQueued
  InboxInSendOrder
  FailedIsNotQueued
CHECK_DEADLOCK FALSE
