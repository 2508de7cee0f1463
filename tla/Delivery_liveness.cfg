CONSTANTS
  MsgCount = 2
  Conns = {c1}
  Drains = {d1}
  AckStatuses <- AnyStatus
  MaxCrashes = 1
SPECIFICATION FairSpec
PROPERTIES
  ImplementsMailbox
  SendSettles
  DrainSettles
CHECK_DEADLOCK FALSE
