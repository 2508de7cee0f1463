CONSTANTS
  MsgCount = 1
  Conns = {c1, c2}
  Drains = {d1}
  AckStatuses <- OnlyOk
  Account = account
  MaxRequests = 2
  Ttl = 2
  MaxTicks = 1
SYMMETRY Symm
SPECIFICATION Spec
INVARIANTS
  TypeOK
  HeirsGetNothing
  LeaversGetNothing
  InboxGoesWithAccount
  AckedReachesOwner
CHECK_DEADLOCK FALSE
