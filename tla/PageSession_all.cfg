CONSTANTS
  Tabs = {t1, t2}
  Users = {"a", "b"}
  MaxLogins = 2
  MaxReloads = 1
  MaxEvictions = 1
  MaxDrops = 1
SPECIFICATION FairSpec
INVARIANTS
  TypeOK
  PacketsKeepTheirSender
  NameMatchesSession
  OffMeansDismissed
PROPERTIES
  ProbeEnds
CHECK_DEADLOCK FALSE
