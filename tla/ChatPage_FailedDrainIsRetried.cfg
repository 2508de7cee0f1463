SPECIFICATION FairSpec
CONSTANTS
  Msgs = {m1}
  Sends = {s1}
  Effects = 1
  MaxRetries = 3
  MaxSent = 1
  MaxVisits = 1
  MaxDrops = 1
PROPERTY FailedDrainIsRetried
CHECK_DEADLOCK FALSE
