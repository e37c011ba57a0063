\* One crawler, no admins, and statements that succeed: nothing but the code
\* keeps a failed row from being retried.
SPECIFICATION FairSpec
CONSTANTS
  Subs = {s1, s2}
  Crawlers = {w1}
  Clients = {}
  NoSub = NoSub
  MaxPriority = 1
  AgeBoost = 1
  PriorityBound = 1
  Boosts = {}
  SetPriorities = {0}
  Admins = FALSE
  Faults = FALSE
  SlowCrawls = FALSE
CHECK_DEADLOCK FALSE
PROPERTIES FailedIsRetried
