SPECIFICATION FairSpec
CONSTANTS
  Subs = {s1, s2}
  Crawlers = {w1}
  Clients = {}
  NoSub = NoSub
  MaxPriority = 1
  AgeBoost = 1
  PriorityBound = 1
  Boosts = {}
  SetPriorities = {1}
  Admins = TRUE
  Faults = FALSE
  SlowCrawls = FALSE
CHECK_DEADLOCK FALSE
PROPERTIES OldestIsServed
