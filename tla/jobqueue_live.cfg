SPECIFICATION FairSpec
CONSTANTS
  Subs = {s1, s2}
  Crawlers = {w1, w2}
  Clients = {}
  NoSub = NoSub
  MaxPriority = 1
  AgeBoost = 1
  PriorityBound = 1
  Boosts = {}
  SetPriorities = {0}
  Admins = FALSE
  Faults = TRUE
  SlowCrawls = FALSE
CHECK_DEADLOCK FALSE
PROPERTIES ImplementsLifecycle QueuedGetsOutcome
