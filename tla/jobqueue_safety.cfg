SPECIFICATION Spec
CONSTANTS
  Subs = {s1, s2}
  Crawlers = {w1, w2}
  Clients = {c1}
  NoSub = NoSub
  MaxPriority = 2
  AgeBoost = 1
  PriorityBound = 3
  Boosts = {1}
  SetPriorities = {0, 2}
  Admins = TRUE
  Faults = TRUE
  SlowCrawls = TRUE
CHECK_DEADLOCK FALSE
SYMMETRY Symmetry
INVARIANTS TypeOK ExclusiveInv
PROPERTIES OutcomeNeedsCrawl
