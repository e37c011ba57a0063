SPECIFICATION Spec
CONSTANTS
  Users = {u1}
  Subs = {s1}
  Procs = {p1}
  MaxTime = 3
  MaxItems = 2
  MinSubs = 1
  ClearOnStart = FALSE
  ManualFull = FALSE
  MaxFaults = 0
  ClearRefused = TRUE
CHECK_DEADLOCK FALSE
PROPERTIES MissesNoUpdate
