SPECIFICATION WritersSpec
CONSTANTS
  Users = {u1}
  Subs = {s1, s2}
  Procs = {p1, p2}
  MaxTime = 2
  MaxItems = 2
  MinSubs = 1
  ClearOnStart = FALSE
  ManualFull = TRUE
  MaxFaults = 2
  ClearRefused = FALSE
  Storers = {t1, t2}
  GraphNodes = {1, 2}
  Detections <- SomeDetections
  MaxStores = 2
  MaxStoreFaults = 1
  Crawlers = {k1, k2}
  Posts = {"p1"}
  PostOf <- Thread
  Parent <- Replies
  Author <- Writer
  OtherSubs = {"s1"}
  MaxPosts = 1
  MaxDepth = 2
  MaxEnqueue = 1
  MaxCrawls = 2
CHECK_DEADLOCK FALSE
SYMMETRY WritersSymmetry
INVARIANTS ThreadsAreWhole WritersTypeOK GraphIsGrounded StoredWeightsAgree UndisturbedStoreIsExact
PROPERTIES FullRunCovers IncrementalRunCovers
