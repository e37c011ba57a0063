\* Two clients, one who does not filter and one who names the type all.
SPECIFICATION ApiSpec
CONSTANTS
  Requesters = {r1, r2}
  Contents <- SomeGraphs
  Score <- Scores
  KindOf <- Kinds
  Strength <- Strengths
  Community <- Members
  Asked <- JustByName
  DefaultCap = 3
  TTL = 1
  QueryTimeout = 1
  MaxRewrites = 1
  Error = Error
CHECK_DEADLOCK FALSE
INVARIANTS FilterIsOptional
