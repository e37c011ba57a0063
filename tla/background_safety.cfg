SPECIFICATION BackgroundSpec
CONSTANTS
  Jobs = {j1, j2}
  Schedulers = {p1, p2}
  Crons <- TwoCrons
  Cycle = 2
  FaultyJobs = {j1}
  Crashes = TRUE
  Workers = {w1, w2}
  Creds = {k1, k2}
  Lives = {2, 4}
  MaxAttempts = 2
  MaxFired = 1
  Callers = {c1, c2, c3}
  FailureThreshold = 2
  SuccessThreshold = 2
  Timeout = 2
INVARIANTS SchedulerTypeOK OutboundTypeOK TokenIsGood
PROPERTIES RunsAtTheirDistance DueJobsRun OneFetchPerExpiry ClosesOnSuccesses WaitsEnd
