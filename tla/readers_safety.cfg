\* Answers: requests that share an entry of the cache and requests that must
\* not, one write to a table, entries and requests that live for a unit.
\* Versions: a node and a link, two runs at once, three versions of which two
\* are retained, one fault.  Rates: two requests, two addresses.
SPECIFICATION ReadersSpec
CONSTANTS
  Requesters = {r1, r2}
  Contents <- SomeGraphs
  Score <- Scores
  KindOf <- Kinds
  Strength <- Strengths
  Community <- Members
  Asked <- AskedPairs
  DefaultCap = 3
  TTL = 1
  QueryTimeout = 1
  MaxRewrites = 1
  Error = Error
  Entities = {n1, l1}
  Links = {l1}
  Values = {0, 1}
  Procs = {p1, p2}
  Clients = {c1}
  Retention = 2
  MaxVersion = 3
  MaxFaults = 1
  Callers = {q1, q2}
  Addresses = {a1, a2}
  Rate = 2
  Burst = 2
  GlobalRate = 3
  GlobalBurst = 3
  Stale = 2
CONSTRAINT Bounded
\* A quiet API does nothing, and the versions are bounded.
CHECK_DEADLOCK FALSE
SYMMETRY Symmetry
INVARIANTS ReadersTypeOK AnswersHold RetainedLogComplete WithinTheRate
PROPERTIES ImplementsHistory
