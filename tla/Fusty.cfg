\* One run, that two workers are after and two starts of the controller hand out.
\* Requests for runs end within the second; there are more pool members than
\* results, so that the pool is taken to make progress (PoolIsLarge).
CONSTANTS
  DeviceJobs = {p}
  CronTimes <- Cron
  Workers = {w1, w2}
  ScopeOf <- Everything
  Handlers = {h1}
  NoHandler = NoHandler
  SleepSeconds = 4
  TimeoutSeconds = 0
  MaxJobs = 2
  Prompt = TRUE
  MaxTime = 1
  MaxRestarts = 1
  Pool = {c1, c2, c3}
SPECIFICATION FairSpec
\* The clock stops at its bound.
CHECK_DEADLOCK FALSE
INVARIANTS
  TypeOK
  NoResultTwice
  ResultsAreAccounted
PROPERTY ExecutionsAreSettled
