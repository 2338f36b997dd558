\* Two workers compete for two runs; lost messages, deaths and a restart.
CONSTANTS
  DeviceJobs = {p}
  CronTimes <- Cron
  Workers = {w1, w2}
  ScopeOf <- Everything
  Handlers = {h1}
  NoHandler = NoHandler
  SleepSeconds = 5
  TimeoutSeconds = 1
  MaxJobs = 2
  Prompt = TRUE
  MaxTime = 6
  MaxRestarts = 1
SPECIFICATION Spec
SYMMETRY Symmetry
\* The clock stops at its bound.
CHECK_DEADLOCK FALSE
INVARIANTS
  TypeOK
  NoRunVanishes
  CountIsRunning
  NoRunMissed
PROPERTY ExecutedOnce
