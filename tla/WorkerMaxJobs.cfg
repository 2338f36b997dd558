\* One worker that is to run one execution at a time.
CONSTANTS
  DeviceJobs = {p}
  CronTimes <- Cron
  Workers = {w1}
  ScopeOf <- Everything
  Handlers = {h1}
  NoHandler = NoHandler
  SleepSeconds = 5
  TimeoutSeconds = 1
  MaxJobs = 1
  Prompt = TRUE
  MaxTime = 6
  MaxRestarts = 0
SPECIFICATION Spec
CHECK_DEADLOCK FALSE
INVARIANT MaxJobsRespected
