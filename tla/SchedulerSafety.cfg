\* Safety of the scheduler: two concurrent handlers, one restart.
CONSTANTS
  p = p  q = q  s = s  x = x  y = y
  DeviceJobs = {p, q, s}
  Tags = {x, y, Untagged}
  Untagged = Untagged
  ByTag <- Lists
  CronTimes <- Cron
  Handlers = {h1, h2}
  Queries <- TwoQueries
  Seconds = {3}
  Maxima = {2}
  MaxTime = 2
  MaxRestarts = 1
SPECIFICATION Spec
SYMMETRY Symmetry
INVARIANTS
  TypeOK
  ExclusiveRuns
  NoUpcomingRunSkipped
  ShortAnswerIsComplete
PROPERTY DispenserSpec
