\* Safety of the git data store queue: two workers, two keys.
CONSTANTS
  ra = ra  rb = rb  rc = rc  rd = rd  k1 = k1  k2 = k2
  Jobs = {ra, rb, rc, rd}
  Keys = {k1, k2}
  KeyOf <- TwoKeys
  TimeOf <- SharedIds
  Workers = {w1, w2}
  NoOne = NoOne
  NoJob = NoJob
  GitMayFail = TRUE
  MaxPending = 4
SPECIFICATION Spec
SYMMETRY Symmetry
\* A send of markJobsCompleted with no worker at its receive stops the program,
\* and without posted results there is nothing to do.
CHECK_DEADLOCK FALSE
INVARIANTS
  TypeOK
  OneWriterPerKey
  NoStoredJobLost
  NoLostWakeup
  FirstWriteInArrivalOrder
PROPERTY QueueSpec
