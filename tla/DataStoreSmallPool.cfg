\* The git data store with as many workers as results of one key.
CONSTANTS
  ra = ra  rb = rb  rc = rc  rd = rd  k1 = k1  k2 = k2
  Jobs = {ra, rc}
  Keys = {k1}
  KeyOf <- OneKey
  TimeOf <- SharedIds
  Workers = {w1, w2}
  NoOne = NoOne
  NoJob = NoJob
  GitMayFail = TRUE
  MaxPending = 4
SPECIFICATION FairSpec
\* The violation is a deadlock of the goroutines, shown as a result never pushed.
CHECK_DEADLOCK FALSE
PROPERTY StoredIsPushed
