\* What overwrites a file of the git data store.
CONSTANTS
  ra = ra  rb = rb  rc = rc  rd = rd  k1 = k1  k2 = k2
  Jobs = {ra, rb, rc}
  Keys = {k1}
  KeyOf <- OneKey
  TimeOf <- SharedIds
  Workers = {w1, w2}
  NoOne = NoOne
  NoJob = NoJob
  GitMayFail = FALSE
  MaxPending = 4
SPECIFICATION Spec
CHECK_DEADLOCK FALSE
PROPERTY FileKeepsLatest
