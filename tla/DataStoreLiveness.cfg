\* Liveness of the git data store queue: more workers than results.
CONSTANTS
  ra = ra  rb = rb  rc = rc  rd = rd  k1 = k1  k2 = k2
  Jobs = {ra, rc}
  Keys = {k1}
  KeyOf <- OneKey
  TimeOf <- SharedIds
  Workers = {w1, w2, w3}
  NoOne = NoOne
  NoJob = NoJob
  GitMayFail = TRUE
  MaxPending = 4
SPECIFICATION FairSpec
\* Once every result is returned and pushed there is nothing left to do.
CHECK_DEADLOCK FALSE
INVARIANT SenderHasReceiver
PROPERTIES
  StoredIsPushed
  EveryPostReturns
