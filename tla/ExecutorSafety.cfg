\* Two jobs with two commands each and one with files; up to four pieces of output.
CONSTANTS
  good = good  bad = bad  key = key
  Pieces = {good, bad, key}
  Secret = {key}
  Mask = good
  JobSet <- ThreeJobs
  MaxOutput = 4
SPECIFICATION Spec
\* A job that is done stays done.
CHECK_DEADLOCK FALSE
INVARIANTS
  TypeOK
  NoTakenPieceLost
  OutputIsExact
  FailureIsJustified
PROPERTY PassIsJustified
