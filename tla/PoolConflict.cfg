\* Conflicts of the pool.
CONSTANTS
  ra = ra  rb = rb  rc = rc  f1 = f1  f2 = f2
  Jobs = {ra, rb, rc}
  Files = {f1, f2}
  FileOf <- TwoFiles
  Workers = {w1, w2}
  Contents = {ra, rb, rc}
  ContentOf <- OwnContent
  NoFile = NoFile
  Torn = Torn
  MaxLogged = 0
  MaxCommits = 3
  MaxRestarts = 0
SPECIFICATION Spec
CHECK_DEADLOCK FALSE
INVARIANT NoPullConflict
