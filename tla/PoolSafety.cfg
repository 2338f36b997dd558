\* Safety of the pool: two clones, three results of two files, one restart.
CONSTANTS
  ra = ra  rb = rb  rc = rc  f1 = f1  f2 = f2
  Jobs = {ra, rb, rc}
  Files = {f1, f2}
  FileOf <- TwoFiles
  Workers = {w1, w2}
  Contents = {ra, rb, rc}
  ContentOf <- OwnContent
  NoFile = NoFile
  Torn = Torn
  MaxLogged = 2
  MaxCommits = 2
  MaxRestarts = 1
SPECIFICATION Spec
SYMMETRY Symmetry
\* Nothing is left to do once every result was written or lost.
CHECK_DEADLOCK FALSE
INVARIANTS
  TypeOK
  NoSilentLoss
  CommitsSurvive
  PushedCloneCanPull
