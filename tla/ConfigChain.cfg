\* Start-up with 9450 configurations of two jobs and two devices.
CONSTANTS
  dflt = dflt  a = a  b = b  u = u  v = v  bad = bad  k = k  l = l  f = f  g = g
  e = e  s = s  r = r  x = x  y = y  root = root  op = op
  Names = {dflt, a, b}
  Default = dflt
  Words = {u, v, bad, Empty}
  Empty = Empty
  Keys = {k, l}
  BadPatterns = {bad}
  Files = {f, g, e}
  BadFiles = {e}
  Schedules = {s, r}
  BadSchedule = BadSchedule
  Tags = {x, y, Untagged}
  Untagged = Untagged
  Users = {root, op}
  Nothing = Nothing
  Configs <- Chosen
SPECIFICATION Spec
INVARIANTS
  TypeOK
  StoresAreMerged
  
  PanicIsByDeviceCommands
  EveryJobIsListed
PROPERTY StoresUntouched
