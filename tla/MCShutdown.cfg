SPECIFICATION Spec
CONSTANTS
  t1 = t1
  k1 = k1
  k2 = k2
  k3 = k3
  f = f
  None = None
  MaxStarts = 5
  Readers = {r1, r2}
  Terms = {t1}
  Tasks = {k1, k2, k3}
  Id <- MCId
  Target <- MCTarget
INVARIANTS NobodyLeftBehind RunningIsListed NoTwins
PROPERTY ShutdownCompletes
CHECK_DEADLOCK FALSE
