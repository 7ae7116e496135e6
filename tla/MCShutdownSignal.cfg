SPECIFICATION Spec
CONSTANTS
  t1 = t1
  k1 = k1
  k2 = k2
  k3 = k3
  f = f
  None = None
  MaxStarts = 1
  Readers = {r1}
  Terms = {}
  Tasks = {}
  Id <- MCId
  Target <- MCTarget
PROPERTY ServerExits
CHECK_DEADLOCK FALSE
