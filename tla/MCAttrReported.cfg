SPECIFICATION Spec
CONSTANTS
  Objects = {o1}
  Readers = {r1, r2}
  Setters = {p1}
  Keys = {k1}
  Values = {v1}
  None = None
  Empty = Empty
  BulkSets = {"set"}
  MaxWrites = 1
INVARIANT Reported
CHECK_DEADLOCK FALSE
