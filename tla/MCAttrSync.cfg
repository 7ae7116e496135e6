SPECIFICATION Spec
CONSTANTS
  Objects = {o1, o2}
  Readers = {r1}
  Setters = {p1, p2}
  Keys = {k1, k2}
  Values = {v1}
  None = None
  Empty = Empty
  BulkSets = {"set", "locked"}
  MaxWrites = 2
INVARIANTS Converges NothingForgotten
PROPERTY EventuallyTold
CHECK_DEADLOCK FALSE
