SPECIFICATION Spec
CONSTANTS
  s1 = s1
  t1 = t1
  Conns = {c1, c2}
  InTerm = {}
  Servers = {s1}
  Terms = {t1}
  Host <- HostOne
  Self = self
  None = none
  MaxInitial = 0
  MaxAnnounces <- Once
  MaxConnects = 1
INVARIANT HopKnown
CHECK_DEADLOCK FALSE
