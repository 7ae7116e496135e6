SPECIFICATION Spec
CONSTANTS
  s1 = s1
  t1 = t1
  Conns = {c1, c2}
  InTerm = {c1}
  Servers = {s1}
  Terms = {t1}
  Host <- HostOne
  Self = self
  None = none
  MaxInitial = 0
  MaxAnnounces <- Twice
  MaxConnects = 1
INVARIANTS RegistryMatches MapsAgree
CHECK_DEADLOCK FALSE
