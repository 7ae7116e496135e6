SPECIFICATION TasksSpec
CONSTANTS
  Terms = {"t"}
  Commands = {"c"}
  MaxPid = 3
  MaxOrphans = 2
  x1 = x1
  x2 = x2
  x3 = x3
  Peers = {r1, r2}
  Clients = {x1, x2, x3}
  Distance <- MCDistance
  TakeOwnership = {x1, x2}
  MaxAnnounces = 3
  Shells = {t1}
  NoClient = NoClient
  Output = 1
  Keys = 1
  Cap = 1
  Entered = 2
  MaxTyped = 1
INVARIANTS TransfersSafe ExitsTold OwnerPresent PortSafe LinksSafe
PROPERTIES TasksEnd ExitNoticed
CHECK_DEADLOCK FALSE
