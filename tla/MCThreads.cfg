SPECIFICATION ThreadsSpec
CONSTANTS
  s1 = s1
  s2 = s2
  Senders <- MCSenders
  MaxPosts = 3
  Addrs = {1}
  MaxLaunches = 2
  MaxStops = 1
  Peer = "c"
  Servers = {"s", "S"}
  Terms = {"t", "T"}
  Host <- HostOfTwo
  Self = "self"
  Nobody = "none"
  MaxInitial = 1
  MaxAnnounces <- OneTwice
  MaxConnects = 2
INVARIANTS NoLostWakeup NoTouchAfterClose ListingTrue AttrsTrue ScopesTrue SessionSound
PROPERTIES Implements EventuallyDrained OutputShown DisconnectCompletes
CHECK_DEADLOCK FALSE
