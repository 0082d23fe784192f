SPECIFICATION LifecycleSpec
CONSTANTS
  p1 = p1  p2 = p2  a1 = a1  a2 = a2
  alice = alice  bob = bob  k0 = k0  k1 = k1
  s0 = s0  wan = wan
  NoName = NoName  BadKey = BadKey  NoEndpoint = NoEndpoint  NoServerKey = NoServerKey
  Label <- Labels
  ValidLabel <- Labels
  Key <- Keys
  Addr <- Addrs
  Endpoint <- Endpoints
  ServerKey <- ServerKeys
  Proc <- Procs
  Requests <- PeerRequests
  Configs <- AllSidecars
  Files <- OneOrNone
  MaxPowerLosses = 0
  DirSyncMayFail = FALSE
  Admin <- Admins
  Calls <- AllCalls
  Provided <- Menu
  FreshKey <- FreshKeys
  LastDay = 2
  MaxAtOnce = 2
  CustomPath = FALSE
SYMMETRY CallSymmetry
VIEW StillRead
INVARIANTS
  LifecycleTypeOK
PROPERTIES
  KeyNotDropped
  RemovedForGood
  PeersKeepInterface
