SPECIFICATION Spec
CONSTANTS
  p1 = p1  p2 = p2  p3 = p3
  alice = alice  bob = bob  multi = multi
  k0 = k0  k1 = k1  k2 = k2  k3 = k3
  wan = wan  lan = lan  s0 = s0
  NoName = NoName  BadKey = BadKey  NoEndpoint = NoEndpoint  NoServerKey = NoServerKey
  Label <- Labels
  ValidLabel <- ValidLabels
  Key <- Keys
  Addr <- Addrs
  Endpoint <- Endpoints
  ServerKey <- ServerKeys
  Proc <- TwoProcs
  Requests <- OddRequests
  Configs <- OddConfigs
  Files <- OddFiles
  MaxPowerLosses = 1
  DirSyncMayFail = TRUE
INVARIANTS
  TypeOK
  RefusedAddLeavesNoTrace
PROPERTIES
  ImplementsRegistry
