SPECIFICATION ClientSpec
CONSTANTS
  p1 = p1  p2 = p2
  alice = alice  bob = bob  carol = carol  multi = multi
  k0 = k0  k1 = k1  k2 = k2  k3 = k3
  wan = wan  lan = lan  s0 = s0
  NoName = NoName  BadKey = BadKey  NoEndpoint = NoEndpoint  NoServerKey = NoServerKey
  Label <- Labels
  ValidLabel <- ValidLabels
  Key <- Keys
  Addr <- Addrs
  Endpoint <- Endpoints
  ServerKey <- ServerKeys
  Proc <- Procs
  Requests <- AllRequests
  Configs <- EveryMenu
  Files <- OneFile
  MaxPowerLosses = 1
  DirSyncMayFail = FALSE
  Invocations <- BasicInvocations
  Home <- Hub
  ClientKey <- ClientKeys
  Unset <- None
INVARIANTS
  ClientTypeOK
  ConfigStaysValid
  NoStrayPeer
  KilledStaysOut
  OnlyListedInterfaces
PROPERTIES
  UnlabelledUntouched
