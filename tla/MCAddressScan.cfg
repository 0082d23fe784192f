SPECIFICATION FairSpec
CONSTANTS
  k0 = k0  k1 = k1
  NoName = NoName
  Label <- NoLabels
  ValidLabel <- NoLabels
  Key <- Keys
  Addr <- Addrs
  Width = 3
  Subnets <- AllSubnets
  Reserves <- SomeReserves
  PeerLists <- AllPeerLists
INVARIANTS
  AnswersLeastFree
  ProvidedPoolIsSound
PROPERTIES
  ScanEnds
