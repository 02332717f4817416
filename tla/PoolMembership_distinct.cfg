CONSTANTS
  c1 = c1
  c2 = c2
  c3 = c3
  c4 = c4
  c5 = c5
  a = a
  b = b
  d = d
  e = e
  NoOne = NoOne
  Connectors <- Five
  Addr <- DistinctAddr
  List <- OneThreeOne
  MaxPeers = 2
SPECIFICATION FairSpec
INVARIANTS MembershipTypeOK RegistryExact MaxRespected NoTwins ShutdownStops
PROPERTIES ShutdownReturns
