CONSTANTS
  a = a
  b = b
  p = p
  aId = aId
  aId2 = aId2
  aOnly = aOnly
  aScid = aScid
  aLocal = aLocal
  bId = bId
  bScid = bScid
  shared = shared
  NoId = NoId
  Chan <- MCChan
  PeerOf <- MCPeerOf
  Id <- Values
  Reports <- MCReports
SPECIFICATION MCSpec
SYMMETRY SplicedIds
INVARIANTS
  TypeOK
  FunctionalResolution
  SoundAliases
  NoMerge
  ActiveIsLatestSnapshot
PROPERTIES
  AnchoredAliasKeepsIdentity
  ImplementsDirectory
