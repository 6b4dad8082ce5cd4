CONSTANTS
  Scenarios <- AllScenarios
  Field = {f1, f2, f3}
  Other = Other
  Channel = {c1, c2, c3}
  Unknown = Unknown
  Peer = {p1, p2, p3}
  Label = {l1, l2}
  None = None
  MaxKeys = 2
  MaxPeers = 2
  MaxPending = 1
  Buckets <- TwoBuckets
  MaxTime = 3
SPECIFICATION Spec
INVARIANTS
  CappedWithoutLoss
  FlowsCompleteOrAbsent
  PaymentsExact
PROPERTIES
  ConnectionTimeCounts
