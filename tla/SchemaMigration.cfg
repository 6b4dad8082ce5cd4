CONSTANTS
  k1 = k1
  k2 = id
  id = id
  r1 = r1
  d1 = d1
  Channel <- MCChannel
  Identifier = {id}
  Name = {r1, r2}
  Detail = {d1}
  None = None
  Files <- MCFiles
  MaxInterruptions = 2
SPECIFICATION Spec
INVARIANTS
  StampTrusted
  HistoryKept
PROPERTIES
  ForeignUntouched
  EventuallyReady
