CONSTANTS
  Channel = {c1}
  Value = {v1, v2}
  Absent = Absent
  Checkpoint = 2
  Retention = 3
  Scenarios <- Clocks
  MaxTime = 7
  MaxId = 5
SPECIFICATION Spec
INVARIANTS
  ChangeOnly
PROPERTIES
  ImplementsHistory
  RecordedWhenChanged
  OneBaselineStays
