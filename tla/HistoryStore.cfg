CONSTANTS
  Results <- MCResults
  Bucket = 2
  Retention = 3
  Interval = 2
  Timeout = 4
  MaxLag = 1
  Scenarios <- MCScenarios
  None = None
SPECIFICATION Spec
INVARIANTS
  RetentionExact
  LifecycleEventsMatch
  BucketsWholeOrGone
  ProbesWhole
  
  AggregateExact

  
CHECK_DEADLOCK FALSE
