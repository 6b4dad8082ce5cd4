CONSTANTS
  Timeout = 2
  Warning = 2
  MaxFamilies = 2
  MaxSamples = 2
  MaxAccounts = 1
  Scenarios <- MCScenarios
  None = None
SPECIFICATION Spec
INVARIANTS
  AllOrNothing
  OneWriter
  DeadlinesWarned
  BalancesAddUp
  InTime
PROPERTIES
  ScrapeEnds
CHECK_DEADLOCK FALSE
