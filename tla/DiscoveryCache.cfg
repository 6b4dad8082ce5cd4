CONSTANTS
  Scrape = {s1, s2}
  Method = {m1, m2}
  TTL = 2
  Timeout = 1
  MaxCollectors = 1
  MaxNotices = 1
SPECIFICATION DCFairSpec
INVARIANTS
  BoundedStaleness
  ExactUnlessRaced
PROPERTIES
  EventuallyCurrent
