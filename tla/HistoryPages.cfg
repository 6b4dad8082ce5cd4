SPECIFICATION Spec
CONSTANTS
    Keys = {a, b}
    Queries <- WholeReads
    Forwards = 2
    MaxHtlcs = 1
    MaxTime = 5
    MaxRows = 4
INVARIANTS TypeOK ReadsBack EveryBucketOnce EventsAllListed ClosedPeriodsOnce
