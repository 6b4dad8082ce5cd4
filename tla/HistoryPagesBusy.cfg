SPECIFICATION Spec
CONSTANTS
    Keys = {a, b}
    Queries <- BusyReads
    Forwards = 2
    MaxHtlcs = 2
    MaxTime = 3
    MaxRows = 3
INVARIANTS EveryBucketOnce
