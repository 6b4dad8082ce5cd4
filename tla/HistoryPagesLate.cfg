SPECIFICATION Spec
CONSTANTS
    Keys = {a, b}
    Queries <- LateReads
    Forwards = 2
    MaxHtlcs = 0
    MaxTime = 2
    MaxRows = 3
INVARIANTS EventsAllListed
