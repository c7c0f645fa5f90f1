\* The page of one run of two questions, beside its pipeline; a fault of either.
CONSTANTS
    Runs = {r1}
    Questions = {q1, q2}
    Readers = {}
    BatchSize = 2
    MaxFaults = 1
    MaxRetried = 0
    MaxInTransit = 2

SPECIFICATION FairPageSpec
CHECK_DEADLOCK FALSE

PROPERTIES
    LiveNeverGoesBack
    PageSeesTheEnd
    EveryEntryIsHandled
