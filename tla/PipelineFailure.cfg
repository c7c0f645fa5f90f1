\* One fault: an exception in the task of a run.
CONSTANTS
    Runs = {r1}
    Questions = {q1, q2}
    Readers = {c1}
    BatchSize = 2
    MaxFaults = 1
    MaxRetried = 0

SPECIFICATION FairSpec
CHECK_DEADLOCK FALSE

PROPERTY
    FailureIsRecorded
