\* One fault: the worker stops with messages it has received.
CONSTANTS
    Runs = {r1}
    Questions = {q1, q2}
    Readers = {c1}
    BatchSize = 2
    MaxFaults = 1
    MaxRetried = 0

SPECIFICATION FairSpec
CHECK_DEADLOCK FALSE

PROPERTY
    DisconnectedLosesNothing
