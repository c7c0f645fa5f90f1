\* Without any fault the report may be built before the results are persisted.
CONSTANTS
    Runs = {r1}
    Questions = {q1, q2}
    Readers = {c1}
    BatchSize = 2
    MaxFaults = 0
    MaxRetried = 0

SPECIFICATION Spec
CHECK_DEADLOCK FALSE

INVARIANT
    ReportIsComplete
