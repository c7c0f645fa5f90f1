\* Two runs share the stream and its consumer, and two requests build their reports.
CONSTANTS
    Runs = {r1, r2}
    Questions = {q1}
    Readers = {c1, c2}
    BatchSize = 2
    MaxFaults = 2
    MaxRetried = 2

SPECIFICATION Spec
SYMMETRY Symmetry
CHECK_DEADLOCK FALSE

INVARIANTS
    AcknowledgedIsPersisted
    OnlyFaultsDrop
    CountedOnce
    ProgressBounded
PROPERTY
    ImplementsDelivery
