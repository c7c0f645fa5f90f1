\* Three questions, two at a time, against two slots and two admissions per window of
\* three ticks (a second and a half).
CONSTANTS
    Requests = {r1, r2, r3}
    Rpm = 2
    MaxConcurrency = 2
    Window = 3
    Second = 2
    Horizon = 5
    Questions = {q1, q2, q3}
    RunConcurrency = 2
    MaxRetries = 1
    Jitter = 0

SPECIFICATION ServedSpec
SYMMETRY Symmetry
CHECK_DEADLOCK FALSE

INVARIANTS
    SlotsMatchHandlers
    StrictRpm
    RetryAfterIsExact
    RefusalsAreEarned
    ArrivalsFindSlots
    PausesOpenTheWindow
