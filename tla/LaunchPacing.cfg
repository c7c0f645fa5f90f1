\* Two questions of two attempts; the clock runs over two windows and over more than
\* the longest interval, pause and delay.
SPECIFICATION Spec
SYMMETRY Symmetry
CHECK_DEADLOCK FALSE
CONSTANTS
  Questions = {q1, q2}
  MaxAttempts = 2
  Intervals = {1, 2}
  RetryAfters = {1}
  Backoffs = {1}
  Jitter = 1
  Window = 2
  Horizon = 4
INVARIANTS TypeOK RetriesOnTime LaunchesSpaced PausesRespected TimedMetricsExact
