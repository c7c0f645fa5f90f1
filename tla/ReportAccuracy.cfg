\* One question, whose answer may be wrong.
SPECIFICATION Spec
CHECK_DEADLOCK FALSE
CONSTANTS
  Questions = {q1}
  Latencies = {1}
  MaxAttempts = 1
  MaxRepeated = 0
  Origin = "api"
INVARIANTS AccuracyIsOfAnswers
