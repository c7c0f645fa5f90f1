\* A run of the command line with two questions of two attempts.
SPECIFICATION Spec
SYMMETRY Symmetry
CHECK_DEADLOCK FALSE
CONSTANTS
  Questions = {q1, q2}
  Latencies = {1, 2, 3}
  MaxAttempts = 2
  MaxRepeated = 2
  Origin = "cli"
INVARIANTS CountersBalance PercentilesAreRanks ReportAddsUp
