SPECIFICATION FairSpec
CONSTANTS
  Questions = {q1, q2, q3}
  MaxConcurrency = 2
  MaxRetries = 2
  Faults = {"raised", "publish"}
INVARIANT PermitsConserved
PROPERTIES RunEnds NoDispatchDuringPause ImplementsLedger
