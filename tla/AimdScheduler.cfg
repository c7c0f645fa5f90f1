\* Three questions of two attempts, one at a time and then two at a time.
SPECIFICATION FairSpec
SYMMETRY Symmetry
CONSTANTS
  Questions = {q1, q2, q3}
  MaxRetries = 1
  Faults = {"raised", "publish"}
  AgeingAt = {"sleeping"}
  InitialConcurrency = 1
  MaxTargetConcurrency = 2
  InitialLaunchInterval = 1
  MinLaunchInterval = 1
  MaxLaunchInterval = 1
  SuccessesBeforeIncrease = 1
  SuccessesBeforeRpmProbe = 1
  OverloadPercent = 70
  ProbeSpeedupPercent = 100
  SuccessSpeedupPercent = 100
  BackoffPercent = 100
  BackoffAdd = 0
  RpmTargetPermille = 995
  Minute = 60
  ObservableRpm = 6
INVARIANTS TypeOK NoQuestionLost InFlightMetricExact InFlightBounded
PROPERTIES ImplementsLedger ImplementsController RunEnds
