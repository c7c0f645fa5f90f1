SPECIFICATION CtlSpec
CONSTANTS
  InitialConcurrency = 1
  MaxTargetConcurrency = 5
  InitialLaunchInterval = 2
  MinLaunchInterval = 1
  MaxLaunchInterval = 40
  SuccessesBeforeIncrease = 3
  SuccessesBeforeRpmProbe = 2
  OverloadPercent = 70
  ProbeSpeedupPercent = 80
  SuccessSpeedupPercent = 90
  BackoffPercent = 125
  BackoffAdd = 1
  RpmTargetPermille = 995
  Minute = 120
  ObservableRpm = 8
INVARIANTS TargetWithinBounds LearnedCeilingHolds PaceCoversLearnedLimit
PROPERTIES LearningIsMonotone GrowthIsEarned
