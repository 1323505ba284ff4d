SPECIFICATION Spec
CONSTANTS
  MaxLaunch = 3
  OperatorWaits = TRUE
  AllowUnsigned = TRUE
  AllowUnverified = FALSE
  Published <- MCPublished
INVARIANT
  FailedStopKeepsRunning
