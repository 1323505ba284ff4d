SPECIFICATION Spec
CONSTANTS
  MaxLaunch = 3
  OperatorWaits = FALSE
  AllowUnsigned = TRUE
  AllowUnverified = FALSE
  Published <- MCPublished
INVARIANT
  StoreIsReleased
