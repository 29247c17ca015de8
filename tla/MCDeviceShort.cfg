CONSTANTS
  MaxRetry = 2
  Limits <- ShortLimits
SPECIFICATION FairSpec
CHECK_DEADLOCK FALSE
PROPERTY ReachableAgain
