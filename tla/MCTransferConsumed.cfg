CONSTANTS
  RetryCount = 1
  MatchRetry = 1
  Commands <- MCCommands
SPECIFICATION Spec
CHECK_DEADLOCK FALSE
INVARIANT RequestConsumed
