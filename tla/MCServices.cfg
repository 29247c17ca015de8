CONSTANTS
  Commands <- MCCommands
  Limits <- MCLimits
  MaxRetry = 2
  Boundary <- MCBoundary
  Images <- MCImages
  Holdback = 8
  MaxRecv = 12
  Clients = {k1, k2}
  MaxTests = 4
  MaxFailures = 1
  RetryCount = 1
  MatchRetry = 1
  ByteBits = 4
  BlockBits = 8
  BufSize = 8
  Lengths = {0, 1, 3, 4, 7, 8, 9, 12, 15, 16, 17}
  MaxClients = 2
  MaxCommands = 2
SPECIFICATION MCSpec
CHECK_DEADLOCK FALSE
INVARIANTS RunsAsAsked UploadExact ResultIsOwn DataInOrder AccessedOnce AbortIsPrompt ShiftsExact
PROPERTIES ReachableAgain WorkEnds
