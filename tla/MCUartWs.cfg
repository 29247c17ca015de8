CONSTANTS
  Sockets = {1, 2}
  Cap = 2
  Take = 1
  MaxWork = 2
  QueueLen = 2
  Limits <- MCLimits
SPECIFICATION FairSpec
CHECK_DEADLOCK FALSE
INVARIANTS NoOldDataOnceCleared
PROPERTIES BridgeInOrder SessionKept DataIsSent SpamEnds
